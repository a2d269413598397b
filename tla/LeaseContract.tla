--------------------------- MODULE LeaseContract ---------------------------
(***************************************************************************)
(* What MetadataPort.lock and unlock promise (rtc/app/metadata.py): "the   *)
(* lock is live until unlock() call or the lock is expired".  A lock has   *)
(* at most one holder, and changes hands only through being free: nobody   *)
(* but its holder, or time, takes a live lock away.                        *)
(***************************************************************************)
CONSTANTS
  Proc,   \* the threads and processes that call lock()
  Hash,   \* what is locked: an entry, by its metadata hash
  Nil     \* nobody

VARIABLE
  holder  \* holder[h]: the process whose lock on h is live, or Nil

LeaseInit == holder = [h \in Hash |-> Nil]

Acquire(p, h) ==
  /\ holder[h] = Nil
  /\ holder' = [holder EXCEPT ![h] = p]

(* unlock() by the holder, or expiry.                                      *)
EndLease(h) ==
  /\ holder[h] # Nil
  /\ holder' = [holder EXCEPT ![h] = Nil]

LeaseNext == \E h \in Hash : EndLease(h) \/ \E p \in Proc : Acquire(p, h)

LeaseSpec == LeaseInit /\ [][LeaseNext]_holder
=============================================================================
