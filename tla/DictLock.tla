------------------------------ MODULE DictLock ------------------------------
(***************************************************************************)
(* lock(), unlock() and the expiration thread of DictMetadataAdapter       *)
(* (rtc/infra/adapters/metadata/dict.py), called by the threads of one     *)
(* process.                                                                *)
(*                                                                         *)
(* A lock is a LockWithId object, a threading.Lock with a deadline, listed *)
(* in the dictionary _locks.  The dictionary is read and written under     *)
(* _internal_lock, in one step each; a thread that finds a lock listed     *)
(* waits for it outside, without _internal_lock.                           *)
(*                                                                         *)
(* A step is one critical section, or what happens to a threading.Lock.    *)
(* Ids are left out: unlock() does not look at them.                       *)
(***************************************************************************)
EXTENDS Naturals, FiniteSets

CONSTANTS
  Proc,     \* threads
  Hash,     \* what is locked: an entry, by its metadata hash
  Obj,      \* LockWithId objects; one that nothing refers to is used again
  Nil       \* None

ASSUME NamesAssumption == Nil \notin Obj \cup Hash

VARIABLES
  locks,    \* _locks: the object listed for each hash, or Nil
  taken,    \* taken[o]: the threading.Lock of o is acquired
  expired,  \* expired[o]: the deadline of o has passed
  at,       \* at[p]: where p is; "none": lock() has returned None
  scope,    \* scope[p]: the hash that p locks
  obj,      \* obj[p]: the object that p waits for, or has acquired
  mixup     \* history: see ExclusiveUntilMixup

vars == <<locks, taken, expired, at, scope, obj, mixup>>

-----------------------------------------------------------------------------
Init ==
  /\ locks = [h \in Hash |-> Nil]
  /\ taken = [o \in Obj |-> FALSE]
  /\ expired = [o \in Obj |-> FALSE]
  /\ at = [p \in Proc |-> "out"]
  /\ scope = [p \in Proc |-> Nil]
  /\ obj = [p \in Proc |-> Nil]
  /\ mixup = FALSE

New == {o \in Obj : /\ \A h \in Hash : locks[h] # o
                    /\ \A p \in Proc : obj[p] # o}

Enter(p, label, h, o) ==
  /\ at' = [at EXCEPT ![p] = label]
  /\ scope' = [scope EXCEPT ![p] = h]
  /\ obj' = [obj EXCEPT ![p] = o]

(* Mutant of LockNew: created without looking at what is listed.           *)
LockAlwaysNew(p, h) ==
  /\ at[p] = "out"
  /\ \E o \in New :
       /\ locks' = [locks EXCEPT ![h] = o]
       /\ taken' = [taken EXCEPT ![o] = TRUE]
       /\ expired' = [expired EXCEPT ![o] = FALSE]
       /\ Enter(p, "held", h, o)
  /\ UNCHANGED mixup

(* lock() when no lock is listed.                                          *)
LockNew(p, h) ==
  /\ at[p] = "out" /\ locks[h] = Nil
  /\ \E o \in New :
       /\ locks' = [locks EXCEPT ![h] = o]
       /\ taken' = [taken EXCEPT ![o] = TRUE]
       /\ expired' = [expired EXCEPT ![o] = FALSE]
       /\ Enter(p, "held", h, o)
  /\ UNCHANGED mixup

(* Mutant of LockListed: the listed object is looked up later.             *)
LockListedUnread(p, h) ==
  /\ at[p] = "out" /\ locks[h] # Nil
  /\ Enter(p, "wait", h, Nil)
  /\ UNCHANGED <<locks, taken, expired, mixup>>

(* lock() when one is listed: p goes to wait for that object.              *)
LockListed(p, h) ==
  /\ at[p] = "out" /\ locks[h] # Nil
  /\ Enter(p, "wait", h, locks[h])
  /\ UNCHANGED <<locks, taken, expired, mixup>>

Acquire(p) ==
  /\ at[p] = "wait" /\ ~taken[obj[p]]
  /\ taken' = [taken EXCEPT ![obj[p]] = TRUE]
  /\ at' = [at EXCEPT ![p] = "held"]
  /\ mixup' = TRUE
  /\ UNCHANGED <<locks, expired, scope, obj>>

(* The wait times out.                                                     *)
GiveUp(p) ==
  /\ at[p] = "wait" /\ taken[obj[p]]
  /\ at' = [at EXCEPT ![p] = "none"]
  /\ obj' = [obj EXCEPT ![p] = Nil]
  /\ UNCHANGED <<locks, taken, expired, scope, mixup>>

Leave(p) == Enter(p, "out", Nil, Nil)

(* Those whose lock is live: lock() has given it to them, they have not    *)
(* called unlock() and its deadline has not passed.                        *)
LiveHolders(h) ==
  {p \in Proc : at[p] = "held" /\ scope[p] = h /\ ~expired[obj[p]]}

(* Mutant of PopAndRelease: released, but listed still.                    *)
ReleaseListed(h) ==
  /\ locks' = locks
  /\ taken' = [o \in Obj |-> taken[o] /\ o # locks[h]]

(* unlock(), whatever id it is given: the object listed now is released    *)
(* and is listed no more.                                                  *)
PopAndRelease(h) ==
  /\ locks' = [locks EXCEPT ![h] = Nil]
  /\ taken' = [o \in Obj |-> taken[o] /\ o # locks[h]]

(* By the thread that lock() gave an id to, or by one that it gave None to *)
(* and that has found a value meanwhile; under the hash that it has read   *)
(* last, which may be another than the one it locked (rtc/app/service.py). *)
Unlock(p, h) ==
  /\ at[p] \in {"held", "none"}
  /\ PopAndRelease(h)
  /\ mixup' = (mixup \/ (locks[h] # Nil /\ p \notin LiveHolders(h)))
  /\ Leave(p)
  /\ UNCHANGED expired

(* No unlock(): no value was found, or the decorated function has raised.  *)
NoUnlock(p) ==
  /\ at[p] \in {"held", "none"}
  /\ Leave(p)
  /\ UNCHANGED <<locks, taken, expired, mixup>>

(* The deadline of o passes.                                               *)
Expire(o) ==
  /\ ~expired[o] /\ o \notin New
  /\ expired' = [expired EXCEPT ![o] = TRUE]
  /\ UNCHANGED <<locks, taken, at, scope, obj, mixup>>

Overdue == {h \in Hash : locks[h] # Nil /\ expired[locks[h]]}

(* Mutant of Sweep: the locks are released but stay listed.                *)
SweepWithoutDropping ==
  /\ Overdue # {}
  /\ taken' = [o \in Obj |-> taken[o] /\ \A h \in Overdue : o # locks[h]]
  /\ UNCHANGED <<locks, expired, at, scope, obj, mixup>>

(* One round of expiration_thread_run.                                     *)
Sweep ==
  /\ Overdue # {}
  /\ locks' = [h \in Hash |-> IF h \in Overdue THEN Nil ELSE locks[h]]
  /\ taken' = [o \in Obj |-> taken[o] /\ \A h \in Overdue : o # locks[h]]
  /\ UNCHANGED <<expired, at, scope, obj, mixup>>

-----------------------------------------------------------------------------
Next ==
  \/ \E p \in Proc :
       \/ \E h \in Hash : LockNew(p, h) \/ LockListed(p, h) \/ Unlock(p, h)
       \/ Acquire(p) \/ GiveUp(p) \/ NoUnlock(p)
  \/ \E o \in Obj : Expire(o)
  \/ Sweep

Spec == Init /\ [][Next]_vars

(* Time passes, and the daemon thread runs every half second.              *)
Fairness == (\A o \in Obj : WF_vars(Expire(o))) /\ WF_vars(Sweep)

FairSpec == Spec /\ Fairness

-----------------------------------------------------------------------------
(* Properties *)

TypeOK ==
  /\ locks \in [Hash -> Obj \cup {Nil}]
  /\ taken \in [Obj -> BOOLEAN]
  /\ expired \in [Obj -> BOOLEAN]
  /\ at \in [Proc -> {"out", "wait", "held", "none"}]
  /\ scope \in [Proc -> Hash \cup {Nil}]
  /\ obj \in [Proc -> Obj \cup {Nil}]
  /\ mixup \in BOOLEAN
  /\ \A p \in Proc : at[p] # "out" => scope[p] \in Hash
  /\ \A p \in Proc : at[p] \in {"wait", "held"} => obj[p] \in Obj

(* What lock() relies on (dict.py:117, "Can't block", and the wait): a      *)
(* lock that is listed is taken, so a thread that waits for one gets it    *)
(* only after it was unlisted.                                             *)
ListedIsTaken ==
  /\ \A h \in Hash : locks[h] # Nil => taken[locks[h]]
  /\ \A g, h \in Hash : locks[g] = locks[h] /\ locks[g] # Nil => g = h

(* The lock is exclusive as long as nobody got it by waiting and nobody    *)
(* removed a lock that it did not have, or had no longer, with unlock().   *)
ExclusiveUntilMixup ==
  ~mixup => \A h \in Hash : \A p, q \in LiveHolders(h) : p = q

(* Why: until then every thread that has a lock created its object, and    *)
(* the object is listed for as long as the lock is live.                   *)
HoldersAreListed ==
  ~mixup =>
    /\ \A h \in Hash : \A p \in LiveHolders(h) : locks[h] = obj[p]
    /\ \A p, q \in Proc : at[p] = "held" /\ at[q] = "held" /\ obj[p] = obj[q] => p = q

(* The inductive invariant.                                                *)
IInv == TypeOK /\ ListedIsTaken /\ HoldersAreListed

(* A lock whose holder never calls unlock() does not block the others for  *)
(* ever: it is listed no longer, sooner or later.                          *)
ListedLocksGo ==
  \A h \in Hash, o \in Obj : locks[h] = o ~> locks[h] # o
=============================================================================
