-------------------------- MODULE RedisLockProofs --------------------------
(* Proofs about RedisLock, for every set of processes, hashes and lock     *)
(* ids, and every timing.                                                  *)
EXTENDS RedisLock, TLAPS

(* The id of a lock() call is known to nobody else: not to another call,   *)
(* not to a command that was left behind.  Hence no late or repeated       *)
(* unlock() matches the lock of another process.                           *)
IdsDiffer ==
  /\ \A p, q \in Proc : p # q /\ id[p] # Nil => id[p] # id[q]
  /\ \A l \in late, p \in Proc : l.id # id[p]

IInv == TypeOK /\ HolderKeepsLock /\ IdsDiffer /\ NoLostWakeup

LEMMA InitIInv == Init => IInv
BY NamesAssumption, BoundsAssumption
   DEF Init, IInv, TypeOK, HolderKeepsLock, IdsDiffer, NoLostWakeup, Lease!LeaseInit

-----------------------------------------------------------------------------
(* Helpers *)

LEMMA LeaveType ==
  ASSUME TypeOK, NEW p \in Proc, Leave(p)
  PROVE  /\ at' \in [Proc -> {"out", "try", "wait", "held"}]
         /\ scope' \in [Proc -> Hash \cup {Nil}]
         /\ id' \in [Proc -> LockId \cup {Nil}]
         /\ elapsed' \in [Proc -> 0..(Waiting + Second)]
         /\ blocked' \in [Proc -> 0..Second]
         /\ at'[p] = "out" /\ id'[p] = Nil
         /\ \A q \in Proc \ {p} : at'[q] = at[q] /\ scope'[q] = scope[q] /\ id'[q] = id[q]
BY BoundsAssumption DEF Leave, TypeOK

LEMMA AbandonType ==
  ASSUME TypeOK, NEW p \in Proc, at[p] # "out", NEW h \in Hash,
         NEW cmd \in {"set", "blpop", "unlock"}, Abandon(p, cmd, h)
  PROVE  /\ late' \subseteq LateType
         /\ \A l \in late' : l \in late \/ l.id = id[p]
BY DEF Abandon, TypeOK, LateType

(* One step of the loop of lock() after BLPOP.                             *)
LEMMA TryAgainType ==
  ASSUME TypeOK, NEW p \in Proc, at[p] = "wait", TryAgainOrGiveUp(p)
  PROVE  /\ at' \in [Proc -> {"out", "try", "wait", "held"}]
         /\ scope' \in [Proc -> Hash \cup {Nil}]
         /\ id' \in [Proc -> LockId \cup {Nil}]
         /\ elapsed' \in [Proc -> 0..(Waiting + Second)]
         /\ blocked' \in [Proc -> 0..Second]
         /\ at'[p] \in {"try", "out"}
         /\ at'[p] = "try" => id'[p] = id[p] /\ scope'[p] = scope[p]
         /\ elapsed[p] < Waiting => at'[p] = "try"
         /\ id'[p] \in {Nil, id[p]}
         /\ \A q \in Proc \ {p} : at'[q] = at[q] /\ scope'[q] = scope[q] /\ id'[q] = id[q]
<1>1. CASE elapsed[p] < Waiting
  BY <1>1, BoundsAssumption DEF TryAgainOrGiveUp, TypeOK
<1>2. CASE ~(elapsed[p] < Waiting)
  BY <1>2, LeaveType DEF TryAgainOrGiveUp
<1> QED
  BY <1>1, <1>2

LEMMA PushTokenType ==
  ASSUME TypeOK, NEW h \in Hash, PushToken(h)
  PROVE  /\ tokens' \in [Hash -> 0..MaxTokens]
         /\ tokens'[h] > 0
         /\ \A g \in Hash \ {h} : tokens'[g] = tokens[g]
BY BoundsAssumption DEF PushToken, TypeOK

LEMMA DeleteIfMineType ==
  ASSUME TypeOK, NEW h \in Hash, NEW i, DeleteIfMine(h, i)
  PROVE  /\ lockKey' \in [Hash -> LockId \cup {Nil}]
         /\ \A g \in Hash : g # h \/ lockKey[g] # i => lockKey'[g] = lockKey[g]
BY DEF DeleteIfMine, TypeOK

LEMMA EndLeaseOfType ==
  ASSUME TypeOK, NEW p \in Proc, at[p] # "out", EndLeaseOf(p)
  PROVE  /\ holder' \in [Hash -> Proc \cup {Nil}]
         /\ \A h \in Hash : holder'[h] # Nil => holder'[h] = holder[h]
         /\ holder'[scope[p]] # p
         /\ holder' = holder \/ Lease!EndLease(scope[p])
BY NamesAssumption DEF EndLeaseOf, TypeOK, Lease!EndLease

-----------------------------------------------------------------------------
(* Every step preserves the invariant *)

LEMMA LockStepInv ==
  ASSUME IInv, NEW p \in Proc, NEW h \in Hash, Lock(p, h)
  PROVE  IInv'
<1> USE DEF IInv, Lock
<1>1. PICK i \in LockId \ IdsInUse : id' = [id EXCEPT ![p] = i]
  OBVIOUS
<1>2. TypeOK'
  BY <1>1, BoundsAssumption DEF TypeOK
<1>3. HolderKeepsLock'
  BY <1>1 DEF HolderKeepsLock, TypeOK
<1>4. IdsDiffer'
  <2>1. \A q \in Proc : i # id[q]
    BY DEF IdsInUse
  <2>2. \A l \in late : i # l.id
    BY DEF IdsInUse
  <2> QED
    BY <1>1, <2>1, <2>2 DEF IdsDiffer, TypeOK
<1>5. NoLostWakeup'
  BY DEF NoLostWakeup, TypeOK
<1> QED
  BY <1>2, <1>3, <1>4, <1>5

LEMMA TryLockInv ==
  ASSUME IInv, NEW p \in Proc, TryLock(p)
  PROVE  IInv'
<1> USE DEF IInv, TryLock
<1>1. scope[p] \in Hash /\ id[p] \in LockId
  BY DEF TypeOK
<1>2. TypeOK'
  <2>1. CASE lockKey[scope[p]] = Nil
    <3>1. /\ lockKey' \in [Hash -> LockId \cup {Nil}]
          /\ holder' \in [Hash -> Proc \cup {Nil}]
      BY <1>1, <2>1 DEF TypeOK
    <3>2. lapsed' \in [Hash -> BOOLEAN]
      BY <2>1 DEF TypeOK
    <3>3. /\ at' \in [Proc -> {"out", "try", "wait", "held"}]
          /\ elapsed' \in [Proc -> 0..(Waiting + Second)]
          /\ blocked' = blocked
      BY <2>1, BoundsAssumption DEF TypeOK
    <3>4. \A q \in Proc : at'[q] # "out" => scope[q] \in Hash /\ id[q] \in LockId
      BY <2>1 DEF TypeOK
    <3> QED
      BY <3>1, <3>2, <3>3, <3>4 DEF TypeOK
  <2>2. CASE lockKey[scope[p]] # Nil
    BY <1>1, <2>2, BoundsAssumption DEF TypeOK
  <2> QED
    BY <2>1, <2>2
<1>3. HolderKeepsLock'
  BY <1>1, NamesAssumption DEF HolderKeepsLock, TypeOK
<1>4. IdsDiffer'
  BY DEF IdsDiffer
<1>5. NoLostWakeup'
  BY <1>1, NamesAssumption DEF NoLostWakeup, TypeOK
<1> QED
  BY <1>2, <1>3, <1>4, <1>5

LEMMA WakeInv ==
  ASSUME IInv, NEW p \in Proc, Wake(p) \/ BlpopTimeout(p)
  PROVE  IInv'
<1> USE DEF IInv
<1>1. /\ at[p] = "wait" /\ TryAgainOrGiveUp(p) /\ UNCHANGED <<lockKey, late, holder>>
      /\ scope[p] \in Hash
      /\ tokens' \in [Hash -> 0..MaxTokens] /\ lapsed' \in [Hash -> BOOLEAN]
      /\ \A h \in Hash : lapsed[h] => lapsed'[h]
      /\ \A h \in Hash \ {scope[p]} : tokens'[h] = tokens[h]
      /\ \/ tokens' = tokens
         \/ elapsed[p] < Waiting
         \/ lapsed'[scope[p]]
  <2> DEFINE s == scope[p]
  <2>1. s \in Hash /\ elapsed[p] \in Nat /\ Waiting \in Nat
    BY BoundsAssumption DEF Wake, BlpopTimeout, TypeOK
  <2>2. CASE BlpopTimeout(p)
    BY <2>1, <2>2 DEF BlpopTimeout, TypeOK
  <2>3. CASE Wake(p)
    <3> DEFINE gone == lapsed[s] \/ elapsed[p] >= Waiting
    <3>1. gone \in BOOLEAN /\ lapsed' = [lapsed EXCEPT ![s] = gone]
      BY <2>3 DEF Wake
    <3>2. /\ lapsed' \in [Hash -> BOOLEAN]
          /\ lapsed'[s] = gone
          /\ \A h \in Hash \ {s} : lapsed'[h] = lapsed[h]
      <4> HIDE DEF gone
      <4> QED BY <2>1, <3>1 DEF TypeOK
    <3>3. /\ tokens' \in [Hash -> 0..MaxTokens]
          /\ \A h \in Hash \ {s} : tokens'[h] = tokens[h]
      BY <2>1, <2>3, BoundsAssumption DEF Wake, TypeOK
    <3>4. \A h \in Hash : lapsed[h] => lapsed'[h]
      BY <3>2
    <3>5. elapsed[p] < Waiting \/ lapsed'[s]
      BY <2>1, <3>2
    <3> QED
      BY <2>1, <2>3, <3>2, <3>3, <3>4, <3>5 DEF Wake
  <2> QED
    BY <2>2, <2>3
<1>2. TypeOK'
  BY <1>1, TryAgainType DEF TypeOK
<1>3. HolderKeepsLock'
  BY <1>1, TryAgainType DEF HolderKeepsLock, TypeOK
<1>4. IdsDiffer'
  BY <1>1, TryAgainType, NamesAssumption DEF IdsDiffer, TypeOK, LateType
<1>5. NoLostWakeup'
  BY <1>1, TryAgainType DEF NoLostWakeup, TypeOK
<1> QED
  BY <1>2, <1>3, <1>4, <1>5

LEMMA UnlockInv ==
  ASSUME IInv, NEW p \in Proc, NEW g \in Hash, Unlock(p, g)
  PROVE  IInv'
<1> USE DEF IInv, Unlock
<1>1. scope[p] \in Hash /\ id[p] \in LockId
  BY DEF TypeOK
<1>2. TypeOK'
  BY <1>1, LeaveType, PushTokenType, DeleteIfMineType, EndLeaseOfType DEF TypeOK
<1>3. HolderKeepsLock'
  <2> SUFFICES ASSUME NEW h \in Hash, holder'[h] # Nil
               PROVE  /\ at'[holder'[h]] = "held" /\ scope'[holder'[h]] = h
                      /\ lockKey'[h] = id'[holder'[h]]
    BY DEF HolderKeepsLock
  <2>1. holder'[h] = holder[h] /\ holder[h] \in Proc
    BY <1>1, EndLeaseOfType DEF TypeOK
  <2>2. holder[h] # p
    BY <1>1, <2>1, EndLeaseOfType DEF HolderKeepsLock
  <2>3. id[p] # id[holder[h]]
    BY <1>1, <2>1, <2>2, NamesAssumption DEF IdsDiffer
  <2> QED
    BY <1>1, <2>1, <2>2, <2>3, LeaveType, DeleteIfMineType DEF HolderKeepsLock
<1>4. IdsDiffer'
  BY LeaveType, NamesAssumption DEF IdsDiffer, TypeOK, LateType
<1>5. NoLostWakeup'
  BY <1>1, LeaveType, PushTokenType, DeleteIfMineType DEF NoLostWakeup, TypeOK
<1> QED
  BY <1>2, <1>3, <1>4, <1>5

LEMMA TickInv ==
  ASSUME IInv, Tick
  PROVE  IInv'
<1> USE DEF IInv, Tick
<1>1. TypeOK'
  BY BoundsAssumption DEF TypeOK
<1>2. HolderKeepsLock' /\ IdsDiffer' /\ NoLostWakeup'
  BY DEF HolderKeepsLock, IdsDiffer, NoLostWakeup
<1> QED
  BY <1>1, <1>2

LEMMA LockFailsInv ==
  ASSUME IInv, NEW p \in Proc, LockFails(p)
  PROVE  IInv'
<1> USE DEF IInv, LockFails
<1>1. /\ scope[p] \in Hash /\ id[p] \in LockId
      /\ lapsed' \in [Hash -> BOOLEAN]
      /\ \A h \in Hash : lapsed[h] => lapsed'[h]
      /\ at[p] = "try" => lapsed'[scope[p]]
  BY DEF TypeOK
<1>2. /\ late' \subseteq LateType
      /\ \A l \in late' : l \in late \/ l.id = id[p]
  BY <1>1, AbandonType
<1>3. TypeOK'
  BY <1>1, <1>2, LeaveType DEF TypeOK
<1>4. HolderKeepsLock'
  BY LeaveType DEF HolderKeepsLock, TypeOK
<1>5. IdsDiffer'
  BY <1>1, <1>2, LeaveType, NamesAssumption DEF IdsDiffer, TypeOK, LateType
<1>6. NoLostWakeup'
  BY <1>1, LeaveType DEF NoLostWakeup, TypeOK
<1> QED
  BY <1>3, <1>4, <1>5, <1>6

LEMMA UnlockFailsInv ==
  ASSUME IInv, NEW p \in Proc, NEW g \in Hash, UnlockFails(p, g)
  PROVE  IInv'
<1> USE DEF IInv, UnlockFails
<1>1. scope[p] \in Hash /\ id[p] \in LockId
  BY DEF TypeOK
<1>2. /\ late' \subseteq LateType
      /\ \A l \in late' : l \in late \/ l.id = id[p]
  BY AbandonType
<1>3. TypeOK'
  BY <1>1, <1>2, LeaveType, EndLeaseOfType DEF TypeOK
<1>4. HolderKeepsLock'
  BY <1>1, LeaveType, EndLeaseOfType DEF HolderKeepsLock, TypeOK
<1>5. IdsDiffer'
  BY <1>1, <1>2, LeaveType, NamesAssumption DEF IdsDiffer, TypeOK, LateType
<1>6. NoLostWakeup'
  BY LeaveType DEF NoLostWakeup, TypeOK
<1> QED
  BY <1>3, <1>4, <1>5, <1>6

LEMMA LateCommandInv ==
  ASSUME IInv, NEW l \in late, LateCommand(l)
  PROVE  IInv'
<1> USE DEF IInv, LateCommand
<1>1. l.hash \in Hash /\ l.id \in LockId
  BY DEF TypeOK, LateType
<1>2. CASE l.cmd = "set" /\ UNCHANGED <<tokens, lapsed>>
           /\ lockKey' = [lockKey EXCEPT ![l.hash] = IF @ = Nil THEN l.id ELSE @]
  <2>1. TypeOK'
    BY <1>1, <1>2 DEF TypeOK
  <2>2. HolderKeepsLock'
    BY <1>1, <1>2, NamesAssumption DEF HolderKeepsLock, TypeOK
  <2>3. IdsDiffer' /\ NoLostWakeup'
    BY <1>1, <1>2, NamesAssumption DEF IdsDiffer, NoLostWakeup, TypeOK
  <2> QED
    BY <2>1, <2>2, <2>3
<1>3. CASE l.cmd = "blpop" /\ UNCHANGED lockKey
           /\ tokens' = [tokens EXCEPT ![l.hash] = IF @ > 0 THEN @ - 1 ELSE 0]
           /\ lapsed' = [lapsed EXCEPT ![l.hash] = TRUE]
  <2>1. TypeOK'
    BY <1>1, <1>3, BoundsAssumption DEF TypeOK
  <2>2. HolderKeepsLock' /\ IdsDiffer'
    BY <1>3 DEF HolderKeepsLock, IdsDiffer
  <2>3. NoLostWakeup'
    BY <1>1, <1>3 DEF NoLostWakeup, TypeOK
  <2> QED
    BY <2>1, <2>2, <2>3
<1>4. CASE l.cmd = "unlock" /\ DeleteIfMine(l.hash, l.id) /\ PushToken(l.hash)
           /\ UNCHANGED lapsed
  <2>1. TypeOK'
    BY <1>1, <1>4, DeleteIfMineType, PushTokenType DEF TypeOK
  <2>2. HolderKeepsLock'
    BY <1>1, <1>4, DeleteIfMineType DEF HolderKeepsLock, IdsDiffer, TypeOK
  <2>3. IdsDiffer'
    BY DEF IdsDiffer
  <2>4. NoLostWakeup'
    BY <1>1, <1>4, DeleteIfMineType, PushTokenType DEF NoLostWakeup, TypeOK
  <2> QED
    BY <2>1, <2>2, <2>3, <2>4
<1> QED
  BY <1>2, <1>3, <1>4

LEMMA ExpireInv ==
  ASSUME IInv, NEW h \in Hash, ExpireLock(h) \/ ExpireTokens(h)
  PROVE  IInv'
<1> USE DEF IInv, ExpireLock, ExpireTokens
<1>1. TypeOK'
  <2>1. CASE ExpireLock(h)
    BY <2>1 DEF TypeOK
  <2>2. CASE ExpireTokens(h)
    BY <2>2, BoundsAssumption DEF TypeOK
  <2> QED
    BY <2>1, <2>2
<1>2. HolderKeepsLock'
  BY DEF HolderKeepsLock, TypeOK
<1>3. IdsDiffer' /\ NoLostWakeup'
  BY DEF IdsDiffer, NoLostWakeup, TypeOK
<1> QED
  BY <1>1, <1>2, <1>3

LEMMA StepIInv == IInv /\ [Next]_vars => IInv'
<1> SUFFICES ASSUME IInv, [Next]_vars PROVE IInv'
  OBVIOUS
<1>1. CASE UNCHANGED vars
  BY <1>1 DEF vars, IInv, TypeOK, HolderKeepsLock, IdsDiffer, NoLostWakeup
<1>2. ASSUME NEW p \in Proc, ProcStep(p)
      PROVE  IInv'
  BY <1>2, LockStepInv, TryLockInv, WakeInv, UnlockInv, LockFailsInv, UnlockFailsInv
     DEF ProcStep, LockStep
<1>3. CASE Environment
  BY <1>3, TickInv, LateCommandInv, ExpireInv DEF Environment
<1> QED
  BY <1>1, <1>2, <1>3 DEF Next

(* Leases begin when nobody holds the lock, and end.                       *)
LEMMA StepImplementsLease ==
  ASSUME IInv, [Next]_vars
  PROVE  [Lease!LeaseNext]_holder
<1>1. CASE UNCHANGED holder
  BY <1>1
<1>2. ASSUME NEW p \in Proc, TryLock(p), holder' # holder
      PROVE  Lease!LeaseNext
  <2>1. scope[p] \in Hash /\ lockKey[scope[p]] = Nil
    BY <1>2 DEF TryLock, IInv, TypeOK
  <2>2. holder[scope[p]] = Nil
    BY <2>1, NamesAssumption DEF IInv, TypeOK, HolderKeepsLock
  <2> QED
    BY <1>2, <2>1, <2>2 DEF TryLock, Lease!LeaseNext, Lease!Acquire
<1>3. ASSUME NEW p \in Proc, NEW g \in Hash,
             Unlock(p, g) \/ UnlockFails(p, g), holder' # holder
      PROVE  Lease!LeaseNext
  <2>1. at[p] # "out" /\ scope[p] \in Hash
    BY <1>3 DEF Unlock, UnlockFails, IInv, TypeOK
  <2> QED
    BY <1>3, <2>1, EndLeaseOfType DEF Unlock, UnlockFails, Lease!LeaseNext, IInv
<1>4. ASSUME NEW h \in Hash, ExpireLock(h), holder' # holder
      PROVE  Lease!LeaseNext
  BY <1>4 DEF ExpireLock, Lease!LeaseNext, Lease!EndLease, IInv, TypeOK
<1>5. ASSUME NEW p \in Proc, ProcStep(p), holder' # holder
      PROVE  Lease!LeaseNext
  BY <1>2, <1>3, <1>5 DEF ProcStep, LockStep, Lock, Wake, BlpopTimeout, LockFails
<1>6. CASE Environment
  BY <1>1, <1>4, <1>6 DEF Environment, Tick, LateCommand, ExpireTokens
<1>7. CASE UNCHANGED vars
  BY <1>1, <1>7 DEF vars
<1> QED
  BY <1>1, <1>5, <1>6, <1>7 DEF Next

-----------------------------------------------------------------------------
(* Theorems *)

(* The invariant behind the other theorems.                                *)
THEOREM Invariance == Spec => []IInv
BY InitIInv, StepIInv, PTL DEF Spec

(* Every variable keeps its type.                                          *)
THEOREM TypeCorrectness == Spec => []TypeOK
<1>1. IInv => TypeOK
  BY DEF IInv
<1> QED
  BY <1>1, Invariance, PTL

(* No unlock(), on time, late or repeated, removes the live lock of        *)
(* another process (LOCK_LUA_SCRIPT compares the id).                      *)
THEOREM LocksAreNotStolen == Spec => []HolderKeepsLock
<1>1. IInv => HolderKeepsLock
  BY DEF IInv
<1> QED
  BY <1>1, Invariance, PTL

(* A process that waits in BLPOP next to a free lock has a token, another  *)
(* process or a lapse to thank for its wakeup: unlock() pushes in the same *)
(* transaction as it deletes.                                              *)
THEOREM WakeupsAreNotLost == Spec => []NoLostWakeup
<1>1. IInv => NoLostWakeup
  BY DEF IInv
<1> QED
  BY <1>1, Invariance, PTL

(* lock() and unlock() over Redis give out leases: one holder at a time.   *)
THEOREM Refinement == Spec => ImplementsLease
<1>1. Init => Lease!LeaseInit
  BY DEF Init
<1>2. IInv /\ [Next]_vars => [Lease!LeaseNext]_holder
  BY StepImplementsLease
<1> QED
  BY <1>1, <1>2, Invariance, PTL DEF Spec, ImplementsLease, Lease!LeaseSpec
=============================================================================
