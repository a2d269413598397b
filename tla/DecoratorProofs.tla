-------------------------- MODULE DecoratorProofs --------------------------
(* Proofs about Decorator, for every set of processes and hashes and any   *)
(* number of changes of the data.                                          *)
EXTENDS Decorator, TLAPS

-----------------------------------------------------------------------------
(* The inductive invariant                                                 *)

(* Between the lock and its release.                                       *)
Holding == {"hash2", "fill2", "get2", "unlockhit", "compute", "hash3", "fill3",
            "put", "unlock"}

(* A call that has ended has forgotten its hash; before the lock there is  *)
(* no lock id; and who has a lock id has it of one lock.                   *)
IdleForgets ==
  /\ \A p \in Proc :
       /\ pc[p] \in {"idle", "hash1"} => hash[p] = Nil
       /\ pc[p] \in {"idle", "hash1", "fill1", "get1", "lock", "wait"} => ~locked[p]
       /\ moved[p] => p \in Filling
  /\ \A h \in Hash, p \in Proc : lockKey[h] = p => locked[p]
  /\ \A g, h \in Hash : lockKey[g] = lockKey[h] /\ lockKey[h] \in Proc => g = h

(* There is a value to store.                                              *)
ValueToStore ==
  \A p \in Proc : pc[p] \in {"hash3", "fill3", "put"} => val[p] \in Version

(* Until the values that a call has drawn are sent, nobody else works with *)
(* their hash.                                                             *)
DrawnUnknown ==
  \A p \in Filling :
    /\ Drawn(p) # cur
    /\ stored[Drawn(p)] = Nil /\ lockKey[Drawn(p)] = Nil
    /\ \A q \in Proc : /\ hash[q] = Drawn(p) => q = p /\ pc[p] # "fill3"
                       /\ target[q] = Drawn(p) => q = p /\ pc[p] = "fill3"

(* Get1, GetHash3, Fill, Put: a value on its way to the hash within reach, *)
(* or already there, is as recent as the last invalidation.                *)
NoStaleValue ==
  /\ flushed <= version
  /\ ~overlapped =>
       /\ cur # Nil /\ stored[cur] # Nil => stored[cur] >= flushed
       /\ \A p \in Proc :
            pc[p] \in {"hash3", "fill3"} \/ (pc[p] = "put" /\ target[p] = cur)
              => val[p] >= flushed

(* As long as nothing is disturbed and no tag was created twice, no call   *)
(* gets past its first reading while a tag is missing, and none finds one  *)
(* missing afterwards.                                                     *)
FirstReading ==
  ~disturbed /\ ~raced =>
    /\ \A p \in Proc : pc[p] \notin {"fill2", "fill3"}
    /\ \A p \in Proc : p \in Filling /\ ~moved[p] => cur = Nil
    /\ cur = Nil => \A p \in Proc : pc[p] \in {"idle", "hash1", "fill1"}

(* Under the same conditions every call works with the hash within reach,  *)
(* and the lock under it belongs to the call that knows its id.            *)
LockIsOwned ==
  ~disturbed /\ ~raced =>
    /\ \A p \in Proc : p \notin Filling => hash[p] \in {Nil, cur}
    /\ \A p \in Proc : pc[p] = "put" => target[p] = cur
    /\ cur # Nil => lockKey[cur] # Orphan
    /\ \A p \in Proc : pc[p] \in Holding /\ locked[p] => cur # Nil /\ lockKey[cur] = p /\ hash[p] = cur
    /\ \A p \in Proc, h \in Hash : lockKey[h] = p => h = cur /\ pc[p] \in Holding

(* With lock=True, who has come so far has the lock; and once the function *)
(* was computed, its value is stored or on its way, so that whoever has    *)
(* the lock afterwards finds it.                                           *)
OneComputation ==
  ~disturbed /\ ~raced /\ locking =>
    /\ \A p \in Proc : pc[p] \in Holding => locked[p]
    /\ computed <= 1
    /\ computed = 1 => \/ cur # Nil /\ stored[cur] # Nil
                       \/ \E p \in Proc : pc[p] \in {"hash3", "put"}
    /\ \A p \in Proc : pc[p] = "compute" => computed = 0

IInv ==
  /\ TypeOK /\ IdleForgets /\ ValueToStore /\ DrawnUnknown
  /\ NoStaleValue /\ FirstReading /\ LockIsOwned /\ OneComputation

-----------------------------------------------------------------------------
(* The initial state                                                       *)

LEMMA InitIInv == Init => IInv
<1> SUFFICES ASSUME Init PROVE IInv
  OBVIOUS
<1> USE NamesAssumption, LockArgAssumption DEF Init
<1>1. TypeOK
  <2>1. /\ stored \in [Hash -> Version \cup {Nil}]
        /\ lockKey \in [Hash -> Proc \cup {Nil, Orphan}]
        /\ version \in Version /\ flushed \in Version /\ computed \in 0..2
        /\ locking \in BOOLEAN
    BY DEF Version
  <2>2. pc \in [Proc -> Label] /\ \A p \in Proc : pc[p] = "idle"
    BY DEF Label
  <2>3. /\ hash \in [Proc -> Hash \cup {Nil}] /\ target \in [Proc -> Hash \cup {Nil}]
        /\ locked \in [Proc -> BOOLEAN] /\ overdue \in [Proc -> BOOLEAN]
        /\ moved \in [Proc -> BOOLEAN] /\ val \in [Proc -> Version \cup {Nil}]
        /\ \A p \in Proc : target[p] \notin Hash
    OBVIOUS
  <2> QED
    BY <2>1, <2>2, <2>3 DEF TypeOK
<1>2. IdleForgets /\ ValueToStore /\ DrawnUnknown
  BY DEF IdleForgets, ValueToStore, DrawnUnknown, Filling
<1>3. NoStaleValue
  BY DEF NoStaleValue
<1>4. FirstReading /\ LockIsOwned /\ OneComputation
  BY DEF FirstReading, LockIsOwned, OneComputation, Holding, Filling
<1> QED
  BY <1>1, <1>2, <1>3, <1>4 DEF IInv

-----------------------------------------------------------------------------
(* Every step preserves each part of the invariant                         *)

LEMMA StepTypes ==
  ASSUME IInv, [Next]_vars
  PROVE  TypeOK'
<1> USE NamesAssumption, LockArgAssumption
        DEF IInv, ValueToStore, TypeOK, Label, Version, Filling, Drawn
<1>1. ASSUME NEW p \in Proc, Call(p)
      PROVE  TypeOK'
  BY <1>1 DEF Call, Goto, shared, redis, local, history
<1>2. ASSUME NEW p \in Proc, GetHash(p)
      PROVE  TypeOK'
  BY <1>2 DEF GetHash, Draw, FreshHash, Goto, shared, redis, history
<1>3. ASSUME NEW p \in Proc, Fill(p)
      PROVE  TypeOK'
  BY <1>3 DEF Fill, Draw, FreshHash, Goto, redis
<1>4. ASSUME NEW p \in Proc, Get1(p)
      PROVE  TypeOK'
  BY <1>4 DEF Get1, Goto, shared, redis, local, history
<1>5. ASSUME NEW p \in Proc, TakeLock(p)
      PROVE  TypeOK'
  BY <1>5 DEF TakeLock, Goto, shared, history
<1>6. ASSUME NEW p \in Proc, WaitForLock(p)
      PROVE  TypeOK'
  BY <1>6 DEF WaitForLock, Goto, shared, redis, local, history
<1>7. ASSUME NEW p \in Proc, NoLock(p)
      PROVE  TypeOK'
  BY <1>7 DEF NoLock, Goto, shared, redis, local
<1>8. ASSUME NEW p \in Proc, Get2(p)
      PROVE  TypeOK'
  BY <1>8 DEF Get2, Goto, shared, redis, history
<1>9. ASSUME NEW p \in Proc, UnlockHit(p)
      PROVE  TypeOK'
  BY <1>9 DEF UnlockHit, Goto, ReleaseLock, shared, local, history
<1>10. ASSUME NEW p \in Proc, Compute(p)
      PROVE  TypeOK'
  BY <1>10 DEF Compute, Goto, shared, redis
<1>11. ASSUME NEW p \in Proc, GetHash3(p)
      PROVE  TypeOK'
  BY <1>11 DEF GetHash3, Draw, FreshHash, Goto, shared, redis, history
<1>12. ASSUME NEW p \in Proc, Put(p)
      PROVE  TypeOK'
  BY <1>12 DEF Put, Goto, EndSet, shared, history
<1>13. ASSUME NEW p \in Proc, Unlock(p)
      PROVE  TypeOK'
  BY <1>13 DEF Unlock, Goto, ReleaseLock, shared, local, history
<1>14. ASSUME NEW p \in Proc, Return(p)
      PROVE  TypeOK'
  BY <1>14 DEF Return, Goto, Forget, Orphaned, shared, history
<1>15. ASSUME NEW p \in Proc, ReadFails(p)
      PROVE  TypeOK'
  BY <1>15 DEF ReadFails, Goto, ReleaseLock, Orphaned, shared
<1>16. ASSUME NEW p \in Proc, SetFails(p)
      PROVE  TypeOK'
  BY <1>16 DEF SetFails, Goto, EndSet, shared
<1>17. ASSUME NEW p \in Proc, UnlockFails(p)
      PROVE  TypeOK'
  BY <1>17 DEF UnlockFails, Goto, shared, local
<1>18. ASSUME NEW p \in Proc, Raise(p)
      PROVE  TypeOK'
  BY <1>18 DEF Raise, Goto, Forget, Orphaned, shared
<1>19. ASSUME NEW p \in Proc, Overdue(p)
      PROVE  TypeOK'
  BY <1>19 DEF Overdue, shared, redis, history
<1>20. CASE Update
  BY <1>20 DEF Update, redis, local, history
<1>21. CASE Invalidate
  BY <1>21 DEF Invalidate, Draw, FreshHash, Move, Quiet, redis
<1>22. CASE TagsChange
  BY <1>22 DEF TagsChange, Draw, FreshHash, Move, redis
<1>23. ASSUME NEW h \in Hash, LoseEntry(h)
      PROVE  TypeOK'
  BY <1>23 DEF LoseEntry, shared, local
<1>24. ASSUME NEW h \in Hash, ExpireLock(h)
      PROVE  TypeOK'
  BY <1>24 DEF ExpireLock, shared, local
<1>25. CASE UNCHANGED vars
  BY <1>25 DEF vars, shared, redis, local, history
<1> QED
  BY <1>1, <1>2, <1>3, <1>4, <1>5, <1>6, <1>7, <1>8, <1>9, <1>10, <1>11, <1>12, <1>13,
  <1>14, <1>15, <1>16, <1>17, <1>18, <1>19, <1>20, <1>21, <1>22, <1>23, <1>24, <1>25
     DEF Next, Work, Failure, Environment

(* Forget, at the end of a call; ReadFails, which gives the lock up.       *)
LEMMA StepIdleForgets ==
  ASSUME IInv, [Next]_vars
  PROVE  IdleForgets'
<1> USE NamesAssumption, LockArgAssumption
        DEF IInv, TypeOK, Label, IdleForgets, Filling
<1>1. ASSUME NEW p \in Proc, Call(p)
      PROVE  IdleForgets'
  BY <1>1 DEF Call, Goto, shared, redis, local, history
<1>2. ASSUME NEW p \in Proc, GetHash(p)
      PROVE  IdleForgets'
  BY <1>2 DEF GetHash, Draw, FreshHash, Goto, shared, redis, history
<1>3. ASSUME NEW p \in Proc, Fill(p)
      PROVE  IdleForgets'
  <2>1. /\ pc[p] = "fill1" => pc'[p] = "get1"
        /\ pc[p] = "fill2" => pc'[p] = "get2"
        /\ pc[p] = "fill3" => pc'[p] = "put"
        /\ pc[p] \in {"fill1", "fill2", "fill3"}
    BY <1>3 DEF Fill, Filling, Goto
  <2>2. \A q \in Proc : q # p => pc'[q] = pc[q]
    BY <1>3 DEF Fill, Filling, Goto
  <2>3. hash' = hash /\ locked' = locked
    BY <1>3 DEF Fill
  <2>4. \A q \in Proc : moved'[q] => q # p /\ q \in Filling
    BY <1>3 DEF Fill
  <2>5. \A h \in Hash : lockKey'[h] = lockKey[h] \/ lockKey'[h] = Nil
    BY <1>3 DEF Fill, Draw, redis
  <2> QED
    BY <2>1, <2>2, <2>3, <2>4, <2>5
<1>4. ASSUME NEW p \in Proc, Get1(p)
      PROVE  IdleForgets'
  BY <1>4 DEF Get1, Goto, shared, redis, local, history
<1>5. ASSUME NEW p \in Proc, TakeLock(p)
      PROVE  IdleForgets'
  BY <1>5 DEF TakeLock, Goto, shared, history
<1>6. ASSUME NEW p \in Proc, WaitForLock(p)
      PROVE  IdleForgets'
  BY <1>6 DEF WaitForLock, Goto, shared, redis, local, history
<1>7. ASSUME NEW p \in Proc, NoLock(p)
      PROVE  IdleForgets'
  BY <1>7 DEF NoLock, Goto, shared, redis, local
<1>8. ASSUME NEW p \in Proc, Get2(p)
      PROVE  IdleForgets'
  BY <1>8 DEF Get2, Goto, shared, redis, history
<1>9. ASSUME NEW p \in Proc, UnlockHit(p)
      PROVE  IdleForgets'
  BY <1>9 DEF UnlockHit, Goto, ReleaseLock, shared, local, history
<1>10. ASSUME NEW p \in Proc, Compute(p)
      PROVE  IdleForgets'
  BY <1>10 DEF Compute, Goto, shared, redis
<1>11. ASSUME NEW p \in Proc, GetHash3(p)
      PROVE  IdleForgets'
  BY <1>11 DEF GetHash3, Draw, FreshHash, Goto, shared, redis, history
<1>12. ASSUME NEW p \in Proc, Put(p)
      PROVE  IdleForgets'
  BY <1>12 DEF Put, Goto, EndSet, shared, history
<1>13. ASSUME NEW p \in Proc, Unlock(p)
      PROVE  IdleForgets'
  BY <1>13 DEF Unlock, Goto, ReleaseLock, shared, local, history
<1>14. ASSUME NEW p \in Proc, Return(p)
      PROVE  IdleForgets'
  BY <1>14 DEF Return, Goto, Forget, Orphaned, shared, history
<1>15. ASSUME NEW p \in Proc, ReadFails(p)
      PROVE  IdleForgets'
  BY <1>15 DEF ReadFails, Goto, ReleaseLock, Orphaned, shared
<1>16. ASSUME NEW p \in Proc, SetFails(p)
      PROVE  IdleForgets'
  BY <1>16 DEF SetFails, Goto, EndSet, shared
<1>17. ASSUME NEW p \in Proc, UnlockFails(p)
      PROVE  IdleForgets'
  BY <1>17 DEF UnlockFails, Goto, shared, local
<1>18. ASSUME NEW p \in Proc, Raise(p)
      PROVE  IdleForgets'
  BY <1>18 DEF Raise, Goto, Forget, Orphaned, shared
<1>19. ASSUME NEW p \in Proc, Overdue(p)
      PROVE  IdleForgets'
  BY <1>19 DEF Overdue, shared, redis, history
<1>20. CASE Update
  BY <1>20 DEF Update, redis, local, history
<1>21. CASE Invalidate
  BY <1>21 DEF Invalidate, Draw, FreshHash, Move, Quiet, redis
<1>22. CASE TagsChange
  BY <1>22 DEF TagsChange, Draw, FreshHash, Move, redis
<1>23. ASSUME NEW h \in Hash, LoseEntry(h)
      PROVE  IdleForgets'
  BY <1>23 DEF LoseEntry, shared, local
<1>24. ASSUME NEW h \in Hash, ExpireLock(h)
      PROVE  IdleForgets'
  BY <1>24 DEF ExpireLock, shared, local
<1>25. CASE UNCHANGED vars
  BY <1>25 DEF vars, shared, redis, local, history
<1> QED
  BY <1>1, <1>2, <1>3, <1>4, <1>5, <1>6, <1>7, <1>8, <1>9, <1>10, <1>11, <1>12, <1>13,
  <1>14, <1>15, <1>16, <1>17, <1>18, <1>19, <1>20, <1>21, <1>22, <1>23, <1>24, <1>25
     DEF Next, Work, Failure, Environment

(* Compute.                                                                *)
LEMMA StepValueToStore ==
  ASSUME IInv, [Next]_vars
  PROVE  ValueToStore'
<1> USE NamesAssumption, LockArgAssumption
        DEF IInv, TypeOK, Label, Version, ValueToStore
<1>1. ASSUME NEW p \in Proc, Call(p)
      PROVE  ValueToStore'
  BY <1>1 DEF Call, Goto, shared, redis, local, history
<1>2. ASSUME NEW p \in Proc, GetHash(p)
      PROVE  ValueToStore'
  BY <1>2 DEF GetHash, Draw, FreshHash, Goto, shared, redis, history
<1>3. ASSUME NEW p \in Proc, Fill(p)
      PROVE  ValueToStore'
  <2>1. /\ pc[p] = "fill1" => pc'[p] = "get1"
        /\ pc[p] = "fill2" => pc'[p] = "get2"
        /\ pc[p] = "fill3" => pc'[p] = "put"
        /\ pc[p] \in {"fill1", "fill2", "fill3"}
    BY <1>3 DEF Fill, Filling, Goto
  <2>2. \A q \in Proc : q # p => pc'[q] = pc[q]
    BY <1>3 DEF Fill, Filling, Goto
  <2>3. val' = val
    BY <1>3 DEF Fill
  <2> QED
    BY <2>1, <2>2, <2>3
<1>4. ASSUME NEW p \in Proc, Get1(p)
      PROVE  ValueToStore'
  BY <1>4 DEF Get1, Goto, shared, redis, local, history
<1>5. ASSUME NEW p \in Proc, TakeLock(p)
      PROVE  ValueToStore'
  BY <1>5 DEF TakeLock, Goto, shared, history
<1>6. ASSUME NEW p \in Proc, WaitForLock(p)
      PROVE  ValueToStore'
  BY <1>6 DEF WaitForLock, Goto, shared, redis, local, history
<1>7. ASSUME NEW p \in Proc, NoLock(p)
      PROVE  ValueToStore'
  BY <1>7 DEF NoLock, Goto, shared, redis, local
<1>8. ASSUME NEW p \in Proc, Get2(p)
      PROVE  ValueToStore'
  BY <1>8 DEF Get2, Goto, shared, redis, history
<1>9. ASSUME NEW p \in Proc, UnlockHit(p)
      PROVE  ValueToStore'
  BY <1>9 DEF UnlockHit, Goto, ReleaseLock, shared, local, history
<1>10. ASSUME NEW p \in Proc, Compute(p)
      PROVE  ValueToStore'
  BY <1>10 DEF Compute, Goto, shared, redis
<1>11. ASSUME NEW p \in Proc, GetHash3(p)
      PROVE  ValueToStore'
  BY <1>11 DEF GetHash3, Draw, FreshHash, Goto, shared, redis, history
<1>12. ASSUME NEW p \in Proc, Put(p)
      PROVE  ValueToStore'
  BY <1>12 DEF Put, Goto, EndSet, shared, history
<1>13. ASSUME NEW p \in Proc, Unlock(p)
      PROVE  ValueToStore'
  BY <1>13 DEF Unlock, Goto, ReleaseLock, shared, local, history
<1>14. ASSUME NEW p \in Proc, Return(p)
      PROVE  ValueToStore'
  BY <1>14 DEF Return, Goto, Forget, Orphaned, shared, history
<1>15. ASSUME NEW p \in Proc, ReadFails(p)
      PROVE  ValueToStore'
  BY <1>15 DEF ReadFails, Goto, ReleaseLock, Orphaned, shared
<1>16. ASSUME NEW p \in Proc, SetFails(p)
      PROVE  ValueToStore'
  BY <1>16 DEF SetFails, Goto, EndSet, shared
<1>17. ASSUME NEW p \in Proc, UnlockFails(p)
      PROVE  ValueToStore'
  BY <1>17 DEF UnlockFails, Goto, shared, local
<1>18. ASSUME NEW p \in Proc, Raise(p)
      PROVE  ValueToStore'
  BY <1>18 DEF Raise, Goto, Forget, Orphaned, shared
<1>19. ASSUME NEW p \in Proc, Overdue(p)
      PROVE  ValueToStore'
  BY <1>19 DEF Overdue, shared, redis, history
<1>20. CASE Update
  BY <1>20 DEF Update, redis, local, history
<1>21. CASE Invalidate
  BY <1>21 DEF Invalidate, Draw, FreshHash, Move, Quiet, redis
<1>22. CASE TagsChange
  BY <1>22 DEF TagsChange, Draw, FreshHash, Move, redis
<1>23. ASSUME NEW h \in Hash, LoseEntry(h)
      PROVE  ValueToStore'
  BY <1>23 DEF LoseEntry, shared, local
<1>24. ASSUME NEW h \in Hash, ExpireLock(h)
      PROVE  ValueToStore'
  BY <1>24 DEF ExpireLock, shared, local
<1>25. CASE UNCHANGED vars
  BY <1>25 DEF vars, shared, redis, local, history
<1> QED
  BY <1>1, <1>2, <1>3, <1>4, <1>5, <1>6, <1>7, <1>8, <1>9, <1>10, <1>11, <1>12, <1>13,
  <1>14, <1>15, <1>16, <1>17, <1>18, <1>19, <1>20, <1>21, <1>22, <1>23, <1>24, <1>25
     DEF Next, Work, Failure, Environment

(* The values that are drawn are new, and nobody learns them before Fill.  *)
LEMMA StepDrawnUnknown ==
  ASSUME IInv, [Next]_vars
  PROVE  DrawnUnknown'
<1> USE NamesAssumption, LockArgAssumption
        DEF IInv, TypeOK, Label, IdleForgets, DrawnUnknown, Filling, Drawn
<1>1. ASSUME NEW p \in Proc, Call(p)
      PROVE  DrawnUnknown'
  BY <1>1 DEF Call, Goto, shared, redis, local, history
<1>2. ASSUME NEW p \in Proc, GetHash(p)
      PROVE  DrawnUnknown'
  BY <1>2 DEF GetHash, Draw, FreshHash, Goto, shared, redis, history
<1>3. ASSUME NEW p \in Proc, Fill(p)
      PROVE  DrawnUnknown'
  BY <1>3 DEF Fill, Draw, FreshHash, Goto, redis
<1>4. ASSUME NEW p \in Proc, Get1(p)
      PROVE  DrawnUnknown'
  BY <1>4 DEF Get1, Goto, shared, redis, local, history
<1>5. ASSUME NEW p \in Proc, TakeLock(p)
      PROVE  DrawnUnknown'
  BY <1>5 DEF TakeLock, Goto, shared, history
<1>6. ASSUME NEW p \in Proc, WaitForLock(p)
      PROVE  DrawnUnknown'
  BY <1>6 DEF WaitForLock, Goto, shared, redis, local, history
<1>7. ASSUME NEW p \in Proc, NoLock(p)
      PROVE  DrawnUnknown'
  BY <1>7 DEF NoLock, Goto, shared, redis, local
<1>8. ASSUME NEW p \in Proc, Get2(p)
      PROVE  DrawnUnknown'
  BY <1>8 DEF Get2, Goto, shared, redis, history
<1>9. ASSUME NEW p \in Proc, UnlockHit(p)
      PROVE  DrawnUnknown'
  BY <1>9 DEF UnlockHit, Goto, ReleaseLock, shared, local, history
<1>10. ASSUME NEW p \in Proc, Compute(p)
      PROVE  DrawnUnknown'
  BY <1>10 DEF Compute, Goto, shared, redis
<1>11. ASSUME NEW p \in Proc, GetHash3(p)
      PROVE  DrawnUnknown'
  BY <1>11 DEF GetHash3, Draw, FreshHash, Goto, shared, redis, history
<1>12. ASSUME NEW p \in Proc, Put(p)
      PROVE  DrawnUnknown'
  BY <1>12 DEF Put, Goto, EndSet, shared, history
<1>13. ASSUME NEW p \in Proc, Unlock(p)
      PROVE  DrawnUnknown'
  BY <1>13 DEF Unlock, Goto, ReleaseLock, shared, local, history
<1>14. ASSUME NEW p \in Proc, Return(p)
      PROVE  DrawnUnknown'
  BY <1>14 DEF Return, Goto, Forget, Orphaned, shared, history
<1>15. ASSUME NEW p \in Proc, ReadFails(p)
      PROVE  DrawnUnknown'
  BY <1>15 DEF ReadFails, Goto, ReleaseLock, Orphaned, shared
<1>16. ASSUME NEW p \in Proc, SetFails(p)
      PROVE  DrawnUnknown'
  BY <1>16 DEF SetFails, Goto, EndSet, shared
<1>17. ASSUME NEW p \in Proc, UnlockFails(p)
      PROVE  DrawnUnknown'
  BY <1>17 DEF UnlockFails, Goto, shared, local
<1>18. ASSUME NEW p \in Proc, Raise(p)
      PROVE  DrawnUnknown'
  BY <1>18 DEF Raise, Goto, Forget, Orphaned, shared
<1>19. ASSUME NEW p \in Proc, Overdue(p)
      PROVE  DrawnUnknown'
  BY <1>19 DEF Overdue, shared, redis, history
<1>20. CASE Update
  BY <1>20 DEF Update, redis, local, history
<1>21. CASE Invalidate
  BY <1>21 DEF Invalidate, Draw, FreshHash, Move, Quiet, redis
<1>22. CASE TagsChange
  BY <1>22 DEF TagsChange, Draw, FreshHash, Move, redis
<1>23. ASSUME NEW h \in Hash, LoseEntry(h)
      PROVE  DrawnUnknown'
  BY <1>23 DEF LoseEntry, shared, local
<1>24. ASSUME NEW h \in Hash, ExpireLock(h)
      PROVE  DrawnUnknown'
  BY <1>24 DEF ExpireLock, shared, local
<1>25. CASE UNCHANGED vars
  BY <1>25 DEF vars, shared, redis, local, history
<1> QED
  BY <1>1, <1>2, <1>3, <1>4, <1>5, <1>6, <1>7, <1>8, <1>9, <1>10, <1>11, <1>12, <1>13,
  <1>14, <1>15, <1>16, <1>17, <1>18, <1>19, <1>20, <1>21, <1>22, <1>23, <1>24, <1>25
     DEF Next, Work, Failure, Environment

(* An invalidation puts what is stored, and what is about to be stored     *)
(* under a hash that was already read, out of reach.                       *)
LEMMA StepNoStaleValue ==
  ASSUME IInv, [Next]_vars
  PROVE  NoStaleValue'
<1> USE NamesAssumption, LockArgAssumption
        DEF IInv, TypeOK, Label, Version, ValueToStore, DrawnUnknown, NoStaleValue,
        Filling, Drawn
<1>1. ASSUME NEW p \in Proc, Call(p)
      PROVE  NoStaleValue'
  BY <1>1 DEF Call, Goto, shared, redis, local, history
<1>2. ASSUME NEW p \in Proc, GetHash(p)
      PROVE  NoStaleValue'
  BY <1>2 DEF GetHash, Draw, FreshHash, Goto, shared, redis, history
<1>3. ASSUME NEW p \in Proc, Fill(p)
      PROVE  NoStaleValue'
  BY <1>3 DEF Fill, Draw, FreshHash, Goto, redis
<1>4. ASSUME NEW p \in Proc, Get1(p)
      PROVE  NoStaleValue'
  BY <1>4 DEF Get1, Goto, shared, redis, local, history
<1>5. ASSUME NEW p \in Proc, TakeLock(p)
      PROVE  NoStaleValue'
  BY <1>5 DEF TakeLock, Goto, shared, history
<1>6. ASSUME NEW p \in Proc, WaitForLock(p)
      PROVE  NoStaleValue'
  BY <1>6 DEF WaitForLock, Goto, shared, redis, local, history
<1>7. ASSUME NEW p \in Proc, NoLock(p)
      PROVE  NoStaleValue'
  BY <1>7 DEF NoLock, Goto, shared, redis, local
<1>8. ASSUME NEW p \in Proc, Get2(p)
      PROVE  NoStaleValue'
  BY <1>8 DEF Get2, Goto, shared, redis, history
<1>9. ASSUME NEW p \in Proc, UnlockHit(p)
      PROVE  NoStaleValue'
  BY <1>9 DEF UnlockHit, Goto, ReleaseLock, shared, local, history
<1>10. ASSUME NEW p \in Proc, Compute(p)
      PROVE  NoStaleValue'
  BY <1>10 DEF Compute, Goto, shared, redis
<1>11. ASSUME NEW p \in Proc, GetHash3(p)
      PROVE  NoStaleValue'
  BY <1>11 DEF GetHash3, Draw, FreshHash, Goto, shared, redis, history
<1>12. ASSUME NEW p \in Proc, Put(p)
      PROVE  NoStaleValue'
  BY <1>12 DEF Put, Goto, EndSet, shared, history
<1>13. ASSUME NEW p \in Proc, Unlock(p)
      PROVE  NoStaleValue'
  BY <1>13 DEF Unlock, Goto, ReleaseLock, shared, local, history
<1>14. ASSUME NEW p \in Proc, Return(p)
      PROVE  NoStaleValue'
  BY <1>14 DEF Return, Goto, Forget, Orphaned, shared, history
<1>15. ASSUME NEW p \in Proc, ReadFails(p)
      PROVE  NoStaleValue'
  BY <1>15 DEF ReadFails, Goto, ReleaseLock, Orphaned, shared
<1>16. ASSUME NEW p \in Proc, SetFails(p)
      PROVE  NoStaleValue'
  BY <1>16 DEF SetFails, Goto, EndSet, shared
<1>17. ASSUME NEW p \in Proc, UnlockFails(p)
      PROVE  NoStaleValue'
  BY <1>17 DEF UnlockFails, Goto, shared, local
<1>18. ASSUME NEW p \in Proc, Raise(p)
      PROVE  NoStaleValue'
  BY <1>18 DEF Raise, Goto, Forget, Orphaned, shared
<1>19. ASSUME NEW p \in Proc, Overdue(p)
      PROVE  NoStaleValue'
  BY <1>19 DEF Overdue, shared, redis, history
<1>20. CASE Update
  BY <1>20 DEF Update, redis, local, history
<1>21. CASE Invalidate
  BY <1>21 DEF Invalidate, Draw, FreshHash, Move, Quiet, redis
<1>22. CASE TagsChange
  BY <1>22 DEF TagsChange, Draw, FreshHash, Move, redis
<1>23. ASSUME NEW h \in Hash, LoseEntry(h)
      PROVE  NoStaleValue'
  BY <1>23 DEF LoseEntry, shared, local
<1>24. ASSUME NEW h \in Hash, ExpireLock(h)
      PROVE  NoStaleValue'
  BY <1>24 DEF ExpireLock, shared, local
<1>25. CASE UNCHANGED vars
  BY <1>25 DEF vars, shared, redis, local, history
<1> QED
  BY <1>1, <1>2, <1>3, <1>4, <1>5, <1>6, <1>7, <1>8, <1>9, <1>10, <1>11, <1>12, <1>13,
  <1>14, <1>15, <1>16, <1>17, <1>18, <1>19, <1>20, <1>21, <1>22, <1>23, <1>24, <1>25
     DEF Next, Work, Failure, Environment

(* The tags change only when nobody is in a call, by the first reader that *)
(* creates them, or the property promises nothing any more.                *)
LEMMA StepFirstReading ==
  ASSUME IInv, [Next]_vars
  PROVE  FirstReading'
<1> USE NamesAssumption, LockArgAssumption
        DEF IInv, TypeOK, Label, IdleForgets, FirstReading, Filling, Drawn
<1>1. ASSUME NEW p \in Proc, Call(p)
      PROVE  FirstReading'
  BY <1>1 DEF Call, Goto, shared, redis, local, history
<1>2. ASSUME NEW p \in Proc, GetHash(p)
      PROVE  FirstReading'
  BY <1>2 DEF GetHash, Draw, FreshHash, Goto, shared, redis, history
<1>3. ASSUME NEW p \in Proc, Fill(p)
      PROVE  FirstReading'
  <2>1. /\ pc[p] = "fill1" => pc'[p] = "get1"
        /\ pc[p] = "fill2" => pc'[p] = "get2"
        /\ pc[p] = "fill3" => pc'[p] = "put"
        /\ pc[p] \in {"fill1", "fill2", "fill3"}
    BY <1>3 DEF Fill, Filling, Goto
  <2>2. \A q \in Proc : q # p => pc'[q] = pc[q]
    BY <1>3 DEF Fill, Filling, Goto
  <2>3. ASSUME ~disturbed', ~raced'
        PROVE  /\ ~disturbed /\ ~raced /\ ~moved[p] /\ cur = Nil
               /\ pc[p] = "fill1" /\ cur' # Nil
    BY <1>3, <2>1, <2>3 DEF Fill
  <2>4. \A q \in Proc : q # p /\ q \in Filling => moved'[q]
    BY <1>3 DEF Fill
  <2> QED
    BY <2>1, <2>2, <2>3, <2>4
<1>4. ASSUME NEW p \in Proc, Get1(p)
      PROVE  FirstReading'
  BY <1>4 DEF Get1, Goto, shared, redis, local, history
<1>5. ASSUME NEW p \in Proc, TakeLock(p)
      PROVE  FirstReading'
  BY <1>5 DEF TakeLock, Goto, shared, history
<1>6. ASSUME NEW p \in Proc, WaitForLock(p)
      PROVE  FirstReading'
  BY <1>6 DEF WaitForLock, Goto, shared, redis, local, history
<1>7. ASSUME NEW p \in Proc, NoLock(p)
      PROVE  FirstReading'
  BY <1>7 DEF NoLock, Goto, shared, redis, local
<1>8. ASSUME NEW p \in Proc, Get2(p)
      PROVE  FirstReading'
  BY <1>8 DEF Get2, Goto, shared, redis, history
<1>9. ASSUME NEW p \in Proc, UnlockHit(p)
      PROVE  FirstReading'
  BY <1>9 DEF UnlockHit, Goto, ReleaseLock, shared, local, history
<1>10. ASSUME NEW p \in Proc, Compute(p)
      PROVE  FirstReading'
  BY <1>10 DEF Compute, Goto, shared, redis
<1>11. ASSUME NEW p \in Proc, GetHash3(p)
      PROVE  FirstReading'
  BY <1>11 DEF GetHash3, Draw, FreshHash, Goto, shared, redis, history
<1>12. ASSUME NEW p \in Proc, Put(p)
      PROVE  FirstReading'
  BY <1>12 DEF Put, Goto, EndSet, shared, history
<1>13. ASSUME NEW p \in Proc, Unlock(p)
      PROVE  FirstReading'
  BY <1>13 DEF Unlock, Goto, ReleaseLock, shared, local, history
<1>14. ASSUME NEW p \in Proc, Return(p)
      PROVE  FirstReading'
  BY <1>14 DEF Return, Goto, Forget, Orphaned, shared, history
<1>15. ASSUME NEW p \in Proc, ReadFails(p)
      PROVE  FirstReading'
  BY <1>15 DEF ReadFails, Goto, ReleaseLock, Orphaned, shared
<1>16. ASSUME NEW p \in Proc, SetFails(p)
      PROVE  FirstReading'
  BY <1>16 DEF SetFails, Goto, EndSet, shared
<1>17. ASSUME NEW p \in Proc, UnlockFails(p)
      PROVE  FirstReading'
  BY <1>17 DEF UnlockFails, Goto, shared, local
<1>18. ASSUME NEW p \in Proc, Raise(p)
      PROVE  FirstReading'
  BY <1>18 DEF Raise, Goto, Forget, Orphaned, shared
<1>19. ASSUME NEW p \in Proc, Overdue(p)
      PROVE  FirstReading'
  BY <1>19 DEF Overdue, shared, redis, history
<1>20. CASE Update
  BY <1>20 DEF Update, redis, local, history
<1>21. CASE Invalidate
  BY <1>21 DEF Invalidate, Draw, FreshHash, Move, Quiet, redis
<1>22. CASE TagsChange
  BY <1>22 DEF TagsChange, Draw, FreshHash, Move, redis
<1>23. ASSUME NEW h \in Hash, LoseEntry(h)
      PROVE  FirstReading'
  BY <1>23 DEF LoseEntry, shared, local
<1>24. ASSUME NEW h \in Hash, ExpireLock(h)
      PROVE  FirstReading'
  BY <1>24 DEF ExpireLock, shared, local
<1>25. CASE UNCHANGED vars
  BY <1>25 DEF vars, shared, redis, local, history
<1> QED
  BY <1>1, <1>2, <1>3, <1>4, <1>5, <1>6, <1>7, <1>8, <1>9, <1>10, <1>11, <1>12, <1>13,
  <1>14, <1>15, <1>16, <1>17, <1>18, <1>19, <1>20, <1>21, <1>22, <1>23, <1>24, <1>25
     DEF Next, Work, Failure, Environment

(* The hash within reach changes only with the tags, so that a lock is     *)
(* released under the hash it was taken.                                   *)
LEMMA StepLockIsOwned ==
  ASSUME IInv, [Next]_vars
  PROVE  LockIsOwned'
<1> USE NamesAssumption, LockArgAssumption
        DEF IInv, TypeOK, Label, Holding, IdleForgets, DrawnUnknown, FirstReading,
        LockIsOwned, Filling, Drawn
<1>1. ASSUME NEW p \in Proc, Call(p)
      PROVE  LockIsOwned'
  BY <1>1 DEF Call, Goto, shared, redis, local, history
<1>2. ASSUME NEW p \in Proc, GetHash(p)
      PROVE  LockIsOwned'
  BY <1>2 DEF GetHash, Draw, FreshHash, Goto, shared, redis, history
<1>3. ASSUME NEW p \in Proc, Fill(p)
      PROVE  LockIsOwned'
  BY <1>3 DEF Fill, Draw, FreshHash, Goto, redis
<1>4. ASSUME NEW p \in Proc, Get1(p)
      PROVE  LockIsOwned'
  BY <1>4 DEF Get1, Goto, shared, redis, local, history
<1>5. ASSUME NEW p \in Proc, TakeLock(p)
      PROVE  LockIsOwned'
  BY <1>5 DEF TakeLock, Goto, shared, history
<1>6. ASSUME NEW p \in Proc, WaitForLock(p)
      PROVE  LockIsOwned'
  BY <1>6 DEF WaitForLock, Goto, shared, redis, local, history
<1>7. ASSUME NEW p \in Proc, NoLock(p)
      PROVE  LockIsOwned'
  BY <1>7 DEF NoLock, Goto, shared, redis, local
<1>8. ASSUME NEW p \in Proc, Get2(p)
      PROVE  LockIsOwned'
  BY <1>8 DEF Get2, Goto, shared, redis, history
<1>9. ASSUME NEW p \in Proc, UnlockHit(p)
      PROVE  LockIsOwned'
  BY <1>9 DEF UnlockHit, Goto, ReleaseLock, shared, local, history
<1>10. ASSUME NEW p \in Proc, Compute(p)
      PROVE  LockIsOwned'
  BY <1>10 DEF Compute, Goto, shared, redis
<1>11. ASSUME NEW p \in Proc, GetHash3(p)
      PROVE  LockIsOwned'
  BY <1>11 DEF GetHash3, Draw, FreshHash, Goto, shared, redis, history
<1>12. ASSUME NEW p \in Proc, Put(p)
      PROVE  LockIsOwned'
  BY <1>12 DEF Put, Goto, EndSet, shared, history
<1>13. ASSUME NEW p \in Proc, Unlock(p)
      PROVE  LockIsOwned'
  BY <1>13 DEF Unlock, Goto, ReleaseLock, shared, local, history
<1>14. ASSUME NEW p \in Proc, Return(p)
      PROVE  LockIsOwned'
  BY <1>14 DEF Return, Goto, Forget, Orphaned, shared, history
<1>15. ASSUME NEW p \in Proc, ReadFails(p)
      PROVE  LockIsOwned'
  BY <1>15 DEF ReadFails, Goto, ReleaseLock, Orphaned, shared
<1>16. ASSUME NEW p \in Proc, SetFails(p)
      PROVE  LockIsOwned'
  BY <1>16 DEF SetFails, Goto, EndSet, shared
<1>17. ASSUME NEW p \in Proc, UnlockFails(p)
      PROVE  LockIsOwned'
  BY <1>17 DEF UnlockFails, Goto, shared, local
<1>18. ASSUME NEW p \in Proc, Raise(p)
      PROVE  LockIsOwned'
  BY <1>18 DEF Raise, Goto, Forget, Orphaned, shared
<1>19. ASSUME NEW p \in Proc, Overdue(p)
      PROVE  LockIsOwned'
  BY <1>19 DEF Overdue, shared, redis, history
<1>20. CASE Update
  BY <1>20 DEF Update, redis, local, history
<1>21. CASE Invalidate
  <2>1. CASE ~Quiet
    BY <1>21, <2>1 DEF Invalidate, Quiet
  <2>2. CASE Quiet
    <3>1. \A p \in Proc : pc[p] = "idle" /\ pc'[p] = "idle" /\ hash'[p] = Nil /\ ~locked[p]
      BY <1>21, <2>2 DEF Invalidate, Quiet
    <3>2. /\ \A h \in Hash : lockKey[h] \notin Proc /\ lockKey'[h] \in {lockKey[h], Nil}
          /\ cur' # Nil => cur' \in Hash /\ lockKey'[cur'] = Nil
          /\ computed' = 0 /\ locked' = locked
      BY <1>21, <2>2, <3>1 DEF Invalidate, Draw, redis
    <3> QED
      BY <3>1, <3>2
  <2> QED
    BY <2>1, <2>2
<1>22. CASE TagsChange
  BY <1>22 DEF TagsChange, Draw, FreshHash, Move, redis
<1>23. ASSUME NEW h \in Hash, LoseEntry(h)
      PROVE  LockIsOwned'
  BY <1>23 DEF LoseEntry, shared, local
<1>24. ASSUME NEW h \in Hash, ExpireLock(h)
      PROVE  LockIsOwned'
  BY <1>24 DEF ExpireLock, shared, local
<1>25. CASE UNCHANGED vars
  BY <1>25 DEF vars, shared, redis, local, history
<1> QED
  BY <1>1, <1>2, <1>3, <1>4, <1>5, <1>6, <1>7, <1>8, <1>9, <1>10, <1>11, <1>12, <1>13,
  <1>14, <1>15, <1>16, <1>17, <1>18, <1>19, <1>20, <1>21, <1>22, <1>23, <1>24, <1>25
     DEF Next, Work, Failure, Environment

(* Get2 of the call that has the lock: nobody else has it, so that a value *)
(* that was computed before is stored, and found.                          *)
LEMMA StepOneComputation ==
  ASSUME IInv, [Next]_vars
  PROVE  OneComputation'
<1> USE NamesAssumption, LockArgAssumption
        DEF IInv, TypeOK, Label, Version, Holding, IdleForgets, ValueToStore,
        DrawnUnknown, FirstReading, LockIsOwned, OneComputation, Filling, Drawn
<1>1. ASSUME NEW p \in Proc, Call(p)
      PROVE  OneComputation'
  BY <1>1 DEF Call, Goto, shared, redis, local, history
<1>2. ASSUME NEW p \in Proc, GetHash(p)
      PROVE  OneComputation'
  BY <1>2 DEF GetHash, Draw, FreshHash, Goto, shared, redis, history
<1>3. ASSUME NEW p \in Proc, Fill(p)
      PROVE  OneComputation'
  BY <1>3 DEF Fill, Draw, FreshHash, Goto, redis
<1>4. ASSUME NEW p \in Proc, Get1(p)
      PROVE  OneComputation'
  BY <1>4 DEF Get1, Goto, shared, redis, local, history
<1>5. ASSUME NEW p \in Proc, TakeLock(p)
      PROVE  OneComputation'
  BY <1>5 DEF TakeLock, Goto, shared, history
<1>6. ASSUME NEW p \in Proc, WaitForLock(p)
      PROVE  OneComputation'
  BY <1>6 DEF WaitForLock, Goto, shared, redis, local, history
<1>7. ASSUME NEW p \in Proc, NoLock(p)
      PROVE  OneComputation'
  BY <1>7 DEF NoLock, Goto, shared, redis, local
<1>8. ASSUME NEW p \in Proc, Get2(p)
      PROVE  OneComputation'
  BY <1>8 DEF Get2, Goto, shared, redis, history
<1>9. ASSUME NEW p \in Proc, UnlockHit(p)
      PROVE  OneComputation'
  BY <1>9 DEF UnlockHit, Goto, ReleaseLock, shared, local, history
<1>10. ASSUME NEW p \in Proc, Compute(p)
      PROVE  OneComputation'
  BY <1>10 DEF Compute, Goto, shared, redis
<1>11. ASSUME NEW p \in Proc, GetHash3(p)
      PROVE  OneComputation'
  BY <1>11 DEF GetHash3, Draw, FreshHash, Goto, shared, redis, history
<1>12. ASSUME NEW p \in Proc, Put(p)
      PROVE  OneComputation'
  BY <1>12 DEF Put, Goto, EndSet, shared, history
<1>13. ASSUME NEW p \in Proc, Unlock(p)
      PROVE  OneComputation'
  BY <1>13 DEF Unlock, Goto, ReleaseLock, shared, local, history
<1>14. ASSUME NEW p \in Proc, Return(p)
      PROVE  OneComputation'
  BY <1>14 DEF Return, Goto, Forget, Orphaned, shared, history
<1>15. ASSUME NEW p \in Proc, ReadFails(p)
      PROVE  OneComputation'
  BY <1>15 DEF ReadFails, Goto, ReleaseLock, Orphaned, shared
<1>16. ASSUME NEW p \in Proc, SetFails(p)
      PROVE  OneComputation'
  BY <1>16 DEF SetFails, Goto, EndSet, shared
<1>17. ASSUME NEW p \in Proc, UnlockFails(p)
      PROVE  OneComputation'
  BY <1>17 DEF UnlockFails, Goto, shared, local
<1>18. ASSUME NEW p \in Proc, Raise(p)
      PROVE  OneComputation'
  BY <1>18 DEF Raise, Goto, Forget, Orphaned, shared
<1>19. ASSUME NEW p \in Proc, Overdue(p)
      PROVE  OneComputation'
  BY <1>19 DEF Overdue, shared, redis, history
<1>20. CASE Update
  BY <1>20 DEF Update, redis, local, history
<1>21. CASE Invalidate
  <2>1. CASE ~Quiet
    BY <1>21, <2>1 DEF Invalidate, Quiet
  <2>2. CASE Quiet
    <3>1. \A p \in Proc : pc[p] = "idle" /\ pc'[p] = "idle" /\ hash'[p] = Nil /\ ~locked[p]
      BY <1>21, <2>2 DEF Invalidate, Quiet
    <3>2. /\ \A h \in Hash : lockKey[h] \notin Proc /\ lockKey'[h] \in {lockKey[h], Nil}
          /\ cur' # Nil => cur' \in Hash /\ lockKey'[cur'] = Nil
          /\ computed' = 0 /\ locked' = locked
      BY <1>21, <2>2, <3>1 DEF Invalidate, Draw, redis
    <3> QED
      BY <3>1, <3>2
  <2> QED
    BY <2>1, <2>2
<1>22. CASE TagsChange
  BY <1>22 DEF TagsChange, Draw, FreshHash, Move, redis
<1>23. ASSUME NEW h \in Hash, LoseEntry(h)
      PROVE  OneComputation'
  BY <1>23 DEF LoseEntry, shared, local
<1>24. ASSUME NEW h \in Hash, ExpireLock(h)
      PROVE  OneComputation'
  BY <1>24 DEF ExpireLock, shared, local
<1>25. CASE UNCHANGED vars
  BY <1>25 DEF vars, shared, redis, local, history
<1> QED
  BY <1>1, <1>2, <1>3, <1>4, <1>5, <1>6, <1>7, <1>8, <1>9, <1>10, <1>11, <1>12, <1>13,
  <1>14, <1>15, <1>16, <1>17, <1>18, <1>19, <1>20, <1>21, <1>22, <1>23, <1>24, <1>25
     DEF Next, Work, Failure, Environment

-----------------------------------------------------------------------------
(* Theorems *)

LEMMA StepIInv == IInv /\ [Next]_vars => IInv'
BY StepTypes, StepIdleForgets, StepValueToStore, StepDrawnUnknown, StepNoStaleValue,
   StepFirstReading, StepLockIsOwned, StepOneComputation
   DEF IInv

(* The invariant behind the other theorems.                                *)
THEOREM Invariance == Spec => []IInv
BY InitIInv, StepIInv, PTL DEF Spec

(* Every variable keeps its type; a call that is past its first read, and  *)
(* has not given the cache up, has a hash (the wrapper of decorator.py).   *)
THEOREM TypeCorrectness == Spec => []TypeOK
<1>1. IInv => TypeOK
  BY DEF IInv
<1> QED
  BY <1>1, Invariance, PTL

(* A stale value comes within reach only if the invalidation fell between  *)
(* a computation and the end of the reading of the hash in set_bytes       *)
(* (decorator.py, the call of set_bytes after the decorated function).     *)
THEOREM StaleOnlyByOverlap == Spec => []StaleOnlyFromOverlap
<1>1. IInv => StaleOnlyFromOverlap
  BY DEF IInv, NoStaleValue, StaleOnlyFromOverlap
<1> QED
  BY <1>1, Invariance, PTL

(* lock=True: the function is computed once, however many processes call   *)
(* it, while nothing is lost, fails or is invalidated under a call, and no *)
(* call overwrites a tag that another has created.                         *)
THEOREM OneFlight == Spec => []SingleFlight
<1>1. IInv => SingleFlight
  BY DEF IInv, OneComputation, SingleFlight
<1> QED
  BY <1>1, Invariance, PTL

(* Under the same conditions no lock outlives, under any hash, the call    *)
(* that took it.                                                           *)
LEMMA StepLocksReleased ==
  ASSUME IInv, [Next]_vars, ~disturbed', ~raced',
         NEW h \in Hash, lockKey[h] # Orphan
  PROVE  lockKey'[h] # Orphan
<1> USE NamesAssumption DEF IInv, TypeOK
<1>1. ASSUME NEW p \in Proc, Return(p)
      PROVE  lockKey'[h] # Orphan
  <2>1. ~disturbed /\ ~raced
    BY <1>1 DEF Return, history
  <2>2. lockKey[h] # p
    BY <1>1, <2>1 DEF Return, LockIsOwned, Holding
  <2> QED
    BY <1>1, <2>2 DEF Return, Forget, Orphaned
<1>2. ASSUME NEW p \in Proc,
             Call(p) \/ Get1(p) \/ WaitForLock(p) \/ NoLock(p) \/ Get2(p) \/ Compute(p)
               \/ Put(p) \/ SetFails(p) \/ UnlockFails(p) \/ Overdue(p)
      PROVE  lockKey'[h] # Orphan
  BY <1>2 DEF Call, Get1, WaitForLock, NoLock, Get2, Compute, Put, SetFails, UnlockFails,
              Overdue, redis
<1>3. ASSUME NEW p \in Proc, GetHash(p) \/ Fill(p) \/ GetHash3(p)
      PROVE  lockKey'[h] # Orphan
  BY <1>3 DEF GetHash, Fill, GetHash3, Draw, redis
<1>4. ASSUME NEW p \in Proc, TakeLock(p) \/ UnlockHit(p) \/ Unlock(p)
      PROVE  lockKey'[h] # Orphan
  BY <1>4 DEF TakeLock, UnlockHit, Unlock, ReleaseLock
<1>5. ASSUME NEW p \in Proc, ReadFails(p) \/ Raise(p)
      PROVE  FALSE
  BY <1>5 DEF ReadFails, Raise
<1>6. CASE Update \/ Invalidate \/ TagsChange
  BY <1>6 DEF Update, Invalidate, TagsChange, Draw, redis
<1>7. ASSUME NEW g \in Hash, LoseEntry(g) \/ ExpireLock(g)
      PROVE  lockKey'[h] # Orphan
  BY <1>7 DEF LoseEntry, ExpireLock
<1>8. CASE UNCHANGED vars
  BY <1>8 DEF vars, redis
<1> QED
  BY <1>1, <1>2, <1>3, <1>4, <1>5, <1>6, <1>7, <1>8 DEF Next, Work, Failure, Environment

THEOREM NoLockLeftBehind == Spec => LocksReleased
<1>1. IInv /\ [Next]_vars =>
        [\A h \in Hash :
           lockKey[h] # Orphan /\ lockKey'[h] = Orphan => disturbed' \/ raced']_vars
  BY StepLocksReleased
<1> QED
  BY <1>1, Invariance, PTL DEF Spec, LocksReleased
=============================================================================
