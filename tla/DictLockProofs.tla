--------------------------- MODULE DictLockProofs ---------------------------
(* Proofs about DictLock, for every set of threads, hashes and objects.    *)
EXTENDS DictLock, TLAPS

-----------------------------------------------------------------------------
(* Helpers *)

LEMMA EnterType ==
  ASSUME TypeOK, NEW p \in Proc, NEW label \in {"out", "wait", "held", "none"},
         NEW h \in Hash \cup {Nil}, NEW o \in Obj \cup {Nil},
         label # "out" => h \in Hash,
         label \in {"wait", "held"} => o \in Obj,
         Enter(p, label, h, o)
  PROVE  /\ at' \in [Proc -> {"out", "wait", "held", "none"}]
         /\ scope' \in [Proc -> Hash \cup {Nil}]
         /\ obj' \in [Proc -> Obj \cup {Nil}]
         /\ \A q \in Proc : at'[q] # "out" => scope'[q] \in Hash
         /\ \A q \in Proc : at'[q] \in {"wait", "held"} => obj'[q] \in Obj
         /\ at'[p] = label /\ scope'[p] = h /\ obj'[p] = o
         /\ \A q \in Proc \ {p} : at'[q] = at[q] /\ scope'[q] = scope[q] /\ obj'[q] = obj[q]
BY DEF Enter, TypeOK

(* Unlisting and releasing together keep what is listed taken.             *)
LEMMA DropKeepsListedTaken ==
  ASSUME TypeOK, ListedIsTaken, NEW H \in SUBSET Hash,
         locks' = [h \in Hash |-> IF h \in H THEN Nil ELSE locks[h]],
         taken' = [o \in Obj |-> taken[o] /\ \A h \in H : o # locks[h]]
  PROVE  ListedIsTaken' /\ locks' \in [Hash -> Obj \cup {Nil}] /\ taken' \in [Obj -> BOOLEAN]
<1>1. ASSUME NEW h \in Hash, locks'[h] # Nil
      PROVE  taken'[locks'[h]]
  <2>1. h \notin H /\ locks'[h] = locks[h] /\ locks[h] \in Obj
    BY <1>1 DEF TypeOK
  <2>2. \A g \in H : locks[h] # locks[g]
    BY <2>1, NamesAssumption DEF ListedIsTaken
  <2>3. taken[locks[h]]
    BY <1>1, <2>1, Zenon DEF ListedIsTaken
  <2>4. taken'[locks[h]] <=> taken[locks[h]] /\ \A g \in H : locks[h] # locks[g]
    BY <2>1, Zenon
  <2> QED
    BY <2>1, <2>2, <2>3, <2>4, Zenon
<1>2. \A g, h \in Hash : locks'[g] = locks'[h] /\ locks'[g] # Nil => g = h
  BY DEF ListedIsTaken
<1>3. locks' \in [Hash -> Obj \cup {Nil}] /\ taken' \in [Obj -> BOOLEAN]
  BY DEF TypeOK
<1> QED
  BY <1>1, <1>2, <1>3 DEF ListedIsTaken

-----------------------------------------------------------------------------
(* Every step preserves the invariant *)

LEMMA InitIInv == Init => IInv
BY NamesAssumption DEF Init, IInv, TypeOK, ListedIsTaken, HoldersAreListed, LiveHolders

LEMMA LockNewInv ==
  ASSUME IInv, NEW p \in Proc, NEW h \in Hash, LockNew(p, h)
  PROVE  IInv'
<1>1. PICK o \in New :
        /\ locks' = [locks EXCEPT ![h] = o]
        /\ taken' = [taken EXCEPT ![o] = TRUE]
        /\ expired' = [expired EXCEPT ![o] = FALSE]
        /\ Enter(p, "held", h, o)
  BY DEF LockNew
<1>2. o \in Obj /\ (\A g \in Hash : locks[g] # o) /\ (\A q \in Proc : obj[q] # o)
  BY DEF New
<1>3. at[p] = "out" /\ locks[h] = Nil /\ mixup' = mixup
  BY DEF LockNew
<1>4. /\ at' \in [Proc -> {"out", "wait", "held", "none"}]
      /\ scope' \in [Proc -> Hash \cup {Nil}]
      /\ obj' \in [Proc -> Obj \cup {Nil}]
      /\ \A q \in Proc : at'[q] # "out" => scope'[q] \in Hash
      /\ \A q \in Proc : at'[q] \in {"wait", "held"} => obj'[q] \in Obj
      /\ at'[p] = "held" /\ scope'[p] = h /\ obj'[p] = o
      /\ \A q \in Proc \ {p} : at'[q] = at[q] /\ scope'[q] = scope[q] /\ obj'[q] = obj[q]
  BY <1>1, <1>2, EnterType DEF IInv
<1>5. TypeOK'
  BY <1>1, <1>2, <1>3, <1>4 DEF IInv, TypeOK
<1>6. ListedIsTaken'
  BY <1>1, <1>2 DEF IInv, TypeOK, ListedIsTaken
<1>7. HoldersAreListed'
  <2> SUFFICES ASSUME ~mixup
               PROVE  /\ \A g \in Hash : \A q \in LiveHolders(g)' : locks'[g] = obj'[q]
                      /\ \A q, r \in Proc : at'[q] = "held" /\ at'[r] = "held"
                           /\ obj'[q] = obj'[r] => q = r
    BY <1>3 DEF HoldersAreListed
  <2>1. ASSUME NEW g \in Hash, NEW q \in LiveHolders(g)'
        PROVE  locks'[g] = obj'[q]
    <3>1. q \in Proc /\ at'[q] = "held" /\ scope'[q] = g /\ ~expired'[obj'[q]]
      BY <2>1 DEF LiveHolders
    <3>2. CASE q = p
      BY <3>1, <3>2, <1>1, <1>4 DEF IInv, TypeOK
    <3>3. CASE q # p
      <4>1. at[q] = "held" /\ scope[q] = g /\ obj'[q] = obj[q] /\ obj[q] \in Obj
        BY <3>1, <3>3, <1>4 DEF IInv, TypeOK
      <4>2. ~expired[obj[q]]
        BY <3>1, <4>1, <1>1, <1>2 DEF IInv, TypeOK
      <4>3. locks[g] = obj[q]
        BY <3>1, <4>1, <4>2 DEF IInv, HoldersAreListed, LiveHolders
      <4>4. g # h
        BY <4>1, <4>3, <1>3, NamesAssumption
      <4> QED
        BY <4>1, <4>3, <4>4, <1>1 DEF IInv, TypeOK
    <3> QED
      BY <3>2, <3>3
  <2>2. \A q, r \in Proc : at'[q] = "held" /\ at'[r] = "held" /\ obj'[q] = obj'[r] => q = r
    BY <1>2, <1>4 DEF IInv, HoldersAreListed
  <2> QED
    BY <2>1, <2>2
<1> QED
  BY <1>5, <1>6, <1>7 DEF IInv

LEMMA LockListedInv ==
  ASSUME IInv, NEW p \in Proc, NEW h \in Hash, LockListed(p, h)
  PROVE  IInv'
<1>1. locks[h] \in Obj /\ UNCHANGED <<locks, taken, expired, mixup>>
  BY DEF LockListed, IInv, TypeOK
<1>2. /\ at' \in [Proc -> {"out", "wait", "held", "none"}]
      /\ scope' \in [Proc -> Hash \cup {Nil}]
      /\ obj' \in [Proc -> Obj \cup {Nil}]
      /\ \A q \in Proc : at'[q] # "out" => scope'[q] \in Hash
      /\ \A q \in Proc : at'[q] \in {"wait", "held"} => obj'[q] \in Obj
      /\ at'[p] = "wait"
      /\ \A q \in Proc \ {p} : at'[q] = at[q] /\ scope'[q] = scope[q] /\ obj'[q] = obj[q]
  BY <1>1, EnterType DEF LockListed, IInv
<1>3. TypeOK'
  BY <1>1, <1>2 DEF IInv, TypeOK
<1>4. ListedIsTaken'
  BY <1>1 DEF IInv, ListedIsTaken
<1>5. HoldersAreListed'
  BY <1>1, <1>2 DEF IInv, HoldersAreListed, LiveHolders
<1> QED
  BY <1>3, <1>4, <1>5 DEF IInv

LEMMA AcquireInv ==
  ASSUME IInv, NEW p \in Proc, Acquire(p)
  PROVE  IInv'
<1>1. scope[p] \in Hash /\ obj[p] \in Obj
  BY DEF Acquire, IInv, TypeOK
<1>2. TypeOK'
  BY <1>1 DEF Acquire, IInv, TypeOK
<1>3. ListedIsTaken'
  BY <1>1 DEF Acquire, IInv, TypeOK, ListedIsTaken
<1>4. HoldersAreListed'
  BY DEF Acquire, HoldersAreListed
<1> QED
  BY <1>2, <1>3, <1>4 DEF IInv

LEMMA GiveUpInv ==
  ASSUME IInv, NEW p \in Proc, GiveUp(p)
  PROVE  IInv'
<1>1. TypeOK'
  BY DEF GiveUp, IInv, TypeOK
<1>2. ListedIsTaken'
  BY DEF GiveUp, IInv, ListedIsTaken
<1>3. HoldersAreListed'
  BY DEF GiveUp, IInv, TypeOK, HoldersAreListed, LiveHolders
<1> QED
  BY <1>1, <1>2, <1>3 DEF IInv

LEMMA LeaveType ==
  ASSUME TypeOK, NEW p \in Proc, Leave(p)
  PROVE  /\ at' \in [Proc -> {"out", "wait", "held", "none"}]
         /\ scope' \in [Proc -> Hash \cup {Nil}]
         /\ obj' \in [Proc -> Obj \cup {Nil}]
         /\ \A q \in Proc : at'[q] # "out" => scope'[q] \in Hash
         /\ \A q \in Proc : at'[q] \in {"wait", "held"} => obj'[q] \in Obj
         /\ at'[p] = "out"
         /\ \A q \in Proc \ {p} : at'[q] = at[q] /\ scope'[q] = scope[q] /\ obj'[q] = obj[q]
BY EnterType DEF Leave

LEMMA UnlockInv ==
  ASSUME IInv, NEW p \in Proc, NEW g \in Hash, Unlock(p, g)
  PROVE  IInv'
<1>1. /\ locks' = [h \in Hash |-> IF h \in {g} THEN Nil ELSE locks[h]]
      /\ taken' = [o \in Obj |-> taken[o] /\ \A h \in {g} : o # locks[h]]
      /\ expired' = expired
      /\ mixup' = (mixup \/ (locks[g] # Nil /\ p \notin LiveHolders(g)))
      /\ Leave(p)
  BY DEF Unlock, PopAndRelease, IInv, TypeOK
<1>2. ListedIsTaken' /\ locks' \in [Hash -> Obj \cup {Nil}] /\ taken' \in [Obj -> BOOLEAN]
  <2> DEFINE H == {g}
  <2>1. H \in SUBSET Hash
    OBVIOUS
  <2>2. /\ locks' = [h \in Hash |-> IF h \in H THEN Nil ELSE locks[h]]
        /\ taken' = [o \in Obj |-> taken[o] /\ \A h \in H : o # locks[h]]
    BY <1>1
  <2> HIDE DEF H
  <2> QED
    BY <2>1, <2>2, DropKeepsListedTaken DEF IInv
<1>3. /\ at' \in [Proc -> {"out", "wait", "held", "none"}]
      /\ scope' \in [Proc -> Hash \cup {Nil}]
      /\ obj' \in [Proc -> Obj \cup {Nil}]
      /\ \A q \in Proc : at'[q] # "out" => scope'[q] \in Hash
      /\ \A q \in Proc : at'[q] \in {"wait", "held"} => obj'[q] \in Obj
      /\ at'[p] = "out"
      /\ \A q \in Proc \ {p} : at'[q] = at[q] /\ scope'[q] = scope[q] /\ obj'[q] = obj[q]
  BY <1>1, LeaveType DEF IInv
<1>4. TypeOK'
  <2>1. mixup' \in BOOLEAN /\ expired' \in [Obj -> BOOLEAN]
    BY <1>1 DEF IInv, TypeOK
  <2> QED
    BY <1>2, <1>3, <2>1 DEF TypeOK
<1>5. HoldersAreListed'
  <2> SUFFICES ASSUME ~mixup'
               PROVE  /\ \A h \in Hash : \A q \in LiveHolders(h)' : locks'[h] = obj'[q]
                      /\ \A q, r \in Proc : at'[q] = "held" /\ at'[r] = "held"
                           /\ obj'[q] = obj'[r] => q = r
    BY DEF HoldersAreListed
  <2>1. ~mixup /\ (locks[g] = Nil \/ p \in LiveHolders(g))
    BY <1>1
  <2>2. locks[g] = Nil \/ (at[p] = "held" /\ locks[g] = obj[p])
    BY <2>1 DEF IInv, HoldersAreListed, LiveHolders
  <2>3. ASSUME NEW h \in Hash, NEW q \in LiveHolders(h)'
        PROVE  locks'[h] = obj'[q]
    <3>1. q \in Proc \ {p} /\ at[q] = "held" /\ obj'[q] = obj[q] /\ q \in LiveHolders(h)
      BY <2>3, <1>1, <1>3 DEF LiveHolders
    <3>2. locks[h] = obj[q]
      BY <3>1, <2>1 DEF IInv, HoldersAreListed
    <3>3. at[p] = "held" => obj[q] # obj[p]
      BY <3>1, <2>1 DEF IInv, HoldersAreListed
    <3>4. obj[q] \in Obj
      BY <3>1 DEF IInv, TypeOK
    <3> QED
      BY <3>1, <3>2, <3>3, <3>4, <2>2, <1>1, NamesAssumption
  <2>4. \A q, r \in Proc : at'[q] = "held" /\ at'[r] = "held" /\ obj'[q] = obj'[r] => q = r
    BY <1>3, <2>1 DEF IInv, HoldersAreListed
  <2> QED
    BY <2>3, <2>4
<1> QED
  BY <1>2, <1>4, <1>5 DEF IInv

LEMMA NoUnlockInv ==
  ASSUME IInv, NEW p \in Proc, NoUnlock(p)
  PROVE  IInv'
<1>1. UNCHANGED <<locks, taken, expired, mixup>> /\ Leave(p)
  BY DEF NoUnlock
<1>2. /\ at' \in [Proc -> {"out", "wait", "held", "none"}]
      /\ scope' \in [Proc -> Hash \cup {Nil}]
      /\ obj' \in [Proc -> Obj \cup {Nil}]
      /\ \A q \in Proc : at'[q] # "out" => scope'[q] \in Hash
      /\ \A q \in Proc : at'[q] \in {"wait", "held"} => obj'[q] \in Obj
      /\ at'[p] = "out"
      /\ \A q \in Proc \ {p} : at'[q] = at[q] /\ scope'[q] = scope[q] /\ obj'[q] = obj[q]
  BY <1>1, LeaveType DEF IInv
<1>3. TypeOK'
  BY <1>1, <1>2 DEF IInv, TypeOK
<1>4. ListedIsTaken'
  BY <1>1 DEF IInv, ListedIsTaken
<1>5. HoldersAreListed'
  BY <1>1, <1>2 DEF IInv, HoldersAreListed, LiveHolders
<1> QED
  BY <1>3, <1>4, <1>5 DEF IInv

LEMMA ExpireInv ==
  ASSUME IInv, NEW o \in Obj, Expire(o)
  PROVE  IInv'
<1>1. TypeOK'
  BY DEF Expire, IInv, TypeOK
<1>2. ListedIsTaken'
  BY DEF Expire, IInv, ListedIsTaken
<1>3. \A h \in Hash : LiveHolders(h)' \subseteq LiveHolders(h)
  BY DEF Expire, IInv, TypeOK, LiveHolders
<1>4. HoldersAreListed'
  BY <1>3 DEF Expire, IInv, HoldersAreListed
<1> QED
  BY <1>1, <1>2, <1>4 DEF IInv

LEMMA SweepInv ==
  ASSUME IInv, Sweep
  PROVE  IInv'
<1>1. Overdue \in SUBSET Hash
  BY DEF Overdue
<1>2. ListedIsTaken' /\ locks' \in [Hash -> Obj \cup {Nil}] /\ taken' \in [Obj -> BOOLEAN]
  BY <1>1, DropKeepsListedTaken DEF Sweep, IInv
<1>3. TypeOK'
  BY <1>2 DEF Sweep, IInv, TypeOK
<1>4. HoldersAreListed'
  <2>1. \A h \in Hash : LiveHolders(h)' = LiveHolders(h)
    BY DEF Sweep, LiveHolders
  <2>2. ASSUME ~mixup, NEW h \in Hash, NEW p \in LiveHolders(h)
        PROVE  locks'[h] = obj'[p]
    <3>1. locks[h] = obj[p] /\ ~expired[obj[p]]
      BY <2>2 DEF IInv, HoldersAreListed, LiveHolders
    <3>2. h \notin Overdue
      BY <3>1 DEF Overdue
    <3> QED
      BY <3>1, <3>2 DEF Sweep
  <2> QED
    BY <2>1, <2>2 DEF Sweep, IInv, HoldersAreListed
<1> QED
  BY <1>2, <1>3, <1>4 DEF IInv

LEMMA StepIInv == IInv /\ [Next]_vars => IInv'
<1> SUFFICES ASSUME IInv, [Next]_vars
             PROVE  IInv'
  OBVIOUS
<1>1. CASE \E p \in Proc : \E h \in Hash : LockNew(p, h) \/ LockListed(p, h)
  BY <1>1, LockNewInv, LockListedInv
<1>2. CASE \E p \in Proc : \/ Acquire(p) \/ GiveUp(p) \/ NoUnlock(p)
                          \/ \E h \in Hash : Unlock(p, h)
  BY <1>2, AcquireInv, GiveUpInv, UnlockInv, NoUnlockInv
<1>3. CASE \E o \in Obj : Expire(o)
  BY <1>3, ExpireInv
<1>4. CASE Sweep
  BY <1>4, SweepInv
<1>5. CASE UNCHANGED vars
  BY <1>5 DEF vars, IInv, TypeOK, ListedIsTaken, HoldersAreListed, LiveHolders
<1> QED
  BY <1>1, <1>2, <1>3, <1>4, <1>5 DEF Next

-----------------------------------------------------------------------------
(* The invariant behind the other theorems.                                *)
THEOREM Invariance == Spec => []IInv
BY InitIInv, StepIInv, PTL DEF Spec

(* Every variable keeps its type.                                          *)
THEOREM TypeCorrectness == Spec => []TypeOK
<1>1. IInv => TypeOK
  BY DEF IInv
<1> QED
  BY <1>1, Invariance, PTL

(* What lock() finds listed is taken, whatever threads wait, give up or    *)
(* unlock twice, and whenever the expiration thread runs.                  *)
THEOREM ListedLocksAreTaken == Spec => []ListedIsTaken
<1>1. IInv => ListedIsTaken
  BY DEF IInv
<1> QED
  BY <1>1, Invariance, PTL

(* The only ways to two holders of one lock of DictMetadataAdapter: to     *)
(* get it by waiting, and to call unlock() without holding it.             *)
THEOREM ExclusiveOtherwise == Spec => []ExclusiveUntilMixup
<1>1. IInv => ExclusiveUntilMixup
  BY DEF IInv, HoldersAreListed, ExclusiveUntilMixup, LiveHolders
<1> QED
  BY <1>1, Invariance, PTL
=============================================================================
