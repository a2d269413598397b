------------------------ MODULE DecoratedCallProofs ------------------------
(* Proofs about DecoratedCall, for every set of threads and tags, every    *)
(* form of the arguments and any number of changes of the data.            *)
EXTENDS DecoratedCall, TLAPS

-----------------------------------------------------------------------------
(* The inductive invariant                                                 *)

(* What the locals of a call are worth at each step.                       *)
LocalsMatch ==
  \A p \in Proc :
    /\ pc[p] = "idle" => hash[p] = Nil
    /\ pc[p] \in {"idle", "read", "lock"} => ~locked[p] /\ lockAt[p] = Nil
    /\ pc[p] = "again" /\ ~locked[p] => lockAt[p] = Nil
    /\ \/ pc[p] \in {"read", "again", "store"} /\ form.tags # "lazy"
       \/ seen[p] = Nil /\ draws[p] = {}
    /\ seen[p] = Nil => draws[p] = {}
    /\ pc[p] = "lock" => hash[p] # Nil
    /\ pc[p] = "store" => val[p] \in 0..MaxVersion

(* While a tag is missing nobody has a hash of it, save a reader who is    *)
(* about to create it.                                                     *)
MissingIsUnknown ==
  \A h \in Hash : Full(h) \cap missing # {} =>
    /\ entry[h] = Nil
    /\ \A p \in Proc : /\ hash[p] # h /\ lockAt[p] # h
                       /\ seen[p] = h => Full(h) \cap missing \subseteq draws[p]

(* With tags that can be iterated over again nothing is read, stored or    *)
(* locked under another hash.                                              *)
OnlyHome ==
  ~OneShot =>
    /\ \A p \in Proc : /\ {hash[p], seen[p], lockAt[p]} \subseteq {Nil, Home, Old}
                       /\ draws[p] \subseteq Full(Home)
    /\ \A h \in Hash \ {Home} : entry[h] = Nil

(* Store, Flush: what is stored, or about to be stored, is as recent as    *)
(* the last invalidation.                                                  *)
NoStaleValue ==
  /\ flushed <= version
  /\ ~OneShot /\ form.arg = "list" /\ ~overlapped =>
       /\ \A h \in Hash : entry[h] \notin {Nil, Garbage} => entry[h] >= flushed
       /\ \A p \in Proc : pc[p] = "store" /\ seen[p] # Old => val[p] >= flushed

(* As long as nothing is disturbed, whoever has read the hash has the one  *)
(* within reach; and whoever has found or stored a value leaves an entry.  *)
EntryIsLeft ==
  ~disturbed /\ ~OneShot => \A p \in Proc :
    /\ hash[p] # Nil => Full(Home) \cap missing = {}
    /\ seen[p] # Nil => Full(Home) \cap missing \subseteq draws[p]
    /\ pc[p] = "store" => seen[p] # Old /\ draws[p] = {}
    /\ pc[p] = "found" /\ val[p] # Garbage => Readable
    /\ pc[p] \in {"unlock", "return"} /\ hash[p] # Nil => Readable

(* Unlock, Return: the lock belongs to a call that will release it.        *)
LockWillBeReleased ==
  ~disturbed /\ ~OneShot /\ form.key # "empty" /\ form.tags # "repeated" =>
    \A p \in Proc :
      /\ hash[p] # Old /\ seen[p] # Old
      /\ lockAt[p] # Nil =>
           /\ lockAt[p] = Home /\ hash[p] = Home /\ locked[p]
           /\ pc[p] \in {"again", "compute", "store", "unlock"}

IInv ==
  /\ TypeOK /\ LocalsMatch /\ MissingIsUnknown /\ OnlyHome /\ NoStaleValue
  /\ EntryIsLeft /\ LockWillBeReleased

-----------------------------------------------------------------------------
(* Names, hashes and tags                                                  *)

LEMMA HashFacts ==
  /\ {} \in Hash /\ Tag \in Hash /\ Home \in Hash
  /\ Nil \notin Hash /\ Old \notin Hash /\ Nil # Old
  /\ \A h \in Hash : Full(h) \subseteq AllTag /\ All \in Full(h) /\ Full(h) # {}
BY NamesAssumption DEF Hash, Home, Full, AllTag

LEMMA ReadHashFacts ==
  ASSUME NEW p \in Proc
  PROVE  /\ TagsRead(p) \in Hash
         /\ ReadHash(p) \in Hash \cup {Old} /\ ReadHash(p) # Nil
         /\ ReadHash(p) \in Hash => ReadHash(p) = TagsRead(p)
         /\ ~OneShot => TagsRead(p) = Home
         /\ ReadHash(p) = Old => form.tags = "repeated" /\ Full(Home) \cap missing # {}
<1>1. TagsRead(p) \in Hash /\ (~OneShot => TagsRead(p) = Home)
  BY HashFacts DEF TagsRead, Home, OneShot
<1>2. form.tags = "repeated" => Home = Tag
  BY DEF Home
<1>3. ReadHash(p) = Old => form.tags = "repeated" /\ missing \cap Tag # {}
  BY <1>1, HashFacts DEF ReadHash
<1>4. missing \cap Tag # {} => Full(Tag) \cap missing # {}
  BY DEF Full
<1>5. ReadHash(p) \in {Old, TagsRead(p)}
  BY DEF ReadHash
<1> QED
  BY <1>1, <1>2, <1>3, <1>4, <1>5, HashFacts

LEMMA FoundFacts ==
  ASSUME TypeOK, NEW h
  PROVE  /\ Found(h) \in Value
         /\ Found(h) # Nil => h \in Hash /\ Found(h) = entry[h]
BY DEF Found, TypeOK, Value

(* What changes with the tags of T, and what does not.                     *)
LEMMA SupersedeFacts ==
  ASSUME TypeOK, NEW T, Supersede(T)
  PROVE  /\ entry' \in [Hash -> Value] /\ orphan' \subseteq Hash
         /\ hash' \in [Proc -> Hash \cup {Nil, Old}]
         /\ lockAt' \in [Proc -> Hash \cup {Nil, Old}]
         /\ seen' \in [Proc -> Hash \cup {Nil, Old}]
         /\ \A h \in Hash : entry'[h] = IF Full(h) \cap T # {} THEN Nil ELSE entry[h]
         /\ \A p \in Proc :
              /\ hash'[p] = IF hash[p] \in Hash /\ Full(hash[p]) \cap T # {}
                            THEN Old ELSE hash[p]
              /\ lockAt'[p] = IF lockAt[p] \in Hash /\ Full(lockAt[p]) \cap T # {}
                              THEN Old ELSE lockAt[p]
              /\ seen'[p] = IF seen[p] \in Hash /\ Full(seen[p]) \cap (T \ draws[p]) # {}
                            THEN Old ELSE seen[p]
<1> DEFINE Gone == {h \in Hash : Full(h) \cap T # {}}
<1>1. \A h : h \in Gone <=> h \in Hash /\ Full(h) \cap T # {}
  OBVIOUS
<1>2. \A h \in Hash, p \in Proc : Full(h) \cap (T \ draws[p]) # {} => h \in Gone
  OBVIOUS
<1>3. /\ entry' = [h \in Hash |-> IF h \in Gone THEN Nil ELSE entry[h]]
      /\ orphan' = orphan \ Gone
      /\ hash' = [p \in Proc |-> IF hash[p] \in Gone THEN Old ELSE hash[p]]
      /\ lockAt' = [p \in Proc |-> IF lockAt[p] \in Gone THEN Old ELSE lockAt[p]]
      /\ seen' = [p \in Proc |->
           IF seen[p] \in Gone /\ Full(seen[p]) \cap (T \ draws[p]) # {} THEN Old ELSE seen[p]]
  BY DEF Supersede
<1>4. Nil \in Value
  BY DEF Value
<1> HIDE DEF Gone
<1>5. /\ entry' \in [Hash -> Value] /\ orphan' \subseteq Hash
      /\ hash' \in [Proc -> Hash \cup {Nil, Old}]
      /\ lockAt' \in [Proc -> Hash \cup {Nil, Old}]
      /\ seen' \in [Proc -> Hash \cup {Nil, Old}]
  BY <1>3, <1>4 DEF TypeOK
<1>6. \A h \in Hash : entry'[h] = IF Full(h) \cap T # {} THEN Nil ELSE entry[h]
  BY <1>1, <1>3
<1>7. ASSUME NEW p \in Proc
      PROVE  /\ hash'[p] = IF hash[p] \in Hash /\ Full(hash[p]) \cap T # {}
                            THEN Old ELSE hash[p]
             /\ lockAt'[p] = IF lockAt[p] \in Hash /\ Full(lockAt[p]) \cap T # {}
                              THEN Old ELSE lockAt[p]
             /\ seen'[p] = IF seen[p] \in Hash /\ Full(seen[p]) \cap (T \ draws[p]) # {}
                            THEN Old ELSE seen[p]
  BY <1>1, <1>2, <1>3
<1> QED
  BY <1>5, <1>6, <1>7

-----------------------------------------------------------------------------
(* The initial state                                                       *)

LEMMA InitIInv == Init => IInv
<1> SUFFICES ASSUME Init PROVE IInv
  OBVIOUS
<1> USE NamesAssumption, BoundAssumption, HashFacts DEF Init
<1>1. TypeOK
  <2>1. /\ form \in Form /\ version \in 0..MaxVersion /\ flushed \in 0..MaxVersion
        /\ entry \in [Hash -> Value] /\ missing \subseteq AllTag /\ orphan \subseteq Hash
    BY DEF Value
  <2>2. pc \in [Proc -> Label] /\ \A p \in Proc : pc[p] = "idle"
    BY DEF Label
  <2>3. /\ spent \in [Proc -> BOOLEAN] /\ locked \in [Proc -> BOOLEAN]
        /\ disturbed \in BOOLEAN /\ overlapped \in BOOLEAN
    OBVIOUS
  <2>4. /\ hash \in [Proc -> Hash \cup {Nil, Old}] /\ lockAt \in [Proc -> Hash \cup {Nil, Old}]
        /\ seen \in [Proc -> Hash \cup {Nil, Old}] /\ draws \in [Proc -> SUBSET AllTag]
        /\ val \in [Proc -> Value]
    BY DEF Value
  <2> QED
    BY <2>1, <2>2, <2>3, <2>4 DEF TypeOK
<1>2. LocalsMatch
  BY DEF LocalsMatch
<1>3. MissingIsUnknown /\ OnlyHome
  BY DEF MissingIsUnknown, OnlyHome
<1>4. NoStaleValue
  BY DEF NoStaleValue
<1>5. EntryIsLeft /\ LockWillBeReleased
  BY DEF EntryIsLeft, LockWillBeReleased
<1> QED
  BY <1>1, <1>2, <1>3, <1>4, <1>5 DEF IInv


-----------------------------------------------------------------------------
(* The arguments of the decorator never change.                            *)
LEMMA FormFixed ==
  ASSUME [Next]_vars
  PROVE  form' = form /\ (OneShot' <=> OneShot) /\ Home' = Home
<1>1. form' = form
  BY DEF Next, Step, Environment, Call, Mget, Send, Read, Lock, ReadAgain, Decode, Compute,
     Store, Unlock, Return, Raise, ReadFails, StoreFails, UnlockFails, Update, Invalidate,
     InvalidateAll, Flush, TagsChange, Deploy, ExpireLock, LoseEntry, vars, data
<1> QED
  BY <1>1 DEF OneShot, Home

(* Sending values for tags that are still missing disturbs nobody.         *)
LEMMA SendFacts ==
  ASSUME IInv, NEW p \in Proc, Send(p), ~disturbed'
  PROVE  /\ ~disturbed
         /\ \A h \in Hash : entry'[h] = entry[h]
         /\ \A q \in Proc : hash'[q] = hash[q] /\ lockAt'[q] = lockAt[q] /\ seen'[q] = seen[q]
<1> USE DEF IInv
<1>1. draws[p] \subseteq missing /\ ~disturbed
  BY DEF Send
<1>2. \A h \in Hash : Full(h) \cap draws[p] # {} => Full(h) \cap missing # {}
  BY <1>1
<1>3. \A h \in Hash : entry'[h] = entry[h]
  BY <1>2, SupersedeFacts DEF Send, MissingIsUnknown
<1>4. ASSUME NEW q \in Proc
      PROVE  hash'[q] = hash[q] /\ lockAt'[q] = lockAt[q]
  BY <1>2, SupersedeFacts DEF Send, MissingIsUnknown
<1>5. ASSUME NEW q \in Proc
      PROVE  seen'[q] = seen[q]
  <2>1. SUFFICES ASSUME seen[q] \in Hash, Full(seen[q]) \cap (draws[p] \ draws[q]) # {}
                 PROVE  FALSE
    BY SupersedeFacts DEF Send
  <2>2. Full(seen[q]) \cap missing \subseteq draws[q]
    BY <1>1, <2>1 DEF MissingIsUnknown
  <2> QED
    BY <1>1, <2>1, <2>2
<1> QED
  BY <1>1, <1>3, <1>4, <1>5

(* The hash that calls read, and whose entry they leave, has the tags that *)
(* are invalidated.                                                        *)
LEMMA FlushFacts ==
  ASSUME IInv, NEW T \in {Tag, {All}}, Flush(T), Full(Home) \cap T # {}
  PROVE  NoStaleValue'
<1> USE DEF IInv
<1>1. /\ Supersede(T) /\ version' = version /\ flushed' = version
      /\ form' = form /\ pc' = pc /\ draws' = draws /\ val' = val
      /\ overlapped' = \E p \in Proc : pc[p] = "store" /\ ~Ready(p)
  BY DEF Flush
<1>2. (OneShot' <=> OneShot) /\ Home' = Home
  BY <1>1 DEF OneShot, Home
<1>3. version \in Nat
  BY BoundAssumption DEF TypeOK
<1>4. ~OneShot => \A h \in Hash : entry'[h] = Nil
  BY <1>1, SupersedeFacts, HashFacts DEF OnlyHome
<1>5. ASSUME ~OneShot, ~overlapped', NEW p \in Proc, pc[p] = "store"
      PROVE  seen'[p] = Old
  <2>1. Ready(p)
    BY <1>1, <1>5
  <2>2. seen[p] \in {Home, Old} /\ draws[p] = {}
    BY <1>5, <2>1 DEF Ready, OnlyHome
  <2> QED
    BY <1>1, <2>2, SupersedeFacts, HashFacts
<1>6. flushed' <= version'
  BY <1>1, <1>3
<1> QED
  BY <1>1, <1>2, <1>4, <1>5, <1>6 DEF NoStaleValue

-----------------------------------------------------------------------------
(* Every step preserves each part of the invariant                         *)

LEMMA StepTypes ==
  ASSUME IInv, [Next]_vars
  PROVE  TypeOK'
<1> USE NamesAssumption, BoundAssumption, HashFacts
        DEF IInv, TypeOK, Label, Value, LocalsMatch
<1>1. ASSUME NEW p \in Proc, Call(p)
      PROVE  TypeOK'
  BY <1>1 DEF Call, Goto, data, redis, local, history
<1>2. ASSUME NEW p \in Proc, Mget(p)
      PROVE  TypeOK'
  BY ReadHashFacts, <1>2 DEF Mget, Consume, data, redis, local, history
<1>3. ASSUME NEW p \in Proc, Send(p)
      PROVE  TypeOK'
  BY SupersedeFacts, <1>3 DEF Send, data
<1>4. ASSUME NEW p \in Proc, Read(p)
      PROVE  TypeOK'
  BY FoundFacts, <1>4 DEF Read, Ready, Forget, Goto, data, redis, history
<1>5. ASSUME NEW p \in Proc, Lock(p)
      PROVE  TypeOK'
  <2>1. /\ pc' = [pc EXCEPT ![p] = "again"] /\ hash' = hash /\ val' = val
        /\ disturbed' \in {disturbed, TRUE}
        /\ lockAt' \in {lockAt, [lockAt EXCEPT ![p] = hash[p]]}
        /\ locked' \in {locked, [locked EXCEPT ![p] = TRUE]}
    BY <1>5 DEF Lock, Goto, data, redis, reading
  <2>3. lockAt' \in [Proc -> Hash \cup {Nil, Old}] /\ locked' \in [Proc -> BOOLEAN]
    BY <2>1
  <2>2. \A q \in Proc : q # p => locked'[q] = locked[q]
    BY <1>5 DEF Lock
  <2> QED
    BY <1>5, <2>1, <2>2, <2>3 DEF Lock, data, redis, reading
<1>6. ASSUME NEW p \in Proc, ReadAgain(p)
      PROVE  TypeOK'
  <2>1. /\ seen' \in [Proc -> Hash \cup {Nil, Old}] /\ draws' \in [Proc -> SUBSET AllTag]
    BY <1>6 DEF ReadAgain, Forget
  <2>2. hash' \in [Proc -> Hash \cup {Nil, Old}] /\ val' \in [Proc -> Value]
    BY <1>6, FoundFacts DEF ReadAgain
  <2>3. lockAt' \in [Proc -> Hash \cup {Nil, Old}] /\ locked' \in [Proc -> BOOLEAN]
    BY <1>6 DEF ReadAgain, Release
  <2>4. /\ pc' \in [Proc -> Label] /\ pc'[p] \notin {"store", "unlock"}
        /\ pc'[p] = "found" => val'[p] # Nil /\ ~locked'[p]
    BY <1>6 DEF ReadAgain, Goto
  <2>5. \A q \in Proc : q # p => /\ pc'[q] = pc[q] /\ hash'[q] = hash[q]
                                /\ val'[q] = val[q] /\ locked'[q] = locked[q]
    BY <1>6 DEF ReadAgain, Goto
  <2> QED
    BY <1>6, <2>1, <2>2, <2>3, <2>4, <2>5 DEF ReadAgain, data, redis, history
<1>7. ASSUME NEW p \in Proc, Decode(p)
      PROVE  TypeOK'
  BY <1>7 DEF Decode, Goto, data, redis, reading, local, history
<1>8. ASSUME NEW p \in Proc, Compute(p)
      PROVE  TypeOK'
  BY <1>8 DEF Compute, Goto, data, redis, reading, history
<1>9. ASSUME NEW p \in Proc, Store(p)
      PROVE  TypeOK'
  BY <1>9 DEF Store, Ready, Written, Forget, AfterStore, Goto, data, local, history
<1>10. ASSUME NEW p \in Proc, Unlock(p)
      PROVE  TypeOK'
  BY <1>10 DEF Unlock, Release, Goto, data, redis, reading, history
<1>11. ASSUME NEW p \in Proc, Return(p)
      PROVE  TypeOK'
  BY <1>11 DEF Return, End, Abandon, Goto, data, reading, history
<1>12. ASSUME NEW p \in Proc, Raise(p)
      PROVE  TypeOK'
  BY <1>12 DEF Raise, End, Abandon, Goto, data, reading
<1>13. ASSUME NEW p \in Proc, ReadFails(p)
      PROVE  TypeOK'
  <2>1. /\ seen' \in [Proc -> Hash \cup {Nil, Old}] /\ draws' \in [Proc -> SUBSET AllTag]
        /\ hash' = [hash EXCEPT ![p] = Nil] /\ pc' = [pc EXCEPT ![p] = "compute"]
        /\ val' = val
    BY <1>13 DEF ReadFails, Forget, Goto
  <2>2. spent' \in [Proc -> BOOLEAN]
    BY <1>13 DEF ReadFails, Consume
  <2>3. orphan' \subseteq Hash
    BY <1>13 DEF ReadFails, Abandon
  <2>4. /\ lockAt' \in [Proc -> Hash \cup {Nil, Old}]
        /\ locked' \in [Proc -> BOOLEAN] /\ \A q \in Proc : locked'[q] => locked[q]
    BY <1>13 DEF ReadFails, Abandon
  <2>5. /\ disturbed' \in BOOLEAN /\ form' = form /\ version' = version
        /\ flushed' = flushed /\ entry' = entry /\ missing' = missing
        /\ overlapped' = overlapped
    BY <1>13 DEF ReadFails, data
  <2> QED
    BY <2>1, <2>2, <2>3, <2>4, <2>5
<1>14. ASSUME NEW p \in Proc, StoreFails(p)
      PROVE  TypeOK'
  BY <1>14 DEF StoreFails, Ready, Consume, Written, Forget, AfterStore, Goto, data, local
<1>15. ASSUME NEW p \in Proc, UnlockFails(p)
      PROVE  TypeOK'
  BY <1>15 DEF UnlockFails, Goto, data, redis, reading, local
<1>16. CASE Update
  BY <1>16 DEF Update, redis, reading, local, history
<1>17. CASE Invalidate
  BY SupersedeFacts, <1>17 DEF Invalidate, Flush, Invalidated
<1>18. CASE InvalidateAll
  BY SupersedeFacts, <1>18 DEF InvalidateAll, Flush
<1>19. CASE TagsChange
  BY SupersedeFacts, <1>19 DEF TagsChange, data
<1>20. CASE Deploy
  BY <1>20 DEF Deploy, Quiet, data, reading, local, history
<1>21. CASE ExpireLock
  BY <1>21 DEF ExpireLock, data, reading
<1>22. ASSUME NEW h \in Hash, LoseEntry(h)
      PROVE  TypeOK'
  BY <1>22 DEF LoseEntry, data, reading, local
<1>23. CASE UNCHANGED vars
  BY <1>23 DEF vars, data, redis, reading, local, history
<1> QED
  BY <1>1, <1>2, <1>3, <1>4, <1>5, <1>6, <1>7, <1>8, <1>9, <1>10, <1>11, <1>12, <1>13,
  <1>14, <1>15, <1>16, <1>17, <1>18, <1>19, <1>20, <1>21, <1>22, <1>23
     DEF Next, Step, Environment

(* Forget and End.                                                         *)
LEMMA StepLocalsMatch ==
  ASSUME IInv, [Next]_vars
  PROVE  LocalsMatch'
<1>0. form' = form /\ (OneShot' <=> OneShot) /\ Home' = Home
  BY FormFixed
<1> USE NamesAssumption, BoundAssumption, HashFacts
        DEF IInv, TypeOK, Label, Value, LocalsMatch
<1>1. ASSUME NEW p \in Proc, Call(p)
      PROVE  LocalsMatch'
  BY <1>0, <1>1 DEF Call, Goto, data, redis, local, history
<1>2. ASSUME NEW p \in Proc, Mget(p)
      PROVE  LocalsMatch'
  BY ReadHashFacts, <1>0, <1>2 DEF Mget, data, redis, local, history
<1>3. ASSUME NEW p \in Proc, Send(p)
      PROVE  LocalsMatch'
  BY SupersedeFacts, <1>0, <1>3 DEF Send, data
<1>4. ASSUME NEW p \in Proc, Read(p)
      PROVE  LocalsMatch'
  BY FoundFacts, <1>0, <1>4 DEF Read, Ready, Forget, Goto, data, redis, history
<1>5. ASSUME NEW p \in Proc, Lock(p)
      PROVE  LocalsMatch'
  BY <1>0, <1>5 DEF Lock, Goto, data, redis, reading
<1>6. ASSUME NEW p \in Proc, ReadAgain(p)
      PROVE  LocalsMatch'
  <2>1. /\ seen' = [seen EXCEPT ![p] = Nil] /\ draws' = [draws EXCEPT ![p] = {}]
        /\ version' = version
    BY <1>6 DEF ReadAgain, Forget, data
  <2>2. /\ pc[p] = "again" /\ pc'[p] \in {"found", "compute", "lock"}
        /\ pc'[p] = "lock" => ~locked[p] /\ ~locked'[p] /\ lockAt'[p] = lockAt[p] /\ hash'[p] # Nil
    BY <1>6 DEF ReadAgain, Ready, Goto
  <2>3. \A q \in Proc : q # p =>
          /\ pc'[q] = pc[q] /\ hash'[q] = hash[q] /\ val'[q] = val[q]
          /\ locked'[q] = locked[q] /\ lockAt'[q] = lockAt[q]
    BY <1>6 DEF ReadAgain, Release, Goto
  <2>4. pc'[p] = "lock" => lockAt'[p] = Nil
    BY <2>2
  <2> QED
    BY <1>0, <2>1, <2>2, <2>3, <2>4
<1>7. ASSUME NEW p \in Proc, Decode(p)
      PROVE  LocalsMatch'
  BY <1>0, <1>7 DEF Decode, Goto, data, redis, reading, local, history
<1>8. ASSUME NEW p \in Proc, Compute(p)
      PROVE  LocalsMatch'
  BY <1>0, <1>8 DEF Compute, Goto, data, redis, reading, history
<1>9. ASSUME NEW p \in Proc, Store(p)
      PROVE  LocalsMatch'
  BY <1>0, <1>9 DEF Store, Ready, Written, Forget, AfterStore, Goto, data, local, history
<1>10. ASSUME NEW p \in Proc, Unlock(p)
      PROVE  LocalsMatch'
  BY <1>0, <1>10 DEF Unlock, Release, Goto, data, redis, reading, history
<1>11. ASSUME NEW p \in Proc, Return(p)
      PROVE  LocalsMatch'
  BY <1>0, <1>11 DEF Return, End, Abandon, Goto, data, reading, history
<1>12. ASSUME NEW p \in Proc, Raise(p)
      PROVE  LocalsMatch'
  <2>1. /\ pc[p] = "compute" \/ form.tags = "lazy"
        /\ seen' = seen /\ draws' = draws /\ version' = version
        /\ pc' = [pc EXCEPT ![p] = "idle"] /\ hash' = [hash EXCEPT ![p] = Nil]
        /\ lockAt' = [lockAt EXCEPT ![p] = Nil] /\ locked' = [locked EXCEPT ![p] = FALSE]
        /\ val' = [val EXCEPT ![p] = Nil]
    BY <1>12 DEF Raise, End, Abandon, Goto, data, reading
  <2> QED
    BY <1>0, <2>1
<1>13. ASSUME NEW p \in Proc, ReadFails(p)
      PROVE  LocalsMatch'
  BY <1>0, <1>13 DEF ReadFails, Abandon, Forget, Goto, data
<1>14. ASSUME NEW p \in Proc, StoreFails(p)
      PROVE  LocalsMatch'
  BY <1>0, <1>14 DEF StoreFails, Ready, Written, Forget, AfterStore, Goto, data, local
<1>15. ASSUME NEW p \in Proc, UnlockFails(p)
      PROVE  LocalsMatch'
  BY <1>0, <1>15 DEF UnlockFails, Goto, data, redis, reading, local
<1>16. CASE Update
  BY <1>0, <1>16 DEF Update, redis, reading, local, history
<1>17. CASE Invalidate
  BY SupersedeFacts, <1>0, <1>17 DEF Invalidate, Flush, Invalidated
<1>18. CASE InvalidateAll
  BY SupersedeFacts, <1>0, <1>18 DEF InvalidateAll, Flush
<1>19. CASE TagsChange
  BY SupersedeFacts, <1>0, <1>19 DEF TagsChange, data
<1>20. CASE Deploy
  BY <1>0, <1>20 DEF Deploy, Quiet, data, reading, local, history
<1>21. CASE ExpireLock
  BY <1>0, <1>21 DEF ExpireLock, data, reading
<1>22. ASSUME NEW h \in Hash, LoseEntry(h)
      PROVE  LocalsMatch'
  BY <1>0, <1>22 DEF LoseEntry, data, reading, local
<1>23. CASE UNCHANGED vars
  BY <1>0, <1>23 DEF vars, data, redis, reading, local, history
<1> QED
  BY <1>1, <1>2, <1>3, <1>4, <1>5, <1>6, <1>7, <1>8, <1>9, <1>10, <1>11, <1>12, <1>13,
  <1>14, <1>15, <1>16, <1>17, <1>18, <1>19, <1>20, <1>21, <1>22, <1>23
     DEF Next, Step, Environment

(* Mget: who finds a tag missing draws a value for it.                     *)
LEMMA StepMissingIsUnknown ==
  ASSUME IInv, [Next]_vars
  PROVE  MissingIsUnknown'
<1>0. form' = form /\ (OneShot' <=> OneShot) /\ Home' = Home
  BY FormFixed
<1> USE NamesAssumption, BoundAssumption, HashFacts
        DEF IInv, TypeOK, Label, LocalsMatch, MissingIsUnknown
<1>1. ASSUME NEW p \in Proc, Call(p)
      PROVE  MissingIsUnknown'
  BY <1>0, <1>1 DEF Call, Goto, data, redis, local, history
<1>2. ASSUME NEW p \in Proc, Mget(p)
      PROVE  MissingIsUnknown'
  BY ReadHashFacts, <1>0, <1>2 DEF Mget, data, redis, local, history
<1>3. ASSUME NEW p \in Proc, Send(p)
      PROVE  MissingIsUnknown'
  BY SupersedeFacts, <1>0, <1>3 DEF Send, data
<1>4. ASSUME NEW p \in Proc, Read(p)
      PROVE  MissingIsUnknown'
  BY FoundFacts, <1>0, <1>4 DEF Read, Ready, Forget, Goto, data, redis, history
<1>5. ASSUME NEW p \in Proc, Lock(p)
      PROVE  MissingIsUnknown'
  BY <1>0, <1>5 DEF Lock, Goto, data, redis, reading
<1>6. ASSUME NEW p \in Proc, ReadAgain(p)
      PROVE  MissingIsUnknown'
  BY FoundFacts, <1>0, <1>6 DEF ReadAgain, Ready, Forget, Release, Goto, data, redis, history
<1>7. ASSUME NEW p \in Proc, Decode(p)
      PROVE  MissingIsUnknown'
  BY <1>0, <1>7 DEF Decode, Goto, data, redis, reading, local, history
<1>8. ASSUME NEW p \in Proc, Compute(p)
      PROVE  MissingIsUnknown'
  BY <1>0, <1>8 DEF Compute, Goto, data, redis, reading, history
<1>9. ASSUME NEW p \in Proc, Store(p)
      PROVE  MissingIsUnknown'
  BY <1>0, <1>9 DEF Store, Ready, Written, Forget, AfterStore, Goto, data, local, history
<1>10. ASSUME NEW p \in Proc, Unlock(p)
      PROVE  MissingIsUnknown'
  BY <1>0, <1>10 DEF Unlock, Release, Goto, data, redis, reading, history
<1>11. ASSUME NEW p \in Proc, Return(p)
      PROVE  MissingIsUnknown'
  BY <1>0, <1>11 DEF Return, End, Abandon, Goto, data, reading, history
<1>12. ASSUME NEW p \in Proc, Raise(p)
      PROVE  MissingIsUnknown'
  BY <1>0, <1>12 DEF Raise, End, Abandon, Goto, data, reading
<1>13. ASSUME NEW p \in Proc, ReadFails(p)
      PROVE  MissingIsUnknown'
  BY <1>0, <1>13 DEF ReadFails, Abandon, Forget, Goto, data
<1>14. ASSUME NEW p \in Proc, StoreFails(p)
      PROVE  MissingIsUnknown'
  BY <1>0, <1>14 DEF StoreFails, Ready, Written, Forget, AfterStore, Goto, data, local
<1>15. ASSUME NEW p \in Proc, UnlockFails(p)
      PROVE  MissingIsUnknown'
  BY <1>0, <1>15 DEF UnlockFails, Goto, data, redis, reading, local
<1>16. CASE Update
  BY <1>0, <1>16 DEF Update, redis, reading, local, history
<1>17. CASE Invalidate
  BY SupersedeFacts, <1>0, <1>17 DEF Invalidate, Flush, Invalidated
<1>18. CASE InvalidateAll
  BY SupersedeFacts, <1>0, <1>18 DEF InvalidateAll, Flush
<1>19. CASE TagsChange
  BY SupersedeFacts, <1>0, <1>19 DEF TagsChange, data
<1>20. CASE Deploy
  BY <1>0, <1>20 DEF Deploy, Quiet, data, reading, local, history
<1>21. CASE ExpireLock
  BY <1>0, <1>21 DEF ExpireLock, data, reading
<1>22. ASSUME NEW h \in Hash, LoseEntry(h)
      PROVE  MissingIsUnknown'
  BY <1>0, <1>22 DEF LoseEntry, data, reading, local
<1>23. CASE UNCHANGED vars
  BY <1>0, <1>23 DEF vars, data, redis, reading, local, history
<1> QED
  BY <1>1, <1>2, <1>3, <1>4, <1>5, <1>6, <1>7, <1>8, <1>9, <1>10, <1>11, <1>12, <1>13,
  <1>14, <1>15, <1>16, <1>17, <1>18, <1>19, <1>20, <1>21, <1>22, <1>23
     DEF Next, Step, Environment

(* TagsRead: a list is as good the second time.                            *)
LEMMA StepOnlyHome ==
  ASSUME IInv, [Next]_vars
  PROVE  OnlyHome'
<1>0. form' = form /\ (OneShot' <=> OneShot) /\ Home' = Home
  BY FormFixed
<1> USE NamesAssumption, BoundAssumption, HashFacts
        DEF IInv, TypeOK, Label, LocalsMatch, OnlyHome
<1>1. ASSUME NEW p \in Proc, Call(p)
      PROVE  OnlyHome'
  BY <1>0, <1>1 DEF Call, Goto, data, redis, local, history
<1>2. ASSUME NEW p \in Proc, Mget(p)
      PROVE  OnlyHome'
  BY ReadHashFacts, <1>0, <1>2 DEF Mget, data, redis, local, history
<1>3. ASSUME NEW p \in Proc, Send(p)
      PROVE  OnlyHome'
  BY SupersedeFacts, <1>0, <1>3 DEF Send, data
<1>4. ASSUME NEW p \in Proc, Read(p)
      PROVE  OnlyHome'
  BY FoundFacts, <1>0, <1>4 DEF Read, Ready, Forget, Goto, data, redis, history
<1>5. ASSUME NEW p \in Proc, Lock(p)
      PROVE  OnlyHome'
  BY <1>0, <1>5 DEF Lock, Goto, data, redis, reading
<1>6. ASSUME NEW p \in Proc, ReadAgain(p)
      PROVE  OnlyHome'
  BY FoundFacts, <1>0, <1>6 DEF ReadAgain, Ready, Forget, Release, Goto, data, redis, history
<1>7. ASSUME NEW p \in Proc, Decode(p)
      PROVE  OnlyHome'
  BY <1>0, <1>7 DEF Decode, Goto, data, redis, reading, local, history
<1>8. ASSUME NEW p \in Proc, Compute(p)
      PROVE  OnlyHome'
  BY <1>0, <1>8 DEF Compute, Goto, data, redis, reading, history
<1>9. ASSUME NEW p \in Proc, Store(p)
      PROVE  OnlyHome'
  BY <1>0, <1>9 DEF Store, Ready, Written, Forget, AfterStore, Goto, data, local, history
<1>10. ASSUME NEW p \in Proc, Unlock(p)
      PROVE  OnlyHome'
  BY <1>0, <1>10 DEF Unlock, Release, Goto, data, redis, reading, history
<1>11. ASSUME NEW p \in Proc, Return(p)
      PROVE  OnlyHome'
  BY <1>0, <1>11 DEF Return, End, Abandon, Goto, data, reading, history
<1>12. ASSUME NEW p \in Proc, Raise(p)
      PROVE  OnlyHome'
  BY <1>0, <1>12 DEF Raise, End, Abandon, Goto, data, reading
<1>13. ASSUME NEW p \in Proc, ReadFails(p)
      PROVE  OnlyHome'
  BY <1>0, <1>13 DEF ReadFails, Abandon, Forget, Goto, data
<1>14. ASSUME NEW p \in Proc, StoreFails(p)
      PROVE  OnlyHome'
  BY <1>0, <1>14 DEF StoreFails, Ready, Written, Forget, AfterStore, Goto, data, local
<1>15. ASSUME NEW p \in Proc, UnlockFails(p)
      PROVE  OnlyHome'
  BY <1>0, <1>15 DEF UnlockFails, Goto, data, redis, reading, local
<1>16. CASE Update
  BY <1>0, <1>16 DEF Update, redis, reading, local, history
<1>17. CASE Invalidate
  BY SupersedeFacts, <1>0, <1>17 DEF Invalidate, Flush, Invalidated
<1>18. CASE InvalidateAll
  BY SupersedeFacts, <1>0, <1>18 DEF InvalidateAll, Flush
<1>19. CASE TagsChange
  BY SupersedeFacts, <1>0, <1>19 DEF TagsChange, data
<1>20. CASE Deploy
  BY <1>0, <1>20 DEF Deploy, Quiet, data, reading, local, history
<1>21. CASE ExpireLock
  BY <1>0, <1>21 DEF ExpireLock, data, reading
<1>22. ASSUME NEW h \in Hash, LoseEntry(h)
      PROVE  OnlyHome'
  BY <1>0, <1>22 DEF LoseEntry, data, reading, local
<1>23. CASE UNCHANGED vars
  BY <1>0, <1>23 DEF vars, data, redis, reading, local, history
<1> QED
  BY <1>1, <1>2, <1>3, <1>4, <1>5, <1>6, <1>7, <1>8, <1>9, <1>10, <1>11, <1>12, <1>13,
  <1>14, <1>15, <1>16, <1>17, <1>18, <1>19, <1>20, <1>21, <1>22, <1>23
     DEF Next, Step, Environment

(* Flush puts out of reach what is stored, and the hash of whoever has     *)
(* read it already.                                                        *)
LEMMA StepNoStaleValue ==
  ASSUME IInv, [Next]_vars
  PROVE  NoStaleValue'
<1>0. form' = form /\ (OneShot' <=> OneShot) /\ Home' = Home
  BY FormFixed
<1> USE NamesAssumption, BoundAssumption, HashFacts
        DEF IInv, TypeOK, Label, Value, LocalsMatch, OnlyHome, NoStaleValue
<1>1. ASSUME NEW p \in Proc, Call(p)
      PROVE  NoStaleValue'
  BY <1>0, <1>1 DEF Call, Goto, data, redis, local, history
<1>2. ASSUME NEW p \in Proc, Mget(p)
      PROVE  NoStaleValue'
  BY ReadHashFacts, <1>0, <1>2 DEF Mget, data, redis, local, history
<1>3. ASSUME NEW p \in Proc, Send(p)
      PROVE  NoStaleValue'
  BY SupersedeFacts, <1>0, <1>3 DEF Send, data
<1>4. ASSUME NEW p \in Proc, Read(p)
      PROVE  NoStaleValue'
  BY FoundFacts, <1>0, <1>4 DEF Read, Ready, Forget, Goto, data, redis, history
<1>5. ASSUME NEW p \in Proc, Lock(p)
      PROVE  NoStaleValue'
  BY <1>0, <1>5 DEF Lock, Goto, data, redis, reading
<1>6. ASSUME NEW p \in Proc, ReadAgain(p)
      PROVE  NoStaleValue'
  BY FoundFacts, <1>0, <1>6 DEF ReadAgain, Ready, Forget, Release, Goto, data, redis, history
<1>7. ASSUME NEW p \in Proc, Decode(p)
      PROVE  NoStaleValue'
  BY <1>0, <1>7 DEF Decode, Goto, data, redis, reading, local, history
<1>8. ASSUME NEW p \in Proc, Compute(p)
      PROVE  NoStaleValue'
  BY <1>0, <1>8 DEF Compute, Goto, data, redis, reading, history
<1>9. ASSUME NEW p \in Proc, Store(p)
      PROVE  NoStaleValue'
  BY <1>0, <1>9 DEF Store, Ready, Written, Forget, AfterStore, Goto, data, local, history
<1>10. ASSUME NEW p \in Proc, Unlock(p)
      PROVE  NoStaleValue'
  BY <1>0, <1>10 DEF Unlock, Release, Goto, data, redis, reading, history
<1>11. ASSUME NEW p \in Proc, Return(p)
      PROVE  NoStaleValue'
  BY <1>0, <1>11 DEF Return, End, Abandon, Goto, data, reading, history
<1>12. ASSUME NEW p \in Proc, Raise(p)
      PROVE  NoStaleValue'
  BY <1>0, <1>12 DEF Raise, End, Abandon, Goto, data, reading
<1>13. ASSUME NEW p \in Proc, ReadFails(p)
      PROVE  NoStaleValue'
  BY <1>0, <1>13 DEF ReadFails, Abandon, Forget, Goto, data
<1>14. ASSUME NEW p \in Proc, StoreFails(p)
      PROVE  NoStaleValue'
  BY <1>0, <1>14 DEF StoreFails, Ready, Written, Forget, AfterStore, Goto, data, local
<1>15. ASSUME NEW p \in Proc, UnlockFails(p)
      PROVE  NoStaleValue'
  BY <1>0, <1>15 DEF UnlockFails, Goto, data, redis, reading, local
<1>16. CASE Update
  BY <1>0, <1>16 DEF Update, redis, reading, local, history
<1>17. CASE Invalidate
  <2>1. CASE form.arg = "list"
    <3>1. Home = Tag /\ Flush(Tag)
      BY <1>17, <2>1 DEF Invalidate, Invalidated, Home
    <3> QED
      BY <3>1, FlushFacts, TagAssumption DEF Full
  <2>2. CASE form.arg # "list"
    BY <1>0, <1>17, <2>2 DEF Invalidate, Flush
  <2> QED
    BY <2>1, <2>2
<1>18. CASE InvalidateAll
  BY <1>18, FlushFacts DEF InvalidateAll, Full
<1>19. CASE TagsChange
  BY SupersedeFacts, <1>0, <1>19 DEF TagsChange, data
<1>20. CASE Deploy
  BY <1>0, <1>20 DEF Deploy, Quiet, data, reading, local, history
<1>21. CASE ExpireLock
  BY <1>0, <1>21 DEF ExpireLock, data, reading
<1>22. ASSUME NEW h \in Hash, LoseEntry(h)
      PROVE  NoStaleValue'
  BY <1>0, <1>22 DEF LoseEntry, data, reading, local
<1>23. CASE UNCHANGED vars
  BY <1>0, <1>23 DEF vars, data, redis, reading, local, history
<1> QED
  BY <1>1, <1>2, <1>3, <1>4, <1>5, <1>6, <1>7, <1>8, <1>9, <1>10, <1>11, <1>12, <1>13,
  <1>14, <1>15, <1>16, <1>17, <1>18, <1>19, <1>20, <1>21, <1>22, <1>23
     DEF Next, Step, Environment

(* Store: the entry is written under the hash that the next call reads.    *)
LEMMA StepEntryIsLeft ==
  ASSUME IInv, [Next]_vars
  PROVE  EntryIsLeft'
<1>0. form' = form /\ (OneShot' <=> OneShot) /\ Home' = Home
  BY FormFixed
<1> USE NamesAssumption, BoundAssumption, HashFacts
        DEF IInv, TypeOK, Label, Value, LocalsMatch, MissingIsUnknown, OnlyHome,
        EntryIsLeft, Readable
<1>1. ASSUME NEW p \in Proc, Call(p)
      PROVE  EntryIsLeft'
  BY <1>0, <1>1 DEF Call, Goto, data, redis, local, history
<1>2. ASSUME NEW p \in Proc, Mget(p)
      PROVE  EntryIsLeft'
  BY ReadHashFacts, <1>0, <1>2 DEF Mget, data, redis, local, history
<1>3. ASSUME NEW p \in Proc, Send(p)
      PROVE  EntryIsLeft'
  <2>1. SUFFICES ASSUME ~disturbed' PROVE EntryIsLeft'
    BY DEF EntryIsLeft
  <2>2. /\ ~disturbed
        /\ \A h \in Hash : entry'[h] = entry[h]
        /\ \A q \in Proc : hash'[q] = hash[q] /\ lockAt'[q] = lockAt[q] /\ seen'[q] = seen[q]
    BY <2>1, <1>3, SendFacts
  <2>3. /\ missing' = missing \ draws[p] /\ draws' = [draws EXCEPT ![p] = {}]
        /\ draws[p] # {} /\ pc' = pc /\ val' = val /\ locked' = locked
    BY <1>3 DEF Send
  <2> QED
    BY <1>0, <2>2, <2>3
<1>4. ASSUME NEW p \in Proc, Read(p)
      PROVE  EntryIsLeft'
  <2>1. /\ disturbed' = disturbed /\ entry' = entry /\ missing' = missing
        /\ Readable' = Readable
    BY <1>4, <1>0 DEF Read, redis, history
  <2>2. /\ seen[p] # Nil /\ draws[p] = {} /\ pc'[p] \in {"found", "lock", "compute"}
        /\ hash'[p] \in {seen[p], Nil} /\ pc'[p] # "store"
        /\ pc'[p] = "found" => val'[p] = entry[seen[p]] /\ seen[p] \in Hash /\ val'[p] # Nil
    BY <1>4, FoundFacts DEF Read, Ready, Goto, Release
  <2>3. \A q \in Proc : q # p =>
          /\ pc'[q] = pc[q] /\ hash'[q] = hash[q] /\ val'[q] = val[q]
          /\ seen'[q] = seen[q] /\ draws'[q] = draws[q]
    BY <1>4 DEF Read, Goto, Forget
  <2>4. ~OneShot => seen[p] \in {Home, Old}
    BY <2>2
  <2>5. ~disturbed /\ ~OneShot => Full(Home) \cap missing = {}
    BY <2>2
  <2> QED
    BY <1>0, <2>1, <2>2, <2>3, <2>4, <2>5
<1>5. ASSUME NEW p \in Proc, Lock(p)
      PROVE  EntryIsLeft'
  BY <1>0, <1>5 DEF Lock, Goto, data, redis, reading
<1>6. ASSUME NEW p \in Proc, ReadAgain(p)
      PROVE  EntryIsLeft'
  <2>1. /\ disturbed' = disturbed /\ entry' = entry /\ missing' = missing
        /\ Readable' = Readable
    BY <1>6, <1>0 DEF ReadAgain, redis, history
  <2>2. /\ seen[p] # Nil /\ draws[p] = {} /\ pc'[p] \in {"found", "lock", "compute"}
        /\ hash'[p] \in {seen[p], Nil} /\ pc'[p] # "store"
        /\ pc'[p] = "found" => val'[p] = entry[seen[p]] /\ seen[p] \in Hash /\ val'[p] # Nil
    BY <1>6, FoundFacts DEF ReadAgain, Ready, Goto, Release
  <2>3. \A q \in Proc : q # p =>
          /\ pc'[q] = pc[q] /\ hash'[q] = hash[q] /\ val'[q] = val[q]
          /\ seen'[q] = seen[q] /\ draws'[q] = draws[q]
    BY <1>6 DEF ReadAgain, Goto, Forget
  <2>4. ~OneShot => seen[p] \in {Home, Old}
    BY <2>2
  <2>5. ~disturbed /\ ~OneShot => Full(Home) \cap missing = {}
    BY <2>2
  <2> QED
    BY <1>0, <2>1, <2>2, <2>3, <2>4, <2>5
<1>7. ASSUME NEW p \in Proc, Decode(p)
      PROVE  EntryIsLeft'
  BY <1>0, <1>7 DEF Decode, Goto, data, redis, reading, local, history
<1>8. ASSUME NEW p \in Proc, Compute(p)
      PROVE  EntryIsLeft'
  BY <1>0, <1>8 DEF Compute, Goto, data, redis, reading, history
<1>9. ASSUME NEW p \in Proc, Store(p)
      PROVE  EntryIsLeft'
  BY <1>0, <1>9 DEF Store, Ready, Written, Forget, AfterStore, Goto, data, local, history
<1>10. ASSUME NEW p \in Proc, Unlock(p)
      PROVE  EntryIsLeft'
  BY <1>0, <1>10 DEF Unlock, Release, Goto, data, redis, reading, history
<1>11. ASSUME NEW p \in Proc, Return(p)
      PROVE  EntryIsLeft'
  BY <1>0, <1>11 DEF Return, End, Abandon, Goto, data, reading, history
<1>12. ASSUME NEW p \in Proc, Raise(p)
      PROVE  EntryIsLeft'
  BY <1>0, <1>12 DEF Raise, End, Abandon, Goto, data, reading
<1>13. ASSUME NEW p \in Proc, ReadFails(p)
      PROVE  EntryIsLeft'
  BY <1>0, <1>13 DEF ReadFails, Abandon, Forget, Goto, data
<1>14. ASSUME NEW p \in Proc, StoreFails(p)
      PROVE  EntryIsLeft'
  BY <1>0, <1>14 DEF StoreFails, Ready, Written, Forget, AfterStore, Goto, data, local
<1>15. ASSUME NEW p \in Proc, UnlockFails(p)
      PROVE  EntryIsLeft'
  BY <1>0, <1>15 DEF UnlockFails, Goto, data, redis, reading, local
<1>16. CASE Update
  BY <1>0, <1>16 DEF Update, redis, reading, local, history
<1>17. CASE Invalidate
  <2>1. SUFFICES ASSUME ~disturbed' PROVE EntryIsLeft'
    BY DEF EntryIsLeft
  <2>2. Quiet /\ pc' = pc
    BY <2>1, <1>17 DEF Invalidate, Flush
  <2>3. \A q \in Proc : pc'[q] = "idle" /\ hash[q] = Nil /\ seen[q] = Nil /\ lockAt[q] = Nil
    BY <2>2 DEF Quiet
  <2>4. \A q \in Proc : hash'[q] = Nil /\ seen'[q] = Nil /\ lockAt'[q] = Nil
    BY <2>3, <1>17, SupersedeFacts DEF Invalidate, Flush
  <2> QED
    BY <1>0, <2>3, <2>4
<1>18. CASE InvalidateAll
  <2>1. SUFFICES ASSUME ~disturbed' PROVE EntryIsLeft'
    BY DEF EntryIsLeft
  <2>2. Quiet /\ pc' = pc
    BY <2>1, <1>18 DEF InvalidateAll, Flush
  <2>3. \A q \in Proc : pc'[q] = "idle" /\ hash[q] = Nil /\ seen[q] = Nil /\ lockAt[q] = Nil
    BY <2>2 DEF Quiet
  <2>4. \A q \in Proc : hash'[q] = Nil /\ seen'[q] = Nil /\ lockAt'[q] = Nil
    BY <2>3, <1>18, SupersedeFacts DEF InvalidateAll, Flush
  <2> QED
    BY <1>0, <2>3, <2>4
<1>19. CASE TagsChange
  BY SupersedeFacts, <1>0, <1>19 DEF TagsChange, data
<1>20. CASE Deploy
  BY <1>0, <1>20 DEF Deploy, Quiet, data, reading, local, history
<1>21. CASE ExpireLock
  BY <1>0, <1>21 DEF ExpireLock, data, reading
<1>22. ASSUME NEW h \in Hash, LoseEntry(h)
      PROVE  EntryIsLeft'
  BY <1>0, <1>22 DEF LoseEntry, data, reading, local
<1>23. CASE UNCHANGED vars
  BY <1>0, <1>23 DEF vars, data, redis, reading, local, history
<1> QED
  BY <1>1, <1>2, <1>3, <1>4, <1>5, <1>6, <1>7, <1>8, <1>9, <1>10, <1>11, <1>12, <1>13,
  <1>14, <1>15, <1>16, <1>17, <1>18, <1>19, <1>20, <1>21, <1>22, <1>23
     DEF Next, Step, Environment

(* As long as the tags stay, a lock is released under the hash it was      *)
(* taken.                                                                  *)
LEMMA StepLockWillBeReleased ==
  ASSUME IInv, [Next]_vars
  PROVE  LockWillBeReleased'
<1>0. form' = form /\ (OneShot' <=> OneShot) /\ Home' = Home
  BY FormFixed
<1> USE NamesAssumption, BoundAssumption, HashFacts
        DEF IInv, TypeOK, Label, LocalsMatch, MissingIsUnknown, OnlyHome, EntryIsLeft,
        LockWillBeReleased
<1>1. ASSUME NEW p \in Proc, Call(p)
      PROVE  LockWillBeReleased'
  BY <1>0, <1>1 DEF Call, Goto, data, redis, local, history
<1>2. ASSUME NEW p \in Proc, Mget(p)
      PROVE  LockWillBeReleased'
  BY ReadHashFacts, <1>0, <1>2 DEF Mget, data, redis, local, history
<1>3. ASSUME NEW p \in Proc, Send(p)
      PROVE  LockWillBeReleased'
  <2>1. SUFFICES ASSUME ~disturbed' PROVE LockWillBeReleased'
    BY DEF LockWillBeReleased
  <2>2. /\ ~disturbed
        /\ \A h \in Hash : entry'[h] = entry[h]
        /\ \A q \in Proc : hash'[q] = hash[q] /\ lockAt'[q] = lockAt[q] /\ seen'[q] = seen[q]
    BY <2>1, <1>3, SendFacts
  <2>3. /\ missing' = missing \ draws[p] /\ draws' = [draws EXCEPT ![p] = {}]
        /\ draws[p] # {} /\ pc' = pc /\ val' = val /\ locked' = locked
    BY <1>3 DEF Send
  <2> QED
    BY <1>0, <2>2, <2>3
<1>4. ASSUME NEW p \in Proc, Read(p)
      PROVE  LockWillBeReleased'
  BY FoundFacts, <1>0, <1>4 DEF Read, Ready, Forget, Goto, data, redis, history
<1>5. ASSUME NEW p \in Proc, Lock(p)
      PROVE  LockWillBeReleased'
  BY <1>0, <1>5 DEF Lock, Goto, data, redis, reading
<1>6. ASSUME NEW p \in Proc, ReadAgain(p)
      PROVE  LockWillBeReleased'
  BY FoundFacts, <1>0, <1>6 DEF ReadAgain, Ready, Forget, Release, Goto, data, redis, history
<1>7. ASSUME NEW p \in Proc, Decode(p)
      PROVE  LockWillBeReleased'
  BY <1>0, <1>7 DEF Decode, Goto, data, redis, reading, local, history
<1>8. ASSUME NEW p \in Proc, Compute(p)
      PROVE  LockWillBeReleased'
  BY <1>0, <1>8 DEF Compute, Goto, data, redis, reading, history
<1>9. ASSUME NEW p \in Proc, Store(p)
      PROVE  LockWillBeReleased'
  BY <1>0, <1>9 DEF Store, Ready, Written, Forget, AfterStore, Goto, data, local, history
<1>10. ASSUME NEW p \in Proc, Unlock(p)
      PROVE  LockWillBeReleased'
  BY <1>0, <1>10 DEF Unlock, Release, Goto, data, redis, reading, history
<1>11. ASSUME NEW p \in Proc, Return(p)
      PROVE  LockWillBeReleased'
  BY <1>0, <1>11 DEF Return, End, Abandon, Goto, data, reading, history
<1>12. ASSUME NEW p \in Proc, Raise(p)
      PROVE  LockWillBeReleased'
  BY <1>0, <1>12 DEF Raise, End, Abandon, Goto, data, reading
<1>13. ASSUME NEW p \in Proc, ReadFails(p)
      PROVE  LockWillBeReleased'
  BY <1>0, <1>13 DEF ReadFails, Abandon, Forget, Goto, data
<1>14. ASSUME NEW p \in Proc, StoreFails(p)
      PROVE  LockWillBeReleased'
  BY <1>0, <1>14 DEF StoreFails, Ready, Written, Forget, AfterStore, Goto, data, local
<1>15. ASSUME NEW p \in Proc, UnlockFails(p)
      PROVE  LockWillBeReleased'
  BY <1>0, <1>15 DEF UnlockFails, Goto, data, redis, reading, local
<1>16. CASE Update
  BY <1>0, <1>16 DEF Update, redis, reading, local, history
<1>17. CASE Invalidate
  <2>1. SUFFICES ASSUME ~disturbed' PROVE LockWillBeReleased'
    BY DEF LockWillBeReleased
  <2>2. Quiet /\ pc' = pc
    BY <2>1, <1>17 DEF Invalidate, Flush
  <2>3. \A q \in Proc : pc'[q] = "idle" /\ hash[q] = Nil /\ seen[q] = Nil /\ lockAt[q] = Nil
    BY <2>2 DEF Quiet
  <2>4. \A q \in Proc : hash'[q] = Nil /\ seen'[q] = Nil /\ lockAt'[q] = Nil
    BY <2>3, <1>17, SupersedeFacts DEF Invalidate, Flush
  <2> QED
    BY <1>0, <2>3, <2>4
<1>18. CASE InvalidateAll
  <2>1. SUFFICES ASSUME ~disturbed' PROVE LockWillBeReleased'
    BY DEF LockWillBeReleased
  <2>2. Quiet /\ pc' = pc
    BY <2>1, <1>18 DEF InvalidateAll, Flush
  <2>3. \A q \in Proc : pc'[q] = "idle" /\ hash[q] = Nil /\ seen[q] = Nil /\ lockAt[q] = Nil
    BY <2>2 DEF Quiet
  <2>4. \A q \in Proc : hash'[q] = Nil /\ seen'[q] = Nil /\ lockAt'[q] = Nil
    BY <2>3, <1>18, SupersedeFacts DEF InvalidateAll, Flush
  <2> QED
    BY <1>0, <2>3, <2>4
<1>19. CASE TagsChange
  BY SupersedeFacts, <1>0, <1>19 DEF TagsChange, data
<1>20. CASE Deploy
  BY <1>0, <1>20 DEF Deploy, Quiet, data, reading, local, history
<1>21. CASE ExpireLock
  BY <1>0, <1>21 DEF ExpireLock, data, reading
<1>22. ASSUME NEW h \in Hash, LoseEntry(h)
      PROVE  LockWillBeReleased'
  BY <1>0, <1>22 DEF LoseEntry, data, reading, local
<1>23. CASE UNCHANGED vars
  BY <1>0, <1>23 DEF vars, data, redis, reading, local, history
<1> QED
  BY <1>1, <1>2, <1>3, <1>4, <1>5, <1>6, <1>7, <1>8, <1>9, <1>10, <1>11, <1>12, <1>13,
  <1>14, <1>15, <1>16, <1>17, <1>18, <1>19, <1>20, <1>21, <1>22, <1>23
     DEF Next, Step, Environment

-----------------------------------------------------------------------------
(* Theorems *)

LEMMA StepIInv == IInv /\ [Next]_vars => IInv'
BY StepTypes, StepLocalsMatch, StepMissingIsUnknown, StepOnlyHome, StepNoStaleValue,
   StepEntryIsLeft, StepLockWillBeReleased
   DEF IInv

(* The invariant behind the other theorems.                                *)
THEOREM Invariance == Spec => []IInv
BY InitIInv, StepIInv, PTL DEF Spec

(* Every variable keeps its type, whatever the arguments of the decorator; *)
(* a bypassed cache is neither written nor unlocked, and no call returns a *)
(* hit while it has the lock (the exception of service.py:25).             *)
THEOREM TypeCorrectness == Spec => []TypeOK
<1>1. IInv => TypeOK
  BY DEF IInv
<1> QED
  BY <1>1, Invariance, PTL

(* Tags and invalidations given as something that can be iterated over     *)
(* again: invalidate() of lib.py leaves no older entry within reach, but   *)
(* for one whose computation it fell behind.                               *)
THEOREM InvalidationIsReliable == Spec => []InvalidationReaches
<1>1. IInv => InvalidationReaches
  BY DEF IInv, NoStaleValue, InvalidationReaches
<1> QED
  BY <1>1, Invariance, PTL

(* A call that had the use of the cache leaves an entry that the next call *)
(* finds and can read, as long as nothing fails or is invalidated, nobody  *)
(* waits for the lock in vain, and no call overwrites a tag that another   *)
(* has created (redis.py:77-81); even if it came across an entry that      *)
(* could not be read, and whether tags are named twice or not.             *)
THEOREM CacheCaches == Spec => []CallLeavesEntry
<1>1. IInv => CallLeavesEntry
  BY DEF IInv, EntryIsLeft, CallLeavesEntry
<1> QED
  BY <1>1, Invariance, PTL

(* Under the same conditions no call that returns leaves a lock behind,    *)
(* within reach or not, if its key is not empty (decorator.py:168) and no  *)
(* tag is named twice.                                                     *)
THEOREM NoLockLeftBehind == Spec => []LocksReleased
<1>1. IInv => LocksReleased
  BY DEF IInv, LockWillBeReleased, LocksReleased
<1> QED
  BY <1>1, Invariance, PTL
=============================================================================
