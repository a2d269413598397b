-------------------------- MODULE LocalCacheProofs --------------------------
(* Proofs about LocalCache, for every set of threads, keys, tags, writes   *)
(* and random values.  The argument is that of TaggedCacheProofs, made     *)
(* for calls that read their tags one at a time: what counts is the hash   *)
(* that a call is going to have, unless one of its tags moves on.          *)
EXTENDS LocalCache, WellFoundedInduction, TLAPS

-----------------------------------------------------------------------------
(* The inductive invariant *)

(* The values that c has read, and those that it would read now.           *)
Seen(c) == [t \in AllTag |-> IF vals[c][t] = Nil THEN tags[t] ELSE vals[c][t]]

Expected(c) == Hash(Seen(c), call[c].tags)

(* Forget, ReadTag: between two calls a thread has read nothing, and a tag *)
(* that was found missing is one that the call has yet to read.            *)
ReadsMatch ==
  \A c \in Thread :
    /\ ~InCall(c) => vals[c] = NoVals
    /\ absent[c] # Nil => InCall(c) /\ absent[c] \in Unread(c)

(* A set() that is under way carries a write that no other call carries    *)
(* and that has not returned yet.                                          *)
WritesInFlight ==
  \A c \in Thread : call[c].kind = "set" =>
    /\ call[c].key \in Key
    /\ call[c].write \in started \ completed
    /\ call[c].write.key = call[c].key
    /\ call[c].write.tags = call[c].tags
    /\ \A d \in Thread \ {c} : call[d].kind = "set" => call[d].write # call[c].write

(* What a call has noted about the past is about completed writes; for a   *)
(* set() or a delete(), of its own key and tags.                           *)
PastIsPast ==
  \A c \in Thread :
    /\ call[c].past \subseteq completed
    /\ call[c].kind \in {"set", "delete"} =>
         \A w \in call[c].past : w.key = call[c].key /\ w.tags = call[c].tags

(* An entry is stored under the key of its write.                          *)
EntriesKeepTheirWrite ==
  \A e \in data : e.write \in started /\ e.write.key = e.key

(* Every value was drawn for one tag, and the values in the hash of an     *)
(* entry for exactly the tags of its write: from an equal hash follow      *)
(* equal tags (StorageGet).                                                *)
ValuesAreOwned ==
  \E owner \in [Rand -> AllTag] :
    /\ \A t \in AllTag : tags[t] # Nil => owner[tags[t]] = t
    /\ \A c \in Thread, t \in AllTag : vals[c][t] # Nil => owner[vals[c][t]] = t
    /\ \A e \in data : {owner[r] : r \in e.hash} = FullTags(e.write.tags)

(* InvalidateTag, StorageSet, StorageDelete: what they supersede is out of *)
(* reach, for good (NeverReachableAgain).                                  *)
SupersededOutOfReach ==
  \A e \in data : e.write \in superseded => ~Reachable(e)

(* GetBytes, ReadTag, CreateTag: a get() is never going to have the hash   *)
(* of an entry that was superseded when it began.                          *)
GetsAvoidThePast ==
  \A c \in Thread : call[c].kind = "get" =>
    \A e \in data : e.write \in call[c].past => e.hash # Expected(c)

(* SetBytes, Delete, ReadTag, CreateTag: an earlier entry that is still    *)
(* within reach is the very one that the set() or delete() is going to     *)
(* replace.                                                                *)
OverwritesHitThePast ==
  \A c \in Thread : call[c].kind \in {"set", "delete"} =>
    \A e \in data : e.write \in call[c].past /\ Reachable(e) => e.hash = Expected(c)

IInv ==
  /\ TypeOK
  /\ ReadsMatch
  /\ WritesInFlight
  /\ PastIsPast
  /\ EntriesKeepTheirWrite
  /\ ValuesAreOwned
  /\ SupersededOutOfReach
  /\ GetsAvoidThePast
  /\ OverwritesHitThePast

-----------------------------------------------------------------------------
(* Types *)

(* What is in use.                                                         *)
LEMMA ValuesInUse ==
  ASSUME TypeOK
  PROVE  /\ \A t \in AllTag : tags[t] \in InUse
         /\ \A c \in Thread, t \in AllTag : vals[c][t] \in InUse
         /\ \A e \in data : e.hash \subseteq InUse
<1>1. \A t \in AllTag : tags[t] \in InUse
  BY DEF InUse
<1>2. \A c \in Thread, t \in AllTag : vals[c][t] \in InUse
  BY DEF InUse
<1>3. \A e \in data : e.hash \subseteq InUse
  BY DEF InUse
<1> QED
  BY <1>1, <1>2, <1>3

LEMMA EntryTypes ==
  ASSUME TypeOK, NEW e \in data
  PROVE  /\ e.hash \subseteq Rand
         /\ e.write \in Contract!Write
         /\ e.write.tags \in SUBSET Tag
         /\ FullTags(e.write.tags) \subseteq AllTag
BY DEF TypeOK, Entry, Contract!Write, FullTags, AllTag

LEMMA CallTags ==
  ASSUME TypeOK, NEW c \in Thread
  PROVE  /\ call[c].tags \in SUBSET Tag
         /\ FullTags(call[c].tags) \subseteq AllTag
         /\ Unread(c) \subseteq AllTag
BY DEF TypeOK, Contract!ContractTypeOK, Contract!Call, FullTags, AllTag, Unread

(* sorted() has a first element.                                           *)
LEMMA FirstIsIn ==
  ASSUME NEW T \in SUBSET AllTag, T # {}
  PROVE  First(T) \in T
<1> DEFINE R == {Rank[t] : t \in T}
<1>1. R \in SUBSET Nat /\ R # {}
  BY RankAssumption DEF AllTag
<1>2. PICK n \in R : \A m \in R : n <= m
  <2> DEFINE Less == {s \in Nat \X Nat : s[1] < s[2]}
  <2>1. IsWellFoundedOn(Less, Nat)
    BY NatLessThanWellFounded DEF OpToRel
  <2>2. \E n \in R : \A m \in R : <<m, n>> \notin Less
    <3> HIDE DEF Less
    <3> QED
      BY <1>1, <2>1, WFMin
  <2>3. \A m, n \in Nat : <<m, n>> \notin Less => n <= m
    OBVIOUS
  <2> HIDE DEF Less, R
  <2> QED
    BY <1>1, <2>2, <2>3
<1>3. PICK t \in T : Rank[t] = n
  BY <1>2
<1>4. \A s \in T : Rank[t] <= Rank[s]
  BY <1>2, <1>3
<1> QED
  BY <1>4 DEF First

(* The tag that a call reads first, and next.                              *)
LEMMA FirstTags ==
  ASSUME TypeOK
  PROVE  /\ \A T \in TagSets : First(FullTags(T)) \in FullTags(T) /\ FullTags(T) \subseteq AllTag
         /\ \A c \in Thread : Unread(c) # {} => First(Unread(c)) \in Unread(c)
<1>1. \A T \in TagSets : FullTags(T) \in SUBSET AllTag /\ FullTags(T) # {}
  BY TagsAssumption DEF FullTags, AllTag
<1> QED
  BY <1>1, FirstIsIn, CallTags

LEMMA LookEffect ==
  ASSUME TypeOK, NEW c \in Thread, NEW t \in AllTag, Look(c, t)
  PROVE  /\ vals' \in [Thread -> [AllTag -> Rand \cup {Nil}]]
         /\ absent' \in [Thread -> AllTag \cup {Nil}]
         /\ \A s \in AllTag : vals'[c][s] = IF s = t THEN tags[t] ELSE vals[c][s]
         /\ absent'[c] = IF tags[t] = Nil THEN t ELSE Nil
         /\ \A d \in Thread \ {c} : vals'[d] = vals[d] /\ absent'[d] = absent[d]
         /\ UNCHANGED <<tags, data, pending>>
BY DEF Look, TypeOK

LEMMA CallHashType ==
  ASSUME TypeOK, NEW c \in Thread, HasHash(c)
  PROVE  /\ CallHash(c) \in SUBSET Rand
         /\ Expected(c) = CallHash(c)
<1>1. \A t \in FullTags(call[c].tags) : t \in AllTag /\ vals[c][t] \in Rand
  BY CallTags DEF HasHash, Unread, TypeOK
<1>2. \A t \in FullTags(call[c].tags) : Seen(c)[t] = vals[c][t]
  BY <1>1, NamesAssumption DEF Seen
<1> QED
  BY <1>1, <1>2 DEF CallHash, Expected, Hash

(* The entry that a set() is about to store.                               *)
NewEntry(c) == [key |-> call[c].key, hash |-> CallHash(c), write |-> call[c].write]

LEMMA NewEntryType ==
  ASSUME TypeOK, WritesInFlight, NEW c \in Thread, call[c].kind = "set", HasHash(c)
  PROVE  NewEntry(c) \in Entry
<1>1. call[c].key \in Key /\ call[c].write \in Contract!Write
  BY DEF WritesInFlight, TypeOK, Contract!ContractTypeOK
<1> QED
  BY <1>1, CallHashType DEF NewEntry, Entry

-----------------------------------------------------------------------------
(* What a step does *)

Begins(c) ==
  \E k \in Key, T \in TagSets : SetBytes(c, k, T) \/ GetBytes(c, k, T) \/ Delete(c, k, T)

Stores(c) == StorageSet(c) \/ StorageDelete(c) \/ StorageGet(c)

(* The beginning of a call: it has looked at one of its tags.              *)
LEMMA BeginEffect ==
  ASSUME TypeOK, NEW c \in Thread, Begins(c)
  PROVE  /\ call[c].kind = "idle" /\ InCall(c)'
         /\ \E t \in FullTags(call'[c].tags) : t \in AllTag /\ Look(c, t)
         /\ \A d \in Thread \ {c} : call'[d] = call[d]
         /\ started \subseteq started' /\ UNCHANGED <<completed, superseded>>
<1>1. PICK k \in Key, T \in TagSets : SetBytes(c, k, T) \/ GetBytes(c, k, T) \/ Delete(c, k, T)
  BY DEF Begins
<1>2. First(FullTags(T)) \in FullTags(T) /\ FullTags(T) \subseteq AllTag
  BY FirstTags
<1> USE DEF TypeOK, Contract!ContractTypeOK
<1>3. CASE SetBytes(c, k, T)
  BY <1>2, <1>3 DEF SetBytes, Contract!BeginSet, InCall
<1>4. CASE GetBytes(c, k, T)
  BY <1>2, <1>4 DEF GetBytes, Contract!BeginGet, InCall
<1>5. CASE Delete(c, k, T)
  BY <1>2, <1>5 DEF Delete, Contract!BeginDelete, InCall
<1> QED
  BY <1>1, <1>3, <1>4, <1>5

(* The end of a call, or a hit on its way to the caller.                   *)
LEMMA StoresEffect ==
  ASSUME TypeOK, NEW c \in Thread, Stores(c)
  PROVE  /\ HasHash(c)
         /\ call'[c].kind \in {"idle", "hit"} /\ call'[c].past \subseteq call[c].past
         /\ \A d \in Thread \ {c} : call'[d] = call[d]
         /\ started' = started
         /\ Forget(c)
<1> USE DEF TypeOK, Contract!ContractTypeOK, Contract!Idle
<1>1. CASE StorageSet(c)
  BY <1>1 DEF StorageSet, Contract!FinishSet
<1>2. CASE StorageDelete(c)
  BY <1>2 DEF StorageDelete, Contract!FinishDelete
<1>3. CASE StorageGet(c)
  <2>1. HasHash(c) /\ Forget(c)
    BY <1>3 DEF StorageGet
  <2>2. CASE Contract!Drop(c)
    BY <2>1, <2>2 DEF Contract!Drop
  <2>3. ASSUME NEW w, Contract!Answer(c, w)
        PROVE  /\ call'[c].kind \in {"idle", "hit"} /\ call'[c].past \subseteq call[c].past
               /\ \A d \in Thread \ {c} : call'[d] = call[d]
               /\ started' = started
    BY <2>3 DEF Contract!Answer, Contract!Call
  <2> QED
    BY <1>3, <2>1, <2>2, <2>3 DEF StorageGet
<1> QED
  BY <1>1, <1>2, <1>3 DEF Stores

(* The steps within a call: one tag is read or created.                    *)
LEMMA ReadEffect ==
  ASSUME TypeOK, ReadsMatch, NEW c \in Thread, ReadTag(c) \/ CreateTag(c)
  PROVE  /\ InCall(c) /\ UNCHANGED <<call, started, completed, superseded, data>>
         /\ \E t \in Unread(c) :
              /\ t \in AllTag
              /\ \/ Look(c, t)
                 \/ /\ absent' = [absent EXCEPT ![c] = Nil]
                    /\ UNCHANGED pending
                    /\ \E r \in Fresh :
                         /\ tags' = [tags EXCEPT ![t] = r]
                         /\ vals' = [vals EXCEPT ![c][t] = r]
<1>1. CASE ReadTag(c)
  <2>1. First(Unread(c)) \in Unread(c) /\ Unread(c) \subseteq AllTag
    BY <1>1, FirstTags, CallTags DEF ReadTag
  <2> QED
    BY <1>1, <2>1 DEF ReadTag, Look
<1>2. CASE CreateTag(c)
  <2>1. InCall(c) /\ absent[c] \in Unread(c) /\ absent[c] \in AllTag
    BY <1>2, CallTags DEF CreateTag, ReadsMatch
  <2> QED
    BY <1>2, <2>1 DEF CreateTag
<1> QED
  BY <1>1, <1>2

(* Tags are never lost: a value gives way only to one that nothing has.    *)
TagsMoveOn == \A t \in AllTag : tags'[t] = tags[t] \/ tags'[t] \in Rand \ InUse

LEMMA StepMovesTagsOn ==
  ASSUME TypeOK, ReadsMatch, [Next]_vars
  PROVE  TagsMoveOn /\ tags' \in [AllTag -> Rand \cup {Nil}]
<1> DEFINE P == TagsMoveOn /\ tags' \in [AllTag -> Rand \cup {Nil}]
<1>1. CASE UNCHANGED tags
  BY <1>1 DEF TagsMoveOn, TypeOK
<1>2. ASSUME NEW t \in AllTag, NEW r \in Fresh, tags' = [tags EXCEPT ![t] = r]
      PROVE  P
  BY <1>2 DEF TagsMoveOn, TypeOK, Fresh
<1>3. ASSUME NEW c \in Thread, ReadTag(c) \/ CreateTag(c)
      PROVE  P
  BY <1>1, <1>2, <1>3, ReadEffect DEF Look
<1>4. ASSUME NEW c \in Thread, Begins(c)
      PROVE  P
  BY <1>1, <1>4, BeginEffect DEF Look
<1>5. ASSUME NEW c \in Thread, Stores(c)
      PROVE  P
  BY <1>1, <1>5, StoresEffect DEF Forget
<1>6. ASSUME NEW c \in Thread, ReturnHit(c)
      PROVE  P
  BY <1>1, <1>6 DEF ReturnHit, cacheVars
<1>7. ASSUME NEW t \in AllTag, InvalidateTag(t)
      PROVE  P
  BY <1>2, <1>7 DEF InvalidateTag
<1>8. ASSUME NEW T \in SUBSET AllTag, BeginInvalidate(T)
      PROVE  P
  BY <1>1, <1>8 DEF BeginInvalidate
<1>9. ASSUME NEW e \in data, Expire(e)
      PROVE  P
  BY <1>1, <1>9 DEF Expire
<1>10. CASE UNCHANGED vars
  BY <1>1, <1>10 DEF vars, cacheVars
<1> QED
  BY <1>3, <1>4, <1>5, <1>6, <1>7, <1>8, <1>9, <1>10
     DEF Next, ThreadStep, Invalidation, Begins, Stores

(* What a step may do to the call of c.                                    *)
GoesOn(c) ==
  /\ call'[c] = call[c]
  /\ \A t \in AllTag :
       \/ vals'[c][t] = vals[c][t]
       \/ vals[c][t] = Nil /\ vals'[c][t] = tags[t] /\ tags'[t] = tags[t]
       \/ vals[c][t] = Nil /\ vals'[c][t] = tags'[t] /\ tags'[t] \in Rand \ InUse

LEMMA CallEffect ==
  ASSUME TypeOK, ReadsMatch, [Next]_vars, NEW c \in Thread
  PROVE  \/ GoesOn(c)
         \/ Begins(c)
         \/ call'[c].kind \in {"idle", "hit"} /\ call'[c].past \subseteq call[c].past
<1>1. CASE call'[c] = call[c] /\ vals'[c] = vals[c]
  BY <1>1 DEF GoesOn
<1>2. ASSUME NEW d \in Thread, Begins(d)
      PROVE  d = c \/ (call'[c] = call[c] /\ vals'[c] = vals[c])
  BY <1>2, BeginEffect, LookEffect
<1>3. ASSUME NEW d \in Thread, Stores(d)
      PROVE  \/ call'[c] = call[c] /\ vals'[c] = vals[c]
             \/ call'[c].kind \in {"idle", "hit"} /\ call'[c].past \subseteq call[c].past
  BY <1>3, StoresEffect DEF Forget, TypeOK
<1>4. ASSUME NEW d \in Thread, ReadTag(d) \/ CreateTag(d)
      PROVE  GoesOn(c)
  <2>1. PICK t \in Unread(d) :
          /\ t \in AllTag
          /\ \/ Look(d, t)
             \/ \E r \in Fresh : /\ tags' = [tags EXCEPT ![t] = r]
                                 /\ vals' = [vals EXCEPT ![d][t] = r]
    BY <1>4, ReadEffect
  <2>2. call' = call /\ vals[d][t] = Nil
    BY <1>4, ReadEffect DEF Unread
  <2>3. CASE Look(d, t)
    BY <2>1, <2>2, <2>3, LookEffect DEF GoesOn
  <2>4. ASSUME NEW r \in Fresh, tags' = [tags EXCEPT ![t] = r], vals' = [vals EXCEPT ![d][t] = r]
        PROVE  GoesOn(c)
    BY <2>1, <2>2, <2>4 DEF GoesOn, TypeOK, Fresh
  <2> QED
    BY <2>1, <2>3, <2>4
<1>5. ASSUME NEW d \in Thread, ReturnHit(d)
      PROVE  \/ call'[c] = call[c] /\ vals'[c] = vals[c]
             \/ call'[c].kind \in {"idle", "hit"} /\ call'[c].past \subseteq call[c].past
  BY <1>5 DEF ReturnHit, Contract!Drop, Contract!Idle, cacheVars, TypeOK,
              Contract!ContractTypeOK
<1>6. CASE Invalidation
  BY <1>1, <1>6 DEF Invalidation, BeginInvalidate, InvalidateTag, Contract!Supersede
<1>7. ASSUME NEW e \in data, Expire(e)
      PROVE  call'[c] = call[c] /\ vals'[c] = vals[c]
  BY <1>7 DEF Expire
<1>8. CASE UNCHANGED vars
  BY <1>1, <1>8 DEF vars, cacheVars
<1> QED
  BY <1>1, <1>2, <1>3, <1>4, <1>5, <1>6, <1>7, <1>8 DEF Next, ThreadStep, Begins, Stores

(* An entry comes from a set() that returns.                               *)
LEMMA DataEffect ==
  ASSUME TypeOK, ReadsMatch, [Next]_vars, NEW e \in data'
  PROVE  e \in data \/ \E c \in Thread : StorageSet(c) /\ e = NewEntry(c)
<1>1. ASSUME NEW c \in Thread, StorageSet(c)
      PROVE  e \in data \/ e = NewEntry(c)
  BY <1>1 DEF StorageSet, Others, NewEntry
<1>2. ASSUME NEW c \in Thread, StorageDelete(c) \/ StorageGet(c)
      PROVE  e \in data
  BY <1>2 DEF StorageDelete, StorageGet, Others
<1>3. ASSUME NEW c \in Thread, Begins(c)
      PROVE  e \in data
  BY <1>3, BeginEffect DEF Look
<1>4. ASSUME NEW c \in Thread, ReadTag(c) \/ CreateTag(c)
      PROVE  e \in data
  BY <1>4, ReadEffect
<1>5. ASSUME NEW c \in Thread, ReturnHit(c)
      PROVE  e \in data
  BY <1>5 DEF ReturnHit, cacheVars
<1>6. CASE Invalidation
  BY <1>6 DEF Invalidation, BeginInvalidate, InvalidateTag
<1>7. CASE \E x \in data : Expire(x)
  BY <1>7 DEF Expire
<1>8. CASE UNCHANGED vars
  BY <1>8 DEF vars, cacheVars
<1> QED
  BY <1>1, <1>2, <1>3, <1>4, <1>5, <1>6, <1>7, <1>8 DEF Next, ThreadStep, Begins

(* Writes are never forgotten; only a set() that stores completes one.     *)
LEMMA WritesEffect ==
  ASSUME TypeOK, ReadsMatch, [Next]_vars
  PROVE  /\ started \subseteq started'
         /\ completed \subseteq completed'
         /\ \A w \in completed' : \/ w \in completed
                                  \/ \E c \in Thread : StorageSet(c) /\ w = call[c].write
<1>1. CASE UNCHANGED <<started, completed>>
  BY <1>1
<1>2. ASSUME NEW c \in Thread, Begins(c)
      PROVE  started \subseteq started' /\ completed' = completed
  BY <1>2, BeginEffect
<1>3. ASSUME NEW c \in Thread, StorageSet(c)
      PROVE  started' = started /\ completed' = completed \cup {call[c].write}
  BY <1>3 DEF StorageSet, Contract!FinishSet
<1>4. ASSUME NEW c \in Thread, StorageDelete(c) \/ StorageGet(c) \/ ReturnHit(c)
      PROVE  UNCHANGED <<started, completed>>
  BY <1>4 DEF StorageDelete, StorageGet, ReturnHit, Contract!FinishDelete, Contract!Drop,
              Contract!Answer
<1>5. ASSUME NEW c \in Thread, ReadTag(c) \/ CreateTag(c)
      PROVE  UNCHANGED <<started, completed>>
  BY <1>5, ReadEffect
<1>6. CASE Invalidation
  BY <1>1, <1>6 DEF Invalidation, BeginInvalidate, InvalidateTag, Contract!Supersede
<1>7. CASE \E e \in data : Expire(e)
  BY <1>1, <1>7 DEF Expire
<1>8. CASE UNCHANGED vars
  BY <1>1, <1>8 DEF vars
<1> QED
  BY <1>1, <1>2, <1>3, <1>4, <1>5, <1>6, <1>7, <1>8 DEF Next, ThreadStep, Begins

(* The ways to supersede a write.                                          *)
LEMMA SupersededEffect ==
  ASSUME TypeOK, ReadsMatch, [Next]_vars, NEW w \in superseded'
  PROVE  \/ w \in superseded
         \/ \E c \in Thread : (StorageSet(c) \/ StorageDelete(c)) /\ w \in call[c].past
         \/ \E t \in AllTag :
              InvalidateTag(t) /\ w \in completed /\ t \in FullTags(w.tags)
<1>1. CASE UNCHANGED superseded
  BY <1>1
<1>2. ASSUME NEW c \in Thread, StorageSet(c) \/ StorageDelete(c)
      PROVE  superseded' = superseded \cup call[c].past
  BY <1>2 DEF StorageSet, StorageDelete, Contract!FinishSet, Contract!FinishDelete
<1>3. ASSUME NEW c \in Thread, Begins(c) \/ ReadTag(c) \/ CreateTag(c)
      PROVE  UNCHANGED superseded
  BY <1>3, BeginEffect, ReadEffect
<1>4. ASSUME NEW c \in Thread, StorageGet(c) \/ ReturnHit(c)
      PROVE  UNCHANGED superseded
  BY <1>4 DEF StorageGet, ReturnHit, Contract!Drop, Contract!Answer
<1>5. ASSUME NEW t \in AllTag, InvalidateTag(t)
      PROVE  w \in superseded \/ (w \in completed /\ t \in FullTags(w.tags))
  BY <1>5 DEF InvalidateTag, Contract!Supersede, Contract!Tagged, FullTags
<1>6. CASE Invalidation
  BY <1>1, <1>5, <1>6 DEF Invalidation, BeginInvalidate
<1>7. CASE \E e \in data : Expire(e)
  BY <1>1, <1>7 DEF Expire
<1>8. CASE UNCHANGED vars
  BY <1>1, <1>8 DEF vars
<1> QED
  BY <1>1, <1>2, <1>3, <1>4, <1>6, <1>7, <1>8 DEF Next, ThreadStep, Begins

-----------------------------------------------------------------------------
(* Hashes *)

LEMMA FullTagsInjective ==
  ASSUME NEW S \in SUBSET Tag, NEW T \in SUBSET Tag, FullTags(S) = FullTags(T)
  PROVE  S = T
BY NamesAssumption DEF FullTags

(* From an equal hash follow equal tags.                                   *)
LEMMA SameHashSameTags ==
  ASSUME TypeOK, ValuesAreOwned, NEW c \in Thread, NEW T \in SUBSET Tag, NEW e \in data,
         e.hash = Hash(tags, T) \/ (e.hash = CallHash(c) /\ HasHash(c) /\ T = call[c].tags)
  PROVE  e.write.tags = T
<1>1. PICK owner \in [Rand -> AllTag] :
        /\ \A t \in AllTag : tags[t] # Nil => owner[tags[t]] = t
        /\ \A d \in Thread, t \in AllTag : vals[d][t] # Nil => owner[vals[d][t]] = t
        /\ \A x \in data : {owner[r] : r \in x.hash} = FullTags(x.write.tags)
  BY DEF ValuesAreOwned
<1>2. FullTags(T) \subseteq AllTag /\ e.hash \subseteq Rand
  BY EntryTypes DEF FullTags, AllTag
<1>3. {owner[r] : r \in e.hash} = FullTags(T)
  <2>1. CASE e.hash = Hash(tags, T)
    <3>1. \A t \in FullTags(T) : owner[tags[t]] = t
      BY <1>1, <1>2, <2>1, NamesAssumption DEF Hash
    <3> QED
      BY <2>1, <3>1 DEF Hash
  <2>2. CASE e.hash = CallHash(c) /\ HasHash(c) /\ T = call[c].tags
    <3>1. \A t \in FullTags(T) : owner[vals[c][t]] = t
      BY <1>1, <1>2, <2>2 DEF HasHash, Unread
    <3> QED
      BY <2>2, <3>1 DEF CallHash, Hash
  <2> QED
    BY <2>1, <2>2
<1>4. FullTags(e.write.tags) = FullTags(T)
  BY <1>1, <1>3
<1> QED
  BY <1>4, EntryTypes, FullTagsInjective

(* No entry gets a hash back when values give way to fresh ones.           *)
LEMMA HashMovesOn ==
  ASSUME TypeOK, NEW e \in data, NEW T \in SUBSET Tag, NEW f, NEW g,
         \A t \in FullTags(T) : g[t] = f[t] \/ g[t] \in Rand \ InUse,
         e.hash = Hash(g, T)
  PROVE  /\ \A t \in FullTags(T) : g[t] = f[t]
         /\ e.hash = Hash(f, T)
<1>1. e.hash \subseteq InUse
  BY ValuesInUse
<1>2. \A t \in FullTags(T) : g[t] = f[t]
  BY <1>1 DEF Hash
<1> QED
  BY <1>2 DEF Hash

LEMMA OutOfReachForGood ==
  ASSUME TypeOK, TagsMoveOn, NEW e \in data, Reachable(e)'
  PROVE  Reachable(e) /\ \A t \in FullTags(e.write.tags) : tags'[t] = tags[t]
<1>1. e.hash = Hash(tags', e.write.tags)
  BY DEF Reachable
<1>2. \A t \in FullTags(e.write.tags) : tags'[t] = tags[t] \/ tags'[t] \in Rand \ InUse
  BY EntryTypes DEF TagsMoveOn
<1> QED
  BY <1>1, <1>2, HashMovesOn, EntryTypes DEF Reachable

(* A call that begins is going to have the hash of the tags as they are.   *)
LEMMA ExpectedOnBegin ==
  ASSUME TypeOK, ReadsMatch, NEW c \in Thread, Begins(c)
  PROVE  Expected(c)' = Hash(tags, call'[c].tags) /\ UNCHANGED <<tags, data>>
<1>1. PICK t \in FullTags(call'[c].tags) : t \in AllTag /\ Look(c, t)
  BY BeginEffect
<1>2. call[c].kind = "idle" /\ vals[c] = NoVals
  BY BeginEffect DEF ReadsMatch, InCall
<1>3. \A s \in AllTag : vals'[c][s] = IF s = t THEN tags[t] ELSE Nil
  BY <1>1, <1>2, LookEffect DEF NoVals
<1>4. UNCHANGED <<tags, data>>
  BY <1>1 DEF Look
<1>5. Seen(c)' = [s \in AllTag |-> tags[s]]
  BY <1>3, <1>4 DEF Seen
<1>6. tags = [s \in AllTag |-> tags[s]]
  BY DEF TypeOK
<1> QED
  BY <1>4, <1>5, <1>6 DEF Expected

(* What a call is going to have changes only to what no entry has.         *)
LEMMA SeenMovesOn ==
  ASSUME TypeOK, TagsMoveOn, NEW c \in Thread, GoesOn(c)
  PROVE  \A t \in AllTag : /\ Seen(c)'[t] = Seen(c)[t] \/ Seen(c)'[t] \in Rand \ InUse
                           /\ tags'[t] = tags[t] => Seen(c)'[t] = Seen(c)[t]
<1> SUFFICES ASSUME NEW t \in AllTag
             PROVE  /\ Seen(c)'[t] = Seen(c)[t] \/ Seen(c)'[t] \in Rand \ InUse
                    /\ tags'[t] = tags[t] => Seen(c)'[t] = Seen(c)[t]
  OBVIOUS
<1>1. /\ Seen(c)[t] = IF vals[c][t] = Nil THEN tags[t] ELSE vals[c][t]
      /\ Seen(c)'[t] = IF vals'[c][t] = Nil THEN tags'[t] ELSE vals'[c][t]
  BY DEF Seen
<1>2. tags[t] \in InUse
  BY ValuesInUse
<1> QED
  BY <1>1, <1>2 DEF GoesOn, TagsMoveOn

-----------------------------------------------------------------------------
(* Refinement and types *)

(* A get() that finds an entry answers as the contract allows.             *)
LEMMA FoundIsAllowed ==
  ASSUME IInv, NEW c \in Thread, call[c].kind = "get", HasHash(c),
         NEW e \in data \ Others(call[c].key, CallHash(c))
  PROVE  Contract!Allowed(c, e.write)
<1>1. e.key = call[c].key /\ e.hash = CallHash(c)
  BY DEF Others
<1>2. e.write \in started /\ e.write.key = call[c].key
  BY <1>1 DEF IInv, EntriesKeepTheirWrite
<1>3. e.write.tags = call[c].tags
  BY <1>1, SameHashSameTags, CallTags DEF IInv
<1>4. e.write \notin call[c].past
  BY <1>1, CallHashType DEF IInv, GetsAvoidThePast
<1> QED
  BY <1>2, <1>3, <1>4 DEF Contract!Allowed

(* Every step of the threads is a step that CacheContract allows, or is    *)
(* invisible to it.                                                        *)
LEMMA StepImplementsContract ==
  ASSUME IInv, [Next]_vars
  PROVE  [Contract!ContractNext]_(Contract!contractVars)
<1> USE DEF Contract!contractVars
<1>1. ASSUME NEW c \in Thread, Begins(c)
      PROVE  Contract!ContractNext
  <2>1. PICK k \in Key, T \in TagSets : SetBytes(c, k, T) \/ GetBytes(c, k, T) \/ Delete(c, k, T)
    BY <1>1 DEF Begins
  <2>2. T \in SUBSET Tag
    BY TagsAssumption
  <2>3. \A i \in WriteId : [id |-> i, key |-> k, tags |-> T] \in Contract!Write
    BY <2>2 DEF Contract!Write
  <2> QED
    BY <2>1, <2>2, <2>3 DEF SetBytes, GetBytes, Delete, Contract!ContractNext
<1>2. ASSUME NEW c \in Thread, StorageSet(c) \/ StorageDelete(c) \/ ReturnHit(c)
      PROVE  Contract!ContractNext
  BY <1>2 DEF StorageSet, StorageDelete, ReturnHit, Contract!ContractNext
<1>3. ASSUME NEW c \in Thread, StorageGet(c)
      PROVE  Contract!ContractNext
  <2>1. CASE Contract!Drop(c)
    BY <2>1 DEF Contract!ContractNext
  <2>2. ASSUME NEW e \in data \ Others(call[c].key, CallHash(c)), Contract!Answer(c, e.write)
        PROVE  Contract!ContractNext
    <3>1. Contract!Allowed(c, e.write)
      BY <1>3, FoundIsAllowed DEF StorageGet
    <3> QED
      BY <2>2, <3>1 DEF Contract!ContractNext, Contract!Allowed
  <2> QED
    BY <1>3, <2>1, <2>2 DEF StorageGet
<1>4. ASSUME NEW c \in Thread, ReadTag(c) \/ CreateTag(c)
      PROVE  UNCHANGED Contract!contractVars
  BY <1>4 DEF ReadTag, CreateTag
<1>5. ASSUME NEW t \in AllTag, InvalidateTag(t)
      PROVE  Contract!ContractNext
  <2>1. CASE t = All
    BY <1>5, <2>1 DEF InvalidateTag, Contract!ContractNext
  <2>2. CASE t \in Tag
    <3>1. Contract!Supersede(Contract!Tagged({t})) /\ {t} \in SUBSET Tag
      BY <1>5, <2>2, NamesAssumption DEF InvalidateTag
    <3> QED
      BY <3>1 DEF Contract!ContractNext
  <2> QED
    BY <2>1, <2>2 DEF AllTag
<1>6. CASE Invalidation
  BY <1>5, <1>6 DEF Invalidation, BeginInvalidate
<1>7. CASE \E e \in data : Expire(e)
  BY <1>7 DEF Expire
<1>8. CASE UNCHANGED vars
  BY <1>8 DEF vars
<1> QED
  BY <1>1, <1>2, <1>3, <1>4, <1>6, <1>7, <1>8 DEF Next, ThreadStep, Begins

(* The promises keep their types.                                          *)
LEMMA ContractTypes ==
  ASSUME Contract!ContractTypeOK, WritesInFlight, PastIsPast,
         [Contract!ContractNext]_(Contract!contractVars)
  PROVE  Contract!ContractTypeOK'
<1> USE DEF Contract!ContractTypeOK
<1>1. CASE UNCHANGED Contract!contractVars
  BY <1>1 DEF Contract!contractVars
<1>2. ASSUME NEW c \in Thread, NEW w \in Contract!Write, Contract!BeginSet(c, w)
      PROVE  Contract!ContractTypeOK'
  <2>1. [kind |-> "set", key |-> w.key, tags |-> w.tags, write |-> w,
         past |-> Contract!SameEntry(w.key, w.tags)] \in Contract!Call
    BY DEF Contract!Call, Contract!Kind, Contract!Write, Contract!SameEntry
  <2> QED
    BY <1>2, <2>1 DEF Contract!BeginSet
<1>3. ASSUME NEW c \in Thread, NEW k \in Key, NEW T \in SUBSET Tag, Contract!BeginGet(c, k, T)
      PROVE  Contract!ContractTypeOK'
  <2>1. [kind |-> "get", key |-> k, tags |-> T, write |-> None,
         past |-> superseded] \in Contract!Call
    BY DEF Contract!Call, Contract!Kind
  <2> QED
    BY <1>3, <2>1 DEF Contract!BeginGet
<1>4. ASSUME NEW c \in Thread, NEW k \in Key, NEW T \in SUBSET Tag, Contract!BeginDelete(c, k, T)
      PROVE  Contract!ContractTypeOK'
  <2>1. [kind |-> "delete", key |-> k, tags |-> T, write |-> None,
         past |-> Contract!SameEntry(k, T)] \in Contract!Call
    BY DEF Contract!Call, Contract!Kind, Contract!SameEntry
  <2> QED
    BY <1>4, <2>1 DEF Contract!BeginDelete
<1>5. Contract!Idle \in Contract!Call
  BY DEF Contract!Idle, Contract!Call, Contract!Kind
<1>6. ASSUME NEW c \in Thread, Contract!FinishSet(c)
      PROVE  Contract!ContractTypeOK'
  BY <1>5, <1>6 DEF Contract!FinishSet, Contract!Call, WritesInFlight, PastIsPast
<1>7. ASSUME NEW c \in Thread, Contract!FinishDelete(c)
      PROVE  Contract!ContractTypeOK'
  BY <1>5, <1>7 DEF Contract!FinishDelete, Contract!Call, PastIsPast
<1>8. ASSUME NEW c \in Thread, NEW w \in started, Contract!Allowed(c, w), Contract!Answer(c, w)
      PROVE  Contract!ContractTypeOK'
  <2>1. [call[c] EXCEPT !.kind = "hit", !.write = w] \in Contract!Call
    BY DEF Contract!Call, Contract!Kind
  <2> QED
    BY <1>8, <2>1 DEF Contract!Answer
<1>9. ASSUME NEW c \in Thread, Contract!Drop(c)
      PROVE  Contract!ContractTypeOK'
  BY <1>5, <1>9 DEF Contract!Drop
<1>10. ASSUME NEW W \in SUBSET completed, Contract!Supersede(W)
       PROVE  Contract!ContractTypeOK'
  BY <1>10 DEF Contract!Supersede
<1> QED
  BY <1>1, <1>2, <1>3, <1>4, <1>6, <1>7, <1>8, <1>9, <1>10
     DEF Contract!ContractNext, Contract!Tagged

LEMMA StepTypes ==
  ASSUME IInv, [Next]_vars
  PROVE  TypeOK'
<1> DEFINE VA == /\ vals' \in [Thread -> [AllTag -> Rand \cup {Nil}]]
                 /\ absent' \in [Thread -> AllTag \cup {Nil}]
<1>1. Contract!ContractTypeOK'
  BY StepImplementsContract, ContractTypes DEF IInv, TypeOK
<1>2. tags' \in [AllTag -> Rand \cup {Nil}]
  BY StepMovesTagsOn DEF IInv
<1>3. data' \subseteq Entry
  <2> SUFFICES ASSUME NEW e \in data' PROVE e \in Entry
    OBVIOUS
  <2>1. \A c \in Thread : StorageSet(c) => NewEntry(c) \in Entry
    BY NewEntryType DEF StorageSet, IInv
  <2> QED
    BY <2>1, DataEffect DEF IInv, TypeOK
<1>4. VA /\ pending' \subseteq AllTag
  <2>1. CASE UNCHANGED <<vals, absent>> /\ pending' \subseteq AllTag
    BY <2>1 DEF IInv, TypeOK
  <2>2. ASSUME NEW c \in Thread, NEW t \in AllTag, Look(c, t)
        PROVE  VA /\ pending' \subseteq AllTag
    BY <2>2, LookEffect DEF IInv, TypeOK
  <2>3. ASSUME NEW c \in Thread, Begins(c)
        PROVE  VA /\ pending' \subseteq AllTag
    BY <2>2, <2>3, BeginEffect DEF IInv
  <2>4. ASSUME NEW c \in Thread, ReadTag(c) \/ CreateTag(c)
        PROVE  VA /\ pending' \subseteq AllTag
    <3>1. PICK t \in Unread(c) :
            /\ t \in AllTag
            /\ \/ Look(c, t)
               \/ /\ absent' = [absent EXCEPT ![c] = Nil]
                  /\ UNCHANGED pending
                  /\ \E r \in Fresh : vals' = [vals EXCEPT ![c][t] = r]
      BY <2>4, ReadEffect DEF IInv
    <3>2. CASE Look(c, t)
      BY <2>2, <3>1, <3>2
    <3>3. ASSUME NEW r \in Fresh, vals' = [vals EXCEPT ![c][t] = r],
                 absent' = [absent EXCEPT ![c] = Nil], UNCHANGED pending
          PROVE  VA /\ pending' \subseteq AllTag
      BY <3>1, <3>3 DEF IInv, TypeOK, Fresh
    <3> QED
      BY <3>1, <3>2, <3>3
  <2>5. ASSUME NEW c \in Thread, Stores(c)
        PROVE  VA /\ pending' \subseteq AllTag
    <3>1. NoVals \in [AllTag -> Rand \cup {Nil}]
      BY DEF NoVals
    <3> QED
      BY <2>5, <3>1, StoresEffect DEF Forget, IInv, TypeOK
  <2>6. CASE Invalidation
    BY <2>1, <2>6 DEF Invalidation, BeginInvalidate, InvalidateTag, IInv, TypeOK
  <2>7. ASSUME NEW c \in Thread, ReturnHit(c)
        PROVE  VA /\ pending' \subseteq AllTag
    BY <2>1, <2>7 DEF ReturnHit, cacheVars, IInv, TypeOK
  <2>8. CASE \E e \in data : Expire(e)
    BY <2>1, <2>8 DEF Expire, IInv, TypeOK
  <2>9. CASE UNCHANGED vars
    BY <2>1, <2>9 DEF vars, cacheVars, IInv, TypeOK
  <2> QED
    BY <2>3, <2>4, <2>5, <2>6, <2>7, <2>8, <2>9 DEF Next, ThreadStep, Begins, Stores
<1> QED
  BY <1>1, <1>2, <1>3, <1>4 DEF TypeOK

LEMMA StepReadsMatch ==
  ASSUME IInv, [Next]_vars
  PROVE  ReadsMatch'
<1> SUFFICES ASSUME NEW c \in Thread
             PROVE  /\ ~InCall(c)' => vals'[c] = NoVals
                    /\ absent'[c] # Nil => InCall(c)' /\ absent'[c] \in Unread(c)'
  BY DEF ReadsMatch
<1> DEFINE Fine == /\ ~InCall(c)' => vals'[c] = NoVals
                   /\ absent'[c] # Nil => InCall(c)' /\ absent'[c] \in Unread(c)'
<1> USE DEF IInv
<1>1. CASE call'[c] = call[c] /\ vals'[c] = vals[c] /\ absent'[c] = absent[c]
  BY <1>1 DEF ReadsMatch, InCall, Unread
<1>2. ASSUME NEW t \in FullTags(call'[c].tags), t \in AllTag, Look(c, t), InCall(c)'
      PROVE  Fine
  BY <1>2, LookEffect DEF Unread
<1>3. ASSUME NEW d \in Thread, Begins(d)
      PROVE  Fine
  <2>1. PICK t \in FullTags(call'[d].tags) : t \in AllTag /\ Look(d, t)
    BY <1>3, BeginEffect
  <2>2. InCall(d)' /\ (d # c => call'[c] = call[c])
    BY <1>3, BeginEffect
  <2>3. CASE d = c
    BY <1>2, <2>1, <2>2, <2>3
  <2>4. CASE d # c
    BY <1>1, <2>1, <2>2, <2>4, LookEffect
  <2> QED
    BY <2>3, <2>4
<1>4. ASSUME NEW d \in Thread, Stores(d)
      PROVE  Fine
  <2>1. HasHash(d) /\ Forget(d) /\ (d # c => call'[c] = call[c])
    BY <1>4, StoresEffect
  <2>2. absent[d] = Nil
    BY <2>1 DEF ReadsMatch, HasHash
  <2>3. CASE d = c
    BY <2>1, <2>2, <2>3 DEF Forget, TypeOK
  <2>4. CASE d # c
    BY <1>1, <2>1, <2>4 DEF Forget, TypeOK
  <2> QED
    BY <2>3, <2>4
<1>5. ASSUME NEW d \in Thread, ReadTag(d) \/ CreateTag(d)
      PROVE  Fine
  <2>1. PICK t \in Unread(d) :
          /\ t \in AllTag
          /\ \/ Look(d, t)
             \/ /\ absent' = [absent EXCEPT ![d] = Nil]
                /\ \E r \in Fresh : vals' = [vals EXCEPT ![d][t] = r]
    BY <1>5, ReadEffect
  <2>2. call' = call /\ InCall(d)
    BY <1>5, ReadEffect
  <2>3. CASE d = c
    <3>1. InCall(c)' /\ t \in FullTags(call'[c].tags)
      BY <2>1, <2>2, <2>3 DEF InCall, Unread
    <3>2. CASE Look(d, t)
      BY <1>2, <2>1, <2>3, <3>1, <3>2
    <3>3. CASE absent' = [absent EXCEPT ![d] = Nil]
      BY <2>3, <3>1, <3>3 DEF TypeOK
    <3> QED
      BY <2>1, <3>2, <3>3
  <2>4. CASE d # c
    <3>1. CASE Look(d, t)
      BY <1>1, <2>1, <2>2, <2>4, <3>1, LookEffect
    <3>2. ASSUME NEW r \in Fresh, vals' = [vals EXCEPT ![d][t] = r],
                 absent' = [absent EXCEPT ![d] = Nil]
          PROVE  Fine
      BY <1>1, <2>2, <2>4, <3>2 DEF TypeOK
    <3> QED
      BY <2>1, <3>1, <3>2
  <2> QED
    BY <2>3, <2>4
<1>6. ASSUME NEW d \in Thread, ReturnHit(d)
      PROVE  Fine
  <2>1. /\ call[d].kind = "hit" /\ call'[d].kind = "idle" /\ (d # c => call'[c] = call[c])
        /\ UNCHANGED <<vals, absent>>
    BY <1>6 DEF ReturnHit, Contract!Drop, Contract!Idle, cacheVars, TypeOK,
                Contract!ContractTypeOK
  <2>2. ~InCall(d) /\ ~InCall(d)'
    BY <2>1 DEF InCall
  <2> QED
    BY <1>1, <2>1, <2>2 DEF ReadsMatch
<1>7. CASE Invalidation
  BY <1>1, <1>7 DEF Invalidation, BeginInvalidate, InvalidateTag, Contract!Supersede
<1>8. CASE \E e \in data : Expire(e)
  BY <1>1, <1>8 DEF Expire
<1>9. CASE UNCHANGED vars
  BY <1>1, <1>9 DEF vars, cacheVars
<1> QED
  BY <1>3, <1>4, <1>5, <1>6, <1>7, <1>8, <1>9 DEF Next, ThreadStep, Begins, Stores

-----------------------------------------------------------------------------
(* Writes and calls *)

LEMMA StepPastIsPast ==
  ASSUME IInv, [Next]_vars
  PROVE  PastIsPast'
<1> SUFFICES ASSUME NEW c \in Thread
             PROVE  /\ call'[c].past \subseteq completed'
                    /\ call'[c].kind \in {"set", "delete"} =>
                         \A w \in call'[c].past : w.key = call'[c].key /\ w.tags = call'[c].tags
  BY DEF PastIsPast
<1> USE DEF IInv
<1>1. CASE GoesOn(c)
  BY <1>1, WritesEffect DEF GoesOn, PastIsPast
<1>2. CASE Begins(c)
  <2>1. PICK k \in Key, T \in TagSets : SetBytes(c, k, T) \/ GetBytes(c, k, T) \/ Delete(c, k, T)
    BY <1>2 DEF Begins
  <2> USE DEF TypeOK, Contract!ContractTypeOK
  <2>2. CASE GetBytes(c, k, T)
    BY <2>2, WritesEffect DEF GetBytes, Contract!BeginGet
  <2>3. CASE SetBytes(c, k, T)
    BY <2>3, WritesEffect DEF SetBytes, Contract!BeginSet, Contract!SameEntry
  <2>4. CASE Delete(c, k, T)
    BY <2>4, WritesEffect DEF Delete, Contract!BeginDelete, Contract!SameEntry
  <2> QED
    BY <2>1, <2>2, <2>3, <2>4
<1>3. CASE call'[c].kind \in {"idle", "hit"} /\ call'[c].past \subseteq call[c].past
  BY <1>3, WritesEffect DEF PastIsPast
<1> QED
  BY <1>1, <1>2, <1>3, CallEffect

(* A new set() carries a write that nothing carried before.                *)
LEMMA NewWrite ==
  ASSUME TypeOK, NEW c \in Thread, Begins(c), call'[c].kind = "set"
  PROVE  /\ call'[c].write \in started' \ started
         /\ call'[c].write.key = call'[c].key /\ call'[c].key \in Key
         /\ call'[c].write.tags = call'[c].tags
         /\ call'[c].past = Contract!SameEntry(call'[c].key, call'[c].tags)
<1>1. PICK k \in Key, T \in TagSets : SetBytes(c, k, T) \/ GetBytes(c, k, T) \/ Delete(c, k, T)
  BY DEF Begins
<1>2. ~GetBytes(c, k, T) /\ ~Delete(c, k, T)
  BY DEF GetBytes, Delete, Contract!BeginGet, Contract!BeginDelete, TypeOK,
         Contract!ContractTypeOK
<1>3. PICK i \in WriteId : Contract!BeginSet(c, [id |-> i, key |-> k, tags |-> T])
  BY <1>1, <1>2 DEF SetBytes
<1> QED
  BY <1>3 DEF Contract!BeginSet, TypeOK, Contract!ContractTypeOK

LEMMA StepWritesInFlight ==
  ASSUME IInv, [Next]_vars
  PROVE  WritesInFlight'
<1> SUFFICES ASSUME NEW c \in Thread, call'[c].kind = "set"
             PROVE  /\ call'[c].key \in Key
                    /\ call'[c].write \in started' \ completed'
                    /\ call'[c].write.key = call'[c].key
                    /\ call'[c].write.tags = call'[c].tags
                    /\ \A d \in Thread \ {c} :
                         call'[d].kind = "set" => call'[d].write # call'[c].write
  BY DEF WritesInFlight
<1> USE DEF IInv
<1>1. \A d \in Thread : call'[d].kind = "set" => GoesOn(d) \/ Begins(d)
  BY CallEffect
<1>2. \A d \in Thread : GoesOn(d) => call'[d] = call[d]
  BY DEF GoesOn
<1>3. \A d \in Thread : StorageSet(d) => call[d].kind = "set" /\ call'[d].kind = "idle"
  BY DEF StorageSet, Contract!FinishSet, Contract!Idle, TypeOK, Contract!ContractTypeOK
<1>4. completed \subseteq started
  BY DEF TypeOK, Contract!ContractTypeOK
<1>5. ASSUME NEW d \in Thread, GoesOn(d), call'[d].kind = "set"
      PROVE  /\ call'[d].key \in Key
             /\ call'[d].write \in started /\ call'[d].write \in started' \ completed'
             /\ call'[d].write.key = call'[d].key
             /\ call'[d].write.tags = call'[d].tags
  <2>1. \A x \in Thread : StorageSet(x) => call[x].write # call[d].write
    BY <1>2, <1>3, <1>5 DEF WritesInFlight
  <2> QED
    BY <1>2, <1>5, <2>1, WritesEffect DEF WritesInFlight
<1>6. ASSUME NEW d \in Thread, Begins(d), call'[d].kind = "set"
      PROVE  /\ call'[d].key \in Key
             /\ call'[d].write \in started' \ started /\ call'[d].write \notin completed'
             /\ call'[d].write.key = call'[d].key
             /\ call'[d].write.tags = call'[d].tags
             /\ \A x \in Thread \ {d} : call'[x] = call[x]
  BY <1>4, <1>6, NewWrite, BeginEffect
<1>7. ASSUME NEW d \in Thread \ {c}, call'[d].kind = "set"
      PROVE  call'[d].write # call'[c].write
  <2>1. CASE GoesOn(c) /\ GoesOn(d)
    BY <1>2, <1>7, <2>1 DEF WritesInFlight
  <2>2. CASE GoesOn(c) /\ Begins(d)
    BY <1>5, <1>6, <1>7, <2>2
  <2>3. CASE Begins(c)
    <3>1. call'[d] = call[d] /\ call[d].write \in started
      BY <1>6, <1>7, <2>3 DEF WritesInFlight
    <3> QED
      BY <1>6, <2>3, <3>1
  <2> QED
    BY <1>1, <1>7, <2>1, <2>2, <2>3
<1> QED
  BY <1>1, <1>5, <1>6, <1>7

LEMMA StepEntriesKeepTheirWrite ==
  ASSUME IInv, [Next]_vars
  PROVE  EntriesKeepTheirWrite'
<1> SUFFICES ASSUME NEW e \in data'
             PROVE  e.write \in started' /\ e.write.key = e.key
  BY DEF EntriesKeepTheirWrite
<1>1. CASE e \in data
  BY <1>1, WritesEffect DEF IInv, EntriesKeepTheirWrite
<1>2. ASSUME NEW c \in Thread, StorageSet(c), e = NewEntry(c)
      PROVE  e.write \in started' /\ e.write.key = e.key
  BY <1>2, WritesEffect DEF IInv, NewEntry, WritesInFlight, StorageSet
<1> QED
  BY <1>1, <1>2, DataEffect DEF IInv

(* An entry that is stored was not superseded, nor even completed.         *)
LEMMA NewEntriesAreUnfinished ==
  ASSUME IInv, [Next]_vars, NEW e \in data', e.write \in completed
  PROVE  e \in data
<1>1. \A c \in Thread : StorageSet(c) => NewEntry(c).write \notin completed
  BY DEF IInv, WritesInFlight, StorageSet, NewEntry
<1> QED
  BY <1>1, DataEffect DEF IInv

-----------------------------------------------------------------------------
(* The owners of values *)

(* A step draws at most one value.                                         *)
Draws(r, t) ==
  /\ \A s \in AllTag : tags'[s] = tags[s] \/ (s = t /\ tags'[s] = r)
  /\ \A c \in Thread, s \in AllTag :
       vals'[c][s] \in {Nil, vals[c][s], tags[s]} \/ (s = t /\ vals'[c][s] = r)

LEMMA StepDraws ==
  ASSUME TypeOK, ReadsMatch, [Next]_vars
  PROVE  \E r \in Fresh \cup {Nil}, t \in AllTag : Draws(r, t)
<1> DEFINE Drawn == \E r \in Fresh \cup {Nil}, t \in AllTag : Draws(r, t)
<1>1. ASSUME UNCHANGED tags,
             \A c \in Thread, s \in AllTag : vals'[c][s] \in {Nil, vals[c][s], tags[s]}
      PROVE  Drawn
  <2>1. Draws(Nil, All) /\ All \in AllTag
    BY <1>1 DEF Draws, AllTag
  <2> QED
    BY <2>1
<1>2. ASSUME NEW r \in Fresh, NEW t \in AllTag, Draws(r, t)
      PROVE  Drawn
  BY <1>2
<1> SUFFICES Drawn
  OBVIOUS
<1> HIDE DEF Drawn
<1>3. CASE UNCHANGED <<tags, vals>>
  BY <1>1, <1>3
<1>4. ASSUME NEW c \in Thread, NEW t \in AllTag, Look(c, t)
      PROVE  Drawn
  <2>1. UNCHANGED tags /\ \A d \in Thread \ {c} : vals'[d] = vals[d]
    BY <1>4, LookEffect
  <2>2. \A s \in AllTag : vals'[c][s] \in {vals[c][s], tags[s]}
    BY <1>4, LookEffect
  <2> QED
    BY <1>1, <2>1, <2>2
<1>5. ASSUME NEW c \in Thread, Begins(c)
      PROVE  Drawn
  BY <1>4, <1>5, BeginEffect
<1>6. ASSUME NEW c \in Thread, ReadTag(c) \/ CreateTag(c)
      PROVE  Drawn
  <2>1. PICK t \in Unread(c) :
          /\ t \in AllTag
          /\ \/ Look(c, t)
             \/ \E r \in Fresh : /\ tags' = [tags EXCEPT ![t] = r]
                                 /\ vals' = [vals EXCEPT ![c][t] = r]
    BY <1>6, ReadEffect
  <2>2. ASSUME NEW r \in Fresh, tags' = [tags EXCEPT ![t] = r], vals' = [vals EXCEPT ![c][t] = r]
        PROVE  Draws(r, t)
    BY <2>1, <2>2 DEF Draws, TypeOK
  <2> QED
    BY <1>2, <1>4, <2>1, <2>2
<1>7. ASSUME NEW c \in Thread, Stores(c)
      PROVE  Drawn
  BY <1>1, <1>7, StoresEffect DEF Forget, NoVals, TypeOK
<1>8. ASSUME NEW c \in Thread, ReturnHit(c)
      PROVE  Drawn
  BY <1>3, <1>8 DEF ReturnHit, cacheVars
<1>9. ASSUME NEW t \in AllTag, InvalidateTag(t)
      PROVE  Drawn
  <2>1. PICK r \in Fresh : tags' = [tags EXCEPT ![t] = r]
    BY <1>9 DEF InvalidateTag
  <2>2. Draws(r, t)
    BY <1>9, <2>1 DEF Draws, InvalidateTag, TypeOK
  <2> QED
    BY <1>2, <2>2
<1>10. CASE Invalidation
  BY <1>3, <1>9, <1>10 DEF Invalidation, BeginInvalidate
<1>11. CASE \E e \in data : Expire(e)
  BY <1>3, <1>11 DEF Expire
<1>12. CASE UNCHANGED vars
  BY <1>3, <1>12 DEF vars, cacheVars
<1> QED
  BY <1>5, <1>6, <1>7, <1>8, <1>10, <1>11, <1>12 DEF Next, ThreadStep, Begins, Stores

LEMMA StepValuesAreOwned ==
  ASSUME IInv, [Next]_vars
  PROVE  ValuesAreOwned'
<1> USE DEF IInv
<1>1. PICK owner \in [Rand -> AllTag] :
        /\ \A t \in AllTag : tags[t] # Nil => owner[tags[t]] = t
        /\ \A c \in Thread, t \in AllTag : vals[c][t] # Nil => owner[vals[c][t]] = t
        /\ \A e \in data : {owner[r] : r \in e.hash} = FullTags(e.write.tags)
  BY DEF ValuesAreOwned
<1>2. PICK r \in Fresh \cup {Nil}, t \in AllTag : Draws(r, t)
  BY StepDraws
<1> DEFINE o == [owner EXCEPT ![r] = t]
<1>3. /\ o \in [Rand -> AllTag]
      /\ \A x \in Rand \cap InUse : o[x] = owner[x]
      /\ r # Nil => o[r] = t
  BY <1>1, <1>2, NamesAssumption DEF Fresh
<1> HIDE DEF o
<1>4. /\ \A s \in AllTag : tags[s] # Nil => o[tags[s]] = s
      /\ \A c \in Thread, s \in AllTag : vals[c][s] # Nil => o[vals[c][s]] = s
  BY <1>1, <1>3, ValuesInUse DEF TypeOK
<1>5. \A s \in AllTag : tags'[s] # Nil => o[tags'[s]] = s
  BY <1>2, <1>3, <1>4 DEF Draws
<1>6. \A c \in Thread, s \in AllTag : vals'[c][s] # Nil => o[vals'[c][s]] = s
  BY <1>2, <1>3, <1>4 DEF Draws
<1>7. ASSUME NEW e \in data'
      PROVE  {o[x] : x \in e.hash} = FullTags(e.write.tags)
  <2>1. CASE e \in data
    <3>1. e.hash \subseteq Rand \cap InUse
      BY <2>1, ValuesInUse, EntryTypes
    <3>2. {o[x] : x \in e.hash} = {owner[x] : x \in e.hash}
      BY <1>3, <3>1
    <3> QED
      BY <1>1, <2>1, <3>2
  <2>2. ASSUME NEW c \in Thread, StorageSet(c), e = NewEntry(c)
        PROVE  {o[x] : x \in e.hash} = FullTags(e.write.tags)
    <3>1. /\ e.hash = CallHash(c) /\ e.write.tags = call[c].tags
          /\ HasHash(c)
      BY <2>2 DEF NewEntry, WritesInFlight, StorageSet
    <3>2. \A s \in FullTags(call[c].tags) : o[vals[c][s]] = s
      BY <1>4, <3>1, CallTags DEF HasHash, Unread
    <3> QED
      BY <3>1, <3>2 DEF CallHash, Hash
  <2> QED
    BY <2>1, <2>2, DataEffect
<1> QED
  BY <1>3, <1>5, <1>6, <1>7 DEF ValuesAreOwned

-----------------------------------------------------------------------------
(* Superseded entries *)

LEMMA SupersededAreCompleted ==
  ASSUME IInv, [Next]_vars, NEW w \in superseded'
  PROVE  w \in completed
BY SupersededEffect DEF IInv, PastIsPast, TypeOK, Contract!ContractTypeOK

(* A set() or delete() that succeeds leaves no entry of its past in reach. *)
LEMMA OverwrittenOutOfReach ==
  ASSUME IInv, NEW c \in Thread, StorageSet(c) \/ StorageDelete(c),
         NEW e \in data \cap data', e.write \in call[c].past
  PROVE  ~Reachable(e)
<1> SUFFICES ASSUME Reachable(e) PROVE FALSE
  OBVIOUS
<1> USE DEF IInv
<1>1. call[c].kind \in {"set", "delete"} /\ HasHash(c)
  BY DEF StorageSet, StorageDelete
<1>2. e.hash = CallHash(c)
  BY <1>1, CallHashType DEF OverwritesHitThePast
<1>3. e.key = call[c].key
  BY <1>1 DEF PastIsPast, EntriesKeepTheirWrite
<1>4. e \notin Others(call[c].key, CallHash(c))
  BY <1>2, <1>3 DEF Others
<1>5. CASE StorageDelete(c)
  BY <1>4, <1>5 DEF StorageDelete
<1>6. CASE StorageSet(c)
  <2>1. e = NewEntry(c)
    BY <1>4, <1>6 DEF StorageSet, NewEntry
  <2>2. e.write \in completed
    BY DEF PastIsPast
  <2> QED
    BY <1>6, <2>1, <2>2 DEF NewEntry, StorageSet, WritesInFlight
<1> QED
  BY <1>5, <1>6

LEMMA StepSupersededOutOfReach ==
  ASSUME IInv, [Next]_vars
  PROVE  SupersededOutOfReach'
<1> SUFFICES ASSUME NEW e \in data', e.write \in superseded'
             PROVE  ~Reachable(e)'
  BY DEF SupersededOutOfReach
<1> USE DEF IInv
<1>1. e \in data
  BY SupersededAreCompleted, NewEntriesAreUnfinished
<1>2. CASE ~Reachable(e)
  BY <1>1, <1>2, StepMovesTagsOn, OutOfReachForGood
<1>3. CASE e.write \in superseded
  BY <1>1, <1>2, <1>3 DEF SupersededOutOfReach
<1>4. ASSUME NEW c \in Thread, StorageSet(c) \/ StorageDelete(c), e.write \in call[c].past
      PROVE  ~Reachable(e)'
  BY <1>1, <1>2, <1>4, OverwrittenOutOfReach
<1>5. ASSUME NEW t \in AllTag, InvalidateTag(t), t \in FullTags(e.write.tags)
      PROVE  ~Reachable(e)'
  <2>1. tags'[t] \in Fresh
    BY <1>5 DEF InvalidateTag, TypeOK
  <2>2. tags'[t] # tags[t]
    BY <2>1, ValuesInUse DEF Fresh
  <2> QED
    BY <1>1, <1>5, <2>2, StepMovesTagsOn, OutOfReachForGood
<1> QED
  BY <1>3, <1>4, <1>5, SupersededEffect

LEMMA StepGetsAvoidThePast ==
  ASSUME IInv, [Next]_vars
  PROVE  GetsAvoidThePast'
<1> SUFFICES ASSUME NEW c \in Thread, call'[c].kind = "get",
                    NEW e \in data', e.write \in call'[c].past, e.hash = Expected(c)'
             PROVE  FALSE
  BY DEF GetsAvoidThePast
<1> USE DEF IInv
<1>1. CASE GoesOn(c)
  <2>1. call'[c] = call[c] /\ e \in data
    BY <1>1, NewEntriesAreUnfinished DEF GoesOn, PastIsPast
  <2>2. \A t \in FullTags(call[c].tags) :
          Seen(c)'[t] = Seen(c)[t] \/ Seen(c)'[t] \in Rand \ InUse
    BY <1>1, SeenMovesOn, StepMovesTagsOn, CallTags
  <2>3. e.hash = Hash(Seen(c)', call[c].tags)
    BY <2>1 DEF Expected
  <2>4. e.hash = Expected(c)
    BY <2>1, <2>2, <2>3, HashMovesOn, CallTags DEF Expected
  <2> QED
    BY <2>1, <2>4 DEF GetsAvoidThePast
<1>2. CASE Begins(c)
  <2>1. PICK k \in Key, T \in TagSets : SetBytes(c, k, T) \/ GetBytes(c, k, T) \/ Delete(c, k, T)
    BY <1>2 DEF Begins
  <2>2. ~SetBytes(c, k, T) /\ ~Delete(c, k, T)
    BY DEF SetBytes, Delete, Contract!BeginSet, Contract!BeginDelete, TypeOK,
           Contract!ContractTypeOK
  <2>3. call'[c].tags = T /\ call'[c].past = superseded
    BY <2>1, <2>2 DEF GetBytes, Contract!BeginGet, TypeOK, Contract!ContractTypeOK
  <2>4. e \in data /\ e.hash = Hash(tags, T)
    BY <1>2, <2>3, ExpectedOnBegin
  <2>5. e.write.tags = T
    BY <2>4, SameHashSameTags, TagsAssumption
  <2> QED
    BY <2>3, <2>4, <2>5 DEF SupersededOutOfReach, Reachable
<1> QED
  BY <1>1, <1>2, CallEffect

LEMMA StepOverwritesHitThePast ==
  ASSUME IInv, [Next]_vars
  PROVE  OverwritesHitThePast'
<1> SUFFICES ASSUME NEW c \in Thread, call'[c].kind \in {"set", "delete"},
                    NEW e \in data', e.write \in call'[c].past, Reachable(e)'
             PROVE  e.hash = Expected(c)'
  BY DEF OverwritesHitThePast
<1> USE DEF IInv
<1>1. CASE GoesOn(c)
  <2>1. call'[c] = call[c] /\ e \in data
    BY <1>1, NewEntriesAreUnfinished DEF GoesOn, PastIsPast
  <2>2. Reachable(e) /\ \A t \in FullTags(e.write.tags) : tags'[t] = tags[t]
    BY <2>1, StepMovesTagsOn, OutOfReachForGood
  <2>3. e.write.tags = call[c].tags /\ e.hash = Expected(c)
    BY <2>1, <2>2 DEF PastIsPast, OverwritesHitThePast
  <2>4. \A t \in FullTags(call[c].tags) : Seen(c)'[t] = Seen(c)[t]
    BY <1>1, <2>2, <2>3, SeenMovesOn, StepMovesTagsOn, CallTags
  <2> QED
    BY <2>1, <2>3, <2>4 DEF Expected, Hash
<1>2. CASE Begins(c)
  <2>1. e.write.tags = call'[c].tags
    <3>1. PICK k \in Key, T \in TagSets : SetBytes(c, k, T) \/ GetBytes(c, k, T) \/ Delete(c, k, T)
      BY <1>2 DEF Begins
    <3>2. ~GetBytes(c, k, T)
      BY DEF GetBytes, Contract!BeginGet, TypeOK, Contract!ContractTypeOK
    <3> QED
      BY <3>1, <3>2 DEF SetBytes, Delete, Contract!BeginSet, Contract!BeginDelete,
                        Contract!SameEntry, TypeOK, Contract!ContractTypeOK
  <2> QED
    BY <1>2, <2>1, ExpectedOnBegin DEF Reachable
<1> QED
  BY <1>1, <1>2, CallEffect

-----------------------------------------------------------------------------
(* The initial state *)

LEMMA InitIInv == Init => IInv
<1> SUFFICES ASSUME Init PROVE IInv
  OBVIOUS
<1> USE DEF Init, Contract!ContractInit
<1>1. Contract!Idle \in Contract!Call
  BY DEF Contract!Idle, Contract!Call, Contract!Kind
<1>2. TypeOK
  BY <1>1 DEF TypeOK, Contract!ContractTypeOK, NoVals
<1>3. \A c \in Thread : call[c].kind = "idle" /\ call[c].past = {}
  BY DEF Contract!Idle
<1>4. ReadsMatch
  BY <1>3 DEF ReadsMatch, InCall
<1>5. ValuesAreOwned
  <2> DEFINE owner == [r \in Rand |-> All]
  <2>1. owner \in [Rand -> AllTag]
    BY DEF AllTag
  <2>2. /\ \A t \in AllTag : tags[t] = Nil
        /\ \A c \in Thread, t \in AllTag : vals[c][t] = Nil
    BY DEF NoVals
  <2> HIDE DEF owner
  <2> QED
    BY <2>1, <2>2 DEF ValuesAreOwned
<1> QED
  BY <1>2, <1>3, <1>4, <1>5
     DEF IInv, WritesInFlight, PastIsPast, EntriesKeepTheirWrite, SupersededOutOfReach,
         GetsAvoidThePast, OverwritesHitThePast

-----------------------------------------------------------------------------
(* Theorems *)

LEMMA StepIInv == IInv /\ [Next]_vars => IInv'
BY StepTypes, StepReadsMatch, StepWritesInFlight, StepPastIsPast, StepEntriesKeepTheirWrite,
   StepValuesAreOwned, StepSupersededOutOfReach, StepGetsAvoidThePast,
   StepOverwritesHitThePast
   DEF IInv

(* The invariant behind the other theorems.                                *)
THEOREM Invariance == Spec => []IInv
BY InitIInv, StepIInv, PTL DEF Spec

(* Every variable keeps its type.                                          *)
THEOREM TypeCorrectness == Spec => []TypeOK
<1>1. IInv => TypeOK
  BY DEF IInv
<1> QED
  BY <1>1, Invariance, PTL

(* Once one of its tags has moved on, an entry is never found again, not   *)
(* even by a get_or_set_tag_values that was under way (dict.py).           *)
THEOREM OutOfReachStaysOut == Spec => NeverReachableAgain
<1>1. IInv /\ [Next]_vars =>
        [\A e \in data : ~Reachable(e) => ~Reachable(e)']_vars
  BY StepMovesTagsOn, OutOfReachForGood DEF IInv
<1> QED
  BY <1>1, Invariance, PTL DEF Spec, NeverReachableAgain

(* The cache in local memory does only what CacheContract allows, although *)
(* its generators read tags without the lock: a get() never returns a      *)
(* value that was superseded before it began.                              *)
THEOREM Refinement == Spec => ImplementsContract
<1>1. Init => Contract!ContractInit
  BY DEF Init
<1>2. IInv /\ [Next]_vars => [Contract!ContractNext]_(Contract!contractVars)
  BY StepImplementsContract
<1> QED
  BY <1>1, <1>2, Invariance, PTL DEF Spec, ImplementsContract, Contract!ContractSpec
=============================================================================
