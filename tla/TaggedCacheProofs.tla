------------------------- MODULE TaggedCacheProofs -------------------------
(* Proofs about TaggedCache, for every set of clients, keys, tags, writes  *)
(* and random values.                                                      *)
EXTENDS TaggedCacheInvariant, TLAPS

-----------------------------------------------------------------------------
(* Types *)

(* A fresh assignment gives each tag of T a value that nothing refers to.  *)
LEMMA FreshValues ==
  ASSUME NEW T \in SUBSET AllTag, NEW f \in Fresh(T)
  PROVE  /\ f \in [T -> Rand]
         /\ \A t \in T : f[t] \in Rand \ InUse
         /\ \A s, t \in T : f[s] = f[t] => s = t
BY DEF Fresh

LEMMA SetTagValuesType ==
  ASSUME TypeOK, NEW T \in SUBSET AllTag, NEW f \in Fresh(T), SetTagValues(T, f)
  PROVE  tagValue' \in [AllTag -> Rand \cup {Nil}]
BY FreshValues DEF SetTagValues, TypeOK

LEMMA MGetType ==
  ASSUME TypeOK, NEW c \in Client, NEW T \in SUBSET Tag, MGet(c, T)
  PROVE  /\ vals' \in [Client -> [AllTag -> Rand \cup {Nil}]]
         /\ UNCHANGED <<tagValue, storage, late>>
BY DEF MGet, TypeOK

LEMMA ForgetType ==
  ASSUME TypeOK, NEW c \in Client, Forget(c)
  PROVE  vals' \in [Client -> [AllTag -> Rand \cup {Nil}]]
BY DEF Forget, TypeOK, NoVals

LEMMA MissingTags ==
  ASSUME TypeOK, NEW c \in Client
  PROVE  Missing(c) \in SUBSET AllTag
BY DEF Missing, FullTags, AllTag, TypeOK, Contract!ContractTypeOK, Contract!Call

LEMMA CallHashType ==
  ASSUME TypeOK, NEW c \in Client, HasHash(c)
  PROVE  CallHash(c) \in SUBSET Rand
<1>1. call[c].tags \in SUBSET Tag
  BY DEF TypeOK, Contract!ContractTypeOK, Contract!Call
<1>2. FullTags(call[c].tags) \subseteq AllTag
  BY <1>1 DEF FullTags, AllTag
<1>3. \A t \in FullTags(call[c].tags) : vals[c][t] \in Rand
  BY <1>2 DEF HasHash, Missing, TypeOK
<1> QED
  BY <1>3 DEF CallHash, Hash

(* The entry that a set() is about to store.                               *)
LEMMA NewEntryType ==
  ASSUME TypeOK, WritesInFlight, NEW c \in Client, call[c].kind = "set", HasHash(c)
  PROVE  NewEntry(c) \in Entry
<1>1. call[c].key \in Key /\ call[c].write \in Contract!Write
  BY DEF WritesInFlight, TypeOK, Contract!ContractTypeOK
<1> QED
  BY <1>1, CallHashType DEF NewEntry, Entry

(* The promises keep their types.                                          *)
LEMMA ContractTypes ==
  ASSUME Contract!ContractTypeOK, WritesInFlight, PastIsPast,
         [Contract!ContractNext]_(Contract!contractVars)
  PROVE  Contract!ContractTypeOK'
<1> USE DEF Contract!ContractTypeOK
<1>1. CASE UNCHANGED Contract!contractVars
  BY <1>1 DEF Contract!contractVars
<1>2. ASSUME NEW c \in Client, NEW w \in Contract!Write, Contract!BeginSet(c, w)
      PROVE  Contract!ContractTypeOK'
  <2>1. [kind |-> "set", key |-> w.key, tags |-> w.tags, write |-> w,
         past |-> Contract!SameEntry(w.key, w.tags)] \in Contract!Call
    BY DEF Contract!Call, Contract!Kind, Contract!Write, Contract!SameEntry
  <2> QED
    BY <1>2, <2>1 DEF Contract!BeginSet
<1>3. ASSUME NEW c \in Client, NEW k \in Key, NEW T \in SUBSET Tag, Contract!BeginGet(c, k, T)
      PROVE  Contract!ContractTypeOK'
  <2>1. [kind |-> "get", key |-> k, tags |-> T, write |-> None,
         past |-> superseded] \in Contract!Call
    BY DEF Contract!Call, Contract!Kind
  <2> QED
    BY <1>3, <2>1 DEF Contract!BeginGet
<1>4. ASSUME NEW c \in Client, NEW k \in Key, NEW T \in SUBSET Tag, Contract!BeginDelete(c, k, T)
      PROVE  Contract!ContractTypeOK'
  <2>1. [kind |-> "delete", key |-> k, tags |-> T, write |-> None,
         past |-> Contract!SameEntry(k, T)] \in Contract!Call
    BY DEF Contract!Call, Contract!Kind, Contract!SameEntry
  <2> QED
    BY <1>4, <2>1 DEF Contract!BeginDelete
<1>5. Contract!Idle \in Contract!Call
  BY DEF Contract!Idle, Contract!Call, Contract!Kind
<1>6. ASSUME NEW c \in Client, Contract!FinishSet(c)
      PROVE  Contract!ContractTypeOK'
  BY <1>5, <1>6 DEF Contract!FinishSet, Contract!Call, WritesInFlight, PastIsPast
<1>7. ASSUME NEW c \in Client, Contract!FinishDelete(c)
      PROVE  Contract!ContractTypeOK'
  BY <1>5, <1>7 DEF Contract!FinishDelete, Contract!Call, PastIsPast
<1>8. ASSUME NEW c \in Client, NEW w \in started, Contract!Allowed(c, w), Contract!Answer(c, w)
      PROVE  Contract!ContractTypeOK'
  <2>1. [call[c] EXCEPT !.kind = "hit", !.write = w] \in Contract!Call
    BY DEF Contract!Call, Contract!Kind
  <2> QED
    BY <1>8, <2>1 DEF Contract!Answer
<1>9. ASSUME NEW c \in Client, Contract!Drop(c)
      PROVE  Contract!ContractTypeOK'
  BY <1>5, <1>9 DEF Contract!Drop
<1>10. ASSUME NEW W \in SUBSET completed, Contract!Supersede(W)
       PROVE  Contract!ContractTypeOK'
  BY <1>10 DEF Contract!Supersede
<1> QED
  BY <1>1, <1>2, <1>3, <1>4, <1>6, <1>7, <1>8, <1>9, <1>10
     DEF Contract!ContractNext, Contract!Tagged

-----------------------------------------------------------------------------
(* Hashes *)

(* What is in use: the tag values, and the hashes of all entries.          *)
LEMMA ValuesInUse ==
  ASSUME TypeOK
  PROVE  /\ \A t \in AllTag : tagValue[t] \in InUse
         /\ \A c \in Client, t \in AllTag : vals[c][t] \in InUse
         /\ \A e \in Entries : e.hash \subseteq InUse
<1>1. \A e \in storage : e.hash \subseteq InUse
  BY DEF InUse
<1>2. \A l \in LatePuts : l.entry.hash \subseteq InUse
  BY DEF InUse, LatePuts
<1>3. \A t \in AllTag : tagValue[t] \in InUse
  BY DEF InUse
<1>4. \A c \in Client, t \in AllTag : vals[c][t] \in InUse
  BY DEF InUse
<1> QED
  BY <1>1, <1>2, <1>3, <1>4 DEF Entries

LEMMA EntryTypes ==
  ASSUME TypeOK
  PROVE  /\ Entries \subseteq Entry
         /\ \A e \in Entries : /\ e.hash \subseteq Rand
                               /\ e.write.tags \in SUBSET Tag
                               /\ FullTags(e.write.tags) \subseteq AllTag
<1>1. \A l \in LatePuts : l.entry \in Entry
  BY DEF LatePuts, TypeOK, LateTags, LatePut, LateDel
<1>2. Entries \subseteq Entry
  BY <1>1 DEF Entries, TypeOK
<1> QED
  BY <1>2 DEF Entry, Contract!Write, FullTags, AllTag

(* The values that a call works with were each drawn for their own tag.    *)
LEMMA OwnersOfCallHash ==
  ASSUME TypeOK, NEW c \in Client, HasHash(c), NEW owner \in [Rand -> AllTag],
         \A t \in AllTag : vals[c][t] # Nil => owner[vals[c][t]] = t
  PROVE  {owner[r] : r \in CallHash(c)} = FullTags(call[c].tags)
<1>1. FullTags(call[c].tags) \subseteq AllTag
  BY DEF FullTags, AllTag, TypeOK, Contract!ContractTypeOK, Contract!Call
<1>2. \A t \in FullTags(call[c].tags) : owner[vals[c][t]] = t
  BY <1>1 DEF HasHash, Missing
<1> QED
  BY <1>2 DEF CallHash, Hash

LEMMA FullTagsInjective ==
  ASSUME NEW S \in SUBSET Tag, NEW T \in SUBSET Tag, FullTags(S) = FullTags(T)
  PROVE  S = T
BY NamesAssumption DEF FullTags

(* From an equal hash follow equal tags: an entry that is found under the  *)
(* hash of a call was stored with the tags of this call.                   *)
LEMMA SameHashSameTags ==
  ASSUME TypeOK, ValuesAreOwned, NEW c \in Client, HasHash(c),
         NEW e \in Entries, e.hash = CallHash(c)
  PROVE  e.write.tags = call[c].tags
<1>1. PICK owner \in [Rand -> AllTag] :
        /\ \A d \in Client, t \in AllTag : vals[d][t] # Nil => owner[vals[d][t]] = t
        /\ \A x \in Entries : {owner[r] : r \in x.hash} = FullTags(x.write.tags)
  BY DEF ValuesAreOwned
<1>2. FullTags(e.write.tags) = FullTags(call[c].tags)
  BY <1>1, OwnersOfCallHash
<1>3. call[c].tags \in SUBSET Tag
  BY DEF TypeOK, Contract!ContractTypeOK, Contract!Call
<1> QED
  BY <1>2, <1>3, EntryTypes, FullTagsInjective

-----------------------------------------------------------------------------
(* Tag values move on *)

(* What any step may do to a tag: give it a value that nothing refers to,  *)
(* or lose its value.                                                      *)
TagsMoveOn ==
  \A t \in AllTag : \/ tagValue'[t] = tagValue[t]
                    \/ tagValue'[t] = Nil
                    \/ tagValue'[t] \in Rand \ InUse

LEMMA FreshTagsMoveOn ==
  ASSUME TypeOK, NEW T \in SUBSET AllTag, NEW f \in Fresh(T), SetTagValues(T, f)
  PROVE  /\ TagsMoveOn
         /\ \A t \in T : tagValue'[t] \in Rand \ InUse
BY FreshValues DEF TagsMoveOn, SetTagValues, TypeOK

(* No entry comes back within reach when tag values move on.               *)
LEMMA OutOfReachForGood ==
  ASSUME TypeOK, TagsMoveOn, NEW e \in storage, Reachable(e)'
  PROVE  Reachable(e)
<1>1. e.hash = {tagValue'[t] : t \in FullTags(e.write.tags)}
  BY DEF Reachable, Hash
<1>2. e \in Entries
  BY DEF Entries
<1>3. \A t \in FullTags(e.write.tags) : t \in AllTag /\ tagValue'[t] \in e.hash
  BY <1>1, <1>2, EntryTypes
<1>4. e.hash \subseteq InUse /\ e.hash \subseteq Rand
  BY <1>2, ValuesInUse, EntryTypes
<1>5. \A t \in FullTags(e.write.tags) : tagValue'[t] = tagValue[t]
  BY <1>3, <1>4, NamesAssumption DEF TagsMoveOn
<1> QED
  BY <1>1, <1>5 DEF Reachable, Hash

(* A new value for one of its tags puts an entry out of reach.             *)
LEMMA InvalidatedOutOfReach ==
  ASSUME TypeOK, NEW e \in storage, NEW t \in FullTags(e.write.tags),
         tagValue'[t] \notin InUse
  PROVE  ~Reachable(e)'
<1>1. e.hash \subseteq InUse
  BY ValuesInUse DEF Entries
<1> QED
  BY <1>1 DEF Reachable, Hash

(* Every step of the system only moves tag values on.                      *)
LEMMA StepMovesTagsOn ==
  ASSUME TypeOK, [Next]_vars
  PROVE  TagsMoveOn
<1>1. CASE UNCHANGED tagValue
  BY <1>1 DEF TagsMoveOn
<1>2. ASSUME NEW T \in SUBSET AllTag, NEW f \in Fresh(T), SetTagValues(T, f)
      PROVE  TagsMoveOn
  BY <1>2, FreshTagsMoveOn
<1>3. ASSUME NEW c \in Client, SetMissingTags(c)
      PROVE  TagsMoveOn
  BY <1>2, <1>3, MissingTags DEF SetMissingTags
<1>4. ASSUME NEW T \in SUBSET Tag, InvalidateTags(T)
      PROVE  TagsMoveOn
  BY <1>2, <1>4 DEF InvalidateTags, AllTag
<1>5. CASE InvalidateAll
  BY <1>2, <1>5 DEF InvalidateAll, AllTag
<1>6. ASSUME NEW l \in late, LateCommand(l)
      PROVE  TagsMoveOn
  <2>1. l.cmd = "tags" => l.tags \in SUBSET AllTag
    BY DEF TypeOK, LateTags, LatePut, LateDel
  <2> QED
    BY <1>1, <1>2, <1>6, <2>1 DEF LateCommand
<1>7. ASSUME NEW t \in AllTag, LoseTag(t)
      PROVE  TagsMoveOn
  BY <1>7 DEF LoseTag, TagsMoveOn, TypeOK
<1>8. ASSUME NEW c \in Client, ClientStep(c)
      PROVE  TagsMoveOn
  BY <1>1, <1>3, <1>8
     DEF ClientStep, SetBytes, GetBytes, Delete, MGet, StorageSet, StorageDelete,
         StorageGet, ReturnHit, Timeout, cacheVars
<1> QED
  BY <1>1, <1>4, <1>5, <1>6, <1>7, <1>8
     DEF Next, Invalidation, Environment, InvalidateTimeout, LoseEntry, vars

-----------------------------------------------------------------------------
(* What a step does to calls, entries and abandoned commands *)

LEMMA AbandonedCommand ==
  ASSUME TypeOK, WritesInFlight, CallsHaveKeys, NEW c \in Client,
         call[c].kind \in {"set", "get", "delete"}, NEW l \in CurrentCommand(c)
  PROVE  /\ l \in LateTags \cup LatePut \cup LateDel
         /\ l.cmd = "put" => call[c].kind = "set" /\ HasHash(c) /\ l.entry = NewEntry(c)
<1>1. CASE ~HasHash(c)
  BY <1>1, MissingTags DEF CurrentCommand, LateTags
<1>2. CASE HasHash(c) /\ call[c].kind = "set"
  BY <1>2, NewEntryType DEF CurrentCommand, LatePut
<1>3. CASE HasHash(c) /\ call[c].kind = "delete"
  BY <1>3, CallHashType DEF CurrentCommand, LateDel, CallsHaveKeys
<1>4. CASE HasHash(c) /\ call[c].kind = "get"
  BY <1>4 DEF CurrentCommand
<1> QED
  BY <1>1, <1>2, <1>3, <1>4

(* Only a timed-out set() adds to the entries that may arrive late.        *)
LEMMA LatePutsEffect ==
  ASSUME TypeOK, WritesInFlight, CallsHaveKeys, [Next]_vars, NEW l \in LatePuts'
  PROVE  \/ l \in LatePuts
         \/ \E c \in Client : /\ Timeout(c)
                              /\ call[c].kind = "set" /\ HasHash(c)
                              /\ l.entry = NewEntry(c)
<1>1. CASE late' \subseteq late
  BY <1>1 DEF LatePuts
<1>2. ASSUME NEW T \in SUBSET AllTag, InvalidateTimeout(T)
      PROVE  l \in LatePuts
  BY <1>2 DEF InvalidateTimeout, Abandon, LatePuts
<1>3. ASSUME NEW c \in Client, Timeout(c), l \notin late
      PROVE  call[c].kind = "set" /\ HasHash(c) /\ l.entry = NewEntry(c)
  <2>1. l \in CurrentCommand(c) /\ l.cmd = "put"
    BY <1>3 DEF Timeout, Abandon, LatePuts
  <2> QED
    BY <1>3, <2>1, AbandonedCommand DEF Timeout
<1>4. ASSUME NEW c \in Client, ClientStep(c), ~Timeout(c)
      PROVE  late' = late
  BY <1>4 DEF ClientStep, SetBytes, GetBytes, Delete, MGet, SetMissingTags, StorageSet,
              StorageDelete, StorageGet, ReturnHit, cacheVars
<1>5. ASSUME NEW x \in late, LateCommand(x)
      PROVE  late' \subseteq late
  BY <1>5 DEF LateCommand
<1>6. CASE \E T \in SUBSET Tag : InvalidateTags(T)
  BY <1>1, <1>6 DEF InvalidateTags
<1>7. CASE InvalidateAll
  BY <1>1, <1>7 DEF InvalidateAll
<1>8. CASE \E t \in AllTag : LoseTag(t)
  BY <1>1, <1>8 DEF LoseTag
<1>9. CASE \E e \in storage : LoseEntry(e)
  BY <1>1, <1>9 DEF LoseEntry
<1>10. CASE UNCHANGED vars
  BY <1>1, <1>10 DEF vars
<1> QED
  BY <1>1, <1>2, <1>3, <1>4, <1>5, <1>6, <1>7, <1>8, <1>9, <1>10
     DEF Next, Invalidation, Environment, AllTag, LatePuts

(* An entry arrives in Redis from a set() that completes, or late.         *)
LEMMA StorageEffect ==
  ASSUME TypeOK, [Next]_vars, NEW e \in storage'
  PROVE  \/ e \in storage
         \/ \E c \in Client : StorageSet(c) /\ e = NewEntry(c)
         \/ \E l \in LatePuts : LateCommand(l) /\ e = l.entry
<1>1. CASE storage' \subseteq storage
  BY <1>1
<1>2. ASSUME NEW c \in Client, StorageSet(c)
      PROVE  e \in storage \/ e = NewEntry(c)
  BY <1>2 DEF StorageSet, Store
<1>3. ASSUME NEW c \in Client, ClientStep(c), ~StorageSet(c)
      PROVE  storage' \subseteq storage
  BY <1>3 DEF ClientStep, SetBytes, GetBytes, Delete, MGet, SetMissingTags,
              StorageDelete, Remove, StorageGet, ReturnHit, Timeout, cacheVars
<1>4. ASSUME NEW l \in late, LateCommand(l)
      PROVE  e \in storage \/ (l \in LatePuts /\ e = l.entry)
  BY <1>4 DEF LateCommand, Store, Remove, LatePuts
<1>5. CASE Invalidation
  BY <1>5 DEF Invalidation, InvalidateTags, InvalidateAll, InvalidateTimeout
<1>6. CASE \E t \in AllTag : LoseTag(t)
  BY <1>6 DEF LoseTag
<1>7. CASE \E x \in storage : LoseEntry(x)
  BY <1>7 DEF LoseEntry
<1>8. CASE UNCHANGED vars
  BY <1>8 DEF vars
<1> QED
  BY <1>1, <1>2, <1>3, <1>4, <1>5, <1>6, <1>7, <1>8 DEF Next, Environment

(* What a step may do to the call of client c.                             *)
Begins(c) ==
  \E k \in Key, T \in SUBSET Tag : SetBytes(c, k, T) \/ GetBytes(c, k, T) \/ Delete(c, k, T)

LEMMA CallEffect ==
  ASSUME TypeOK, [Next]_vars, NEW c \in Client
  PROVE  \/ call'[c] = call[c] /\ vals'[c] = vals[c]
         \/ call'[c] = Contract!Idle
         \/ Begins(c)
         \/ SetMissingTags(c)
         \/ StorageGet(c)
<1>1. CASE UNCHANGED <<call, vals>>
  BY <1>1
<1>2. ASSUME NEW d \in Client, ClientStep(d), d # c
      PROVE  call'[c] = call[c] /\ vals'[c] = vals[c]
  BY <1>2 DEF TypeOK, Contract!ContractTypeOK, ClientStep, SetBytes, GetBytes, Delete, MGet,
              SetMissingTags, StorageSet, StorageDelete, StorageGet, ReturnHit, Timeout, Forget,
              cacheVars, Contract!BeginSet, Contract!BeginGet, Contract!BeginDelete,
              Contract!FinishSet, Contract!FinishDelete, Contract!Answer, Contract!Drop
<1>3. CASE ClientStep(c)
  <2>1. CASE StorageSet(c) \/ StorageDelete(c) \/ ReturnHit(c) \/ Timeout(c)
    BY <2>1 DEF TypeOK, Contract!ContractTypeOK, StorageSet, StorageDelete, ReturnHit, Timeout,
                Contract!FinishSet, Contract!FinishDelete, Contract!Drop
  <2> QED
    BY <1>3, <2>1 DEF ClientStep, Begins
<1>4. CASE Invalidation
  BY <1>1, <1>4 DEF Invalidation, InvalidateTags, InvalidateAll, InvalidateTimeout, Contract!Supersede
<1>5. CASE Environment
  BY <1>1, <1>5 DEF Environment, LateCommand, LoseTag, LoseEntry
<1>6. CASE UNCHANGED vars
  BY <1>1, <1>6 DEF vars
<1> QED
  BY <1>2, <1>3, <1>4, <1>5, <1>6 DEF Next

-----------------------------------------------------------------------------
(* Refinement and types *)

(* A get() that finds an entry answers as the contract allows.             *)
LEMMA FoundIsAllowed ==
  ASSUME IInv, NEW c \in Client, call[c].kind = "get", HasHash(c),
         NEW e \in storage, e.key = call[c].key, e.hash = CallHash(c)
  PROVE  Contract!Allowed(c, e.write)
<1>1. e \in Entries
  BY DEF Entries
<1>2. e.write \in started /\ e.write.key = call[c].key
  BY <1>1 DEF IInv, EntriesKeepTheirWrite
<1>3. e.write.tags = call[c].tags
  BY <1>1, SameHashSameTags DEF IInv
<1>4. e.write \notin call[c].past
  BY DEF IInv, GetsAvoidThePast
<1> QED
  BY <1>2, <1>3, <1>4 DEF Contract!Allowed

(* Every step of the system is a step that CacheContract allows, or is     *)
(* invisible to it.                                                        *)
LEMMA StepImplementsContract ==
  ASSUME IInv, [Next]_vars
  PROVE  [Contract!ContractNext]_(Contract!contractVars)
<1> USE DEF Contract!contractVars
<1>1. ASSUME NEW c \in Client, NEW k \in Key, NEW T \in SUBSET Tag,
             SetBytes(c, k, T) \/ GetBytes(c, k, T) \/ Delete(c, k, T)
      PROVE  Contract!ContractNext
  <2>1. \A i \in WriteId : [id |-> i, key |-> k, tags |-> T] \in Contract!Write
    BY DEF Contract!Write
  <2> QED
    BY <1>1, <2>1 DEF SetBytes, GetBytes, Delete, Contract!ContractNext
<1>2. ASSUME NEW c \in Client,
             StorageSet(c) \/ StorageDelete(c) \/ ReturnHit(c) \/ Timeout(c)
      PROVE  Contract!ContractNext
  BY <1>2 DEF StorageSet, StorageDelete, ReturnHit, Timeout, Contract!ContractNext
<1>3. ASSUME NEW c \in Client, StorageGet(c)
      PROVE  Contract!ContractNext
  <2>1. CASE Contract!Drop(c)
    BY <2>1 DEF Contract!ContractNext
  <2>2. ASSUME NEW e \in storage, e.key = call[c].key, e.hash = CallHash(c),
               Contract!Answer(c, e.write)
        PROVE  Contract!ContractNext
    <3>1. Contract!Allowed(c, e.write)
      BY <1>3, <2>2, FoundIsAllowed DEF StorageGet
    <3> QED
      BY <2>2, <3>1 DEF Contract!ContractNext, Contract!Allowed
  <2> QED
    BY <1>3, <2>1, <2>2 DEF StorageGet
<1>4. ASSUME NEW c \in Client, SetMissingTags(c)
      PROVE  UNCHANGED Contract!contractVars
  BY <1>4 DEF SetMissingTags
<1>5. CASE Invalidation
  BY <1>5 DEF Invalidation, InvalidateTags, InvalidateAll, InvalidateTimeout, Contract!ContractNext
<1>6. CASE Environment
  BY <1>6 DEF Environment, LateCommand, LoseTag, LoseEntry
<1>7. CASE UNCHANGED vars
  BY <1>7 DEF vars
<1> QED
  BY <1>1, <1>2, <1>3, <1>4, <1>5, <1>6, <1>7 DEF Next, ClientStep

LEMMA StepTypes ==
  ASSUME IInv, [Next]_vars
  PROVE  TypeOK'
<1>1. Contract!ContractTypeOK'
  BY StepImplementsContract, ContractTypes DEF IInv, TypeOK
<1>2. tagValue' \in [AllTag -> Rand \cup {Nil}]
  <2>1. CASE UNCHANGED tagValue
    BY <2>1 DEF IInv, TypeOK
  <2>2. ASSUME NEW c \in Client, SetMissingTags(c)
        PROVE  tagValue' \in [AllTag -> Rand \cup {Nil}]
    BY <2>2, MissingTags, SetTagValuesType DEF SetMissingTags, IInv
  <2>3. ASSUME NEW c \in Client, ClientStep(c), ~SetMissingTags(c)
        PROVE  UNCHANGED tagValue
    BY <2>3 DEF ClientStep, SetBytes, GetBytes, Delete, MGet, StorageSet, StorageDelete,
                StorageGet, ReturnHit, Timeout, cacheVars
  <2>4. CASE Invalidation
    BY <2>1, <2>4, SetTagValuesType
       DEF Invalidation, InvalidateTags, InvalidateAll, InvalidateTimeout, IInv, AllTag
  <2>5. ASSUME NEW l \in late, LateCommand(l)
        PROVE  tagValue' \in [AllTag -> Rand \cup {Nil}]
    <3>1. l.cmd = "tags" => l.tags \in SUBSET AllTag
      BY DEF IInv, TypeOK, LateTags, LatePut, LateDel
    <3> QED
      BY <2>1, <2>5, <3>1, SetTagValuesType DEF LateCommand, IInv
  <2>6. CASE Environment
    BY <2>1, <2>5, <2>6 DEF Environment, LoseTag, LoseEntry, IInv, TypeOK
  <2>7. CASE UNCHANGED vars
    BY <2>1, <2>7 DEF vars
  <2> QED
    BY <2>1, <2>2, <2>3, <2>4, <2>6, <2>7 DEF Next
<1>3. storage' \subseteq Entry
  <2> SUFFICES ASSUME NEW e \in storage' PROVE e \in Entry
    OBVIOUS
  <2>1. storage \subseteq Entry /\ \A l \in LatePuts : l.entry \in Entry
    BY EntryTypes DEF IInv, Entries
  <2>2. \A c \in Client : StorageSet(c) => NewEntry(c) \in Entry
    BY NewEntryType DEF StorageSet, IInv
  <2> QED
    BY <2>1, <2>2, StorageEffect DEF IInv
<1>4. vals' \in [Client -> [AllTag -> Rand \cup {Nil}]]
  <2>1. CASE UNCHANGED vals
    BY <2>1 DEF IInv, TypeOK
  <2>2. ASSUME NEW c \in Client, SetMissingTags(c)
        PROVE  vals' \in [Client -> [AllTag -> Rand \cup {Nil}]]
    BY <2>2, MissingTags, FreshValues DEF SetMissingTags, IInv, TypeOK
  <2>3. ASSUME NEW c \in Client, ClientStep(c), ~SetMissingTags(c)
        PROVE  vals' \in [Client -> [AllTag -> Rand \cup {Nil}]]
    BY <2>1, <2>3, MGetType, ForgetType
       DEF ClientStep, SetBytes, GetBytes, Delete, StorageSet, StorageDelete,
           StorageGet, ReturnHit, Timeout, cacheVars, IInv
  <2>4. CASE Invalidation
    BY <2>1, <2>4 DEF Invalidation, InvalidateTags, InvalidateAll, InvalidateTimeout
  <2>5. CASE Environment
    BY <2>1, <2>5 DEF Environment, LateCommand, LoseTag, LoseEntry
  <2>6. CASE UNCHANGED vars
    BY <2>1, <2>6 DEF vars
  <2> QED
    BY <2>2, <2>3, <2>4, <2>5, <2>6 DEF Next
<1>5. late' \subseteq LateTags \cup LatePut \cup LateDel
  <2> DEFINE L == LateTags \cup LatePut \cup LateDel
  <2>1. CASE late' \subseteq late
    BY <2>1 DEF IInv, TypeOK
  <2>2. ASSUME NEW c \in Client, Timeout(c)
        PROVE  late' \subseteq L
    <3>1. CurrentCommand(c) \subseteq L
      BY <2>2, AbandonedCommand DEF Timeout, IInv
    <3> QED
      BY <2>2, <3>1 DEF Timeout, Abandon, IInv, TypeOK
  <2>3. ASSUME NEW c \in Client, ClientStep(c), ~Timeout(c)
        PROVE  late' = late
    BY <2>3 DEF ClientStep, SetBytes, GetBytes, Delete, MGet, SetMissingTags, StorageSet,
                StorageDelete, StorageGet, ReturnHit, cacheVars
  <2>4. ASSUME NEW T \in SUBSET AllTag, InvalidateTimeout(T)
        PROVE  late' \subseteq L
    BY <2>4 DEF InvalidateTimeout, Abandon, LateTags, IInv, TypeOK
  <2>5. CASE Invalidation
    BY <2>1, <2>4, <2>5 DEF Invalidation, InvalidateTags, InvalidateAll, AllTag
  <2>6. CASE Environment
    BY <2>1, <2>6 DEF Environment, LateCommand, LoseTag, LoseEntry
  <2>7. CASE UNCHANGED vars
    BY <2>1, <2>7 DEF vars
  <2> QED
    BY <2>1, <2>2, <2>3, <2>5, <2>6, <2>7 DEF Next
<1> QED
  BY <1>1, <1>2, <1>3, <1>4, <1>5 DEF TypeOK

-----------------------------------------------------------------------------
(* Writes and calls *)

(* Writes are never forgotten; only a set() that stores completes one.     *)
LEMMA WritesEffect ==
  ASSUME [Next]_vars
  PROVE  /\ started \subseteq started'
         /\ completed \subseteq completed'
         /\ \A w \in completed' : \/ w \in completed
                                  \/ \E c \in Client : StorageSet(c) /\ w = call[c].write
<1>1. CASE UNCHANGED <<started, completed>>
  BY <1>1
<1>2. ASSUME NEW c \in Client, Begins(c)
      PROVE  started \subseteq started' /\ completed' = completed
  BY <1>2 DEF Begins, SetBytes, GetBytes, Delete, Contract!BeginSet, Contract!BeginGet,
              Contract!BeginDelete
<1>3. ASSUME NEW c \in Client, StorageSet(c)
      PROVE  started' = started /\ completed' = completed \cup {call[c].write}
  BY <1>3 DEF StorageSet, Contract!FinishSet
<1>4. ASSUME NEW c \in Client, ClientStep(c), ~Begins(c), ~StorageSet(c)
      PROVE  UNCHANGED <<started, completed>>
  BY <1>4 DEF ClientStep, Begins, SetMissingTags, StorageDelete, StorageGet, ReturnHit, Timeout,
              Contract!FinishDelete, Contract!Drop, Contract!Answer
<1>5. CASE Invalidation
  BY <1>1, <1>5 DEF Invalidation, InvalidateTags, InvalidateAll, InvalidateTimeout,
                    Contract!Supersede
<1>6. CASE Environment
  BY <1>1, <1>6 DEF Environment, LateCommand, LoseTag, LoseEntry
<1>7. CASE UNCHANGED vars
  BY <1>1, <1>7 DEF vars
<1> QED
  BY <1>1, <1>2, <1>3, <1>4, <1>5, <1>6, <1>7 DEF Next

(* The ways to supersede a write.                                          *)
LEMMA SupersededEffect ==
  ASSUME [Next]_vars, NEW w \in superseded'
  PROVE  \/ w \in superseded
         \/ \E c \in Client : (StorageSet(c) \/ StorageDelete(c)) /\ w \in call[c].past
         \/ \E T \in SUBSET Tag : InvalidateTags(T) /\ w \in completed /\ w.tags \cap T # {}
         \/ InvalidateAll /\ w \in completed
<1>1. CASE UNCHANGED superseded
  BY <1>1
<1>2. ASSUME NEW c \in Client, ClientStep(c), ~StorageSet(c), ~StorageDelete(c)
      PROVE  UNCHANGED superseded
  BY <1>2 DEF ClientStep, SetBytes, GetBytes, Delete, SetMissingTags, StorageGet, ReturnHit,
              Timeout, Contract!BeginSet, Contract!BeginGet, Contract!BeginDelete,
              Contract!Drop, Contract!Answer
<1>3. ASSUME NEW c \in Client, StorageSet(c) \/ StorageDelete(c)
      PROVE  superseded' = superseded \cup call[c].past
  BY <1>3 DEF StorageSet, StorageDelete, Contract!FinishSet, Contract!FinishDelete
<1>4. CASE Invalidation
  BY <1>4 DEF Invalidation, InvalidateTags, InvalidateAll, InvalidateTimeout,
              Contract!Supersede, Contract!Tagged
<1>5. CASE Environment
  BY <1>1, <1>5 DEF Environment, LateCommand, LoseTag, LoseEntry
<1>6. CASE UNCHANGED vars
  BY <1>1, <1>6 DEF vars
<1> QED
  BY <1>1, <1>2, <1>3, <1>4, <1>5, <1>6 DEF Next

LEMMA StepCallsHaveKeys ==
  ASSUME IInv, [Next]_vars
  PROVE  CallsHaveKeys'
<1> SUFFICES ASSUME NEW c \in Client, call'[c].kind \in {"get", "delete"}
             PROVE  call'[c].key \in Key
  BY DEF CallsHaveKeys
<1> USE DEF IInv, TypeOK, Contract!ContractTypeOK
<1>1. CASE call'[c] = call[c]
  BY <1>1 DEF CallsHaveKeys
<1>2. CASE call'[c] = Contract!Idle
  BY <1>2 DEF Contract!Idle
<1>3. CASE Begins(c)
  BY <1>3 DEF Begins, SetBytes, GetBytes, Delete, Contract!BeginSet, Contract!BeginGet,
              Contract!BeginDelete
<1>4. CASE SetMissingTags(c)
  BY <1>1, <1>4 DEF SetMissingTags
<1>5. CASE StorageGet(c)
  BY <1>5 DEF StorageGet, Contract!Drop, Contract!Answer, Contract!Idle, Contract!Call
<1> QED
  BY <1>1, <1>2, <1>3, <1>4, <1>5, CallEffect

LEMMA StepPastIsPast ==
  ASSUME IInv, [Next]_vars
  PROVE  PastIsPast'
<1> SUFFICES ASSUME NEW c \in Client
             PROVE  /\ call'[c].past \subseteq completed'
                    /\ call'[c].kind \in {"set", "delete"} =>
                         \A w \in call'[c].past : w.key = call'[c].key /\ w.tags = call'[c].tags
  BY DEF PastIsPast
<1> USE DEF IInv, TypeOK, Contract!ContractTypeOK
<1>1. CASE call'[c] = call[c]
  BY <1>1, WritesEffect DEF PastIsPast
<1>2. CASE call'[c] = Contract!Idle
  BY <1>2 DEF Contract!Idle
<1>3. CASE Begins(c)
  BY <1>3, WritesEffect
     DEF Begins, SetBytes, GetBytes, Delete, Contract!BeginSet, Contract!BeginGet,
         Contract!BeginDelete, Contract!SameEntry
<1>4. CASE SetMissingTags(c)
  BY <1>1, <1>4 DEF SetMissingTags
<1>5. CASE StorageGet(c)
  <2>1. CASE Contract!Drop(c)
    BY <1>2, <2>1 DEF Contract!Drop
  <2>2. ASSUME NEW w, Contract!Answer(c, w)
        PROVE  call'[c].past = call[c].past /\ call'[c].kind = "hit"
    BY <2>2 DEF Contract!Answer, Contract!Call
  <2> QED
    BY <1>5, <2>1, <2>2, WritesEffect DEF StorageGet, PastIsPast
<1> QED
  BY <1>1, <1>2, <1>3, <1>4, <1>5, CallEffect

LEMMA StepNoSupersededHit ==
  ASSUME IInv, [Next]_vars
  PROVE  NoSupersededHit'
<1> SUFFICES ASSUME NEW c \in Client, call'[c].kind = "hit"
             PROVE  call'[c].write \notin call'[c].past
  BY DEF NoSupersededHit
<1> USE DEF IInv, TypeOK, Contract!ContractTypeOK
<1>1. CASE call'[c] = call[c]
  BY <1>1 DEF NoSupersededHit
<1>2. CASE call'[c] = Contract!Idle
  BY <1>2 DEF Contract!Idle
<1>3. CASE Begins(c)
  BY <1>3 DEF Begins, SetBytes, GetBytes, Delete, Contract!BeginSet, Contract!BeginGet,
              Contract!BeginDelete
<1>4. CASE SetMissingTags(c)
  BY <1>1, <1>4 DEF SetMissingTags
<1>5. CASE StorageGet(c)
  <2>1. CASE Contract!Drop(c)
    BY <1>2, <2>1 DEF Contract!Drop
  <2>2. ASSUME NEW e \in storage, e.key = call[c].key, e.hash = CallHash(c),
               Contract!Answer(c, e.write)
        PROVE  call'[c].write \notin call'[c].past
    <3>1. e.write \notin call[c].past
      BY <1>5, <2>2, FoundIsAllowed DEF StorageGet, Contract!Allowed
    <3>2. call'[c].write = e.write /\ call'[c].past = call[c].past
      BY <2>2 DEF Contract!Answer, Contract!Call
    <3> QED
      BY <3>1, <3>2
  <2> QED
    BY <1>5, <2>1, <2>2 DEF StorageGet
<1> QED
  BY <1>1, <1>2, <1>3, <1>4, <1>5, CallEffect

(* A set() that is under way after the step was so before, or begins now.  *)
LEMMA SetsUnderWay ==
  ASSUME TypeOK, [Next]_vars, NEW c \in Client, call'[c].kind = "set"
  PROVE  \/ call'[c] = call[c]
         \/ \E k \in Key, T \in SUBSET Tag : SetBytes(c, k, T)
<1> USE DEF TypeOK, Contract!ContractTypeOK
<1>1. CASE call'[c] = Contract!Idle
  BY <1>1 DEF Contract!Idle
<1>2. CASE Begins(c)
  BY <1>2 DEF Begins, GetBytes, Delete, Contract!BeginGet, Contract!BeginDelete
<1>3. CASE SetMissingTags(c)
  BY <1>3 DEF SetMissingTags
<1>4. CASE StorageGet(c)
  BY <1>4 DEF StorageGet, Contract!Drop, Contract!Answer, Contract!Idle, Contract!Call
<1> QED
  BY <1>1, <1>2, <1>3, <1>4, CallEffect

(* A new set() carries a write that nothing carried before.                *)
LEMMA NewWrite ==
  ASSUME TypeOK, NEW c \in Client, NEW k \in Key, NEW T \in SUBSET Tag, SetBytes(c, k, T)
  PROVE  /\ call'[c].write \notin started
         /\ call'[c].write \in started'
         /\ call'[c].write.key = call'[c].key /\ call'[c].key = k
         /\ call'[c].write.tags = call'[c].tags
         /\ completed' = completed
         /\ late' = late
         /\ \A d \in Client \ {c} : call'[d] = call[d]
BY DEF SetBytes, MGet, Contract!BeginSet, TypeOK, Contract!ContractTypeOK

LEMMA StepWritesInFlight ==
  ASSUME IInv, [Next]_vars
  PROVE  WritesInFlight'
<1> USE DEF IInv
<1>1. ASSUME NEW c \in Client, StorageSet(c)
      PROVE  call'[c].kind = "idle" /\ late' = late
  BY <1>1 DEF StorageSet, Contract!FinishSet, Contract!Idle, TypeOK, Contract!ContractTypeOK
<1>2. ASSUME NEW c \in Client, Timeout(c)
      PROVE  call'[c].kind = "idle"
  BY <1>2 DEF Timeout, Contract!Drop, Contract!Idle, TypeOK, Contract!ContractTypeOK
<1>3. ASSUME NEW l \in LatePuts'
      PROVE  l.entry.write \notin completed'
  <2>1. CASE l \in LatePuts
    <3>1. \A c \in Client : StorageSet(c) => l.entry.write # call[c].write
      BY <2>1 DEF WritesInFlight, StorageSet
    <3> QED
      BY <2>1, <3>1, WritesEffect DEF WritesInFlight
  <2>2. CASE l \notin LatePuts
    <3>1. PICK c \in Client : call[c].kind = "set" /\ l.entry = NewEntry(c)
      BY <2>2, LatePutsEffect
    <3>2. l.entry.write \notin completed
      BY <3>1 DEF NewEntry, WritesInFlight
    <3>3. \A d \in Client : ~StorageSet(d)
      BY <1>1, <2>2 DEF LatePuts
    <3> QED
      BY <3>2, <3>3, WritesEffect
  <2> QED
    BY <2>1, <2>2
<1>4. ASSUME NEW c \in Client, call'[c].kind = "set"
      PROVE  /\ call'[c].key \in Key
             /\ call'[c].write \in started' \ completed'
             /\ call'[c].write.key = call'[c].key
             /\ call'[c].write.tags = call'[c].tags
             /\ \A d \in Client \ {c} : call'[d].kind = "set" => call'[d].write # call'[c].write
             /\ \A l \in LatePuts' : l.entry.write # call'[c].write
  <2>1. CASE call'[c] = call[c]
    <3>1. call'[c].write \notin completed'
      <4>1. \A d \in Client : StorageSet(d) => call[d].write # call[c].write
        BY <1>1, <1>4, <2>1 DEF WritesInFlight, StorageSet
      <4> QED
        BY <1>4, <2>1, <4>1, WritesEffect DEF WritesInFlight
    <3>2. ASSUME NEW d \in Client \ {c}, call'[d].kind = "set"
          PROVE  call'[d].write # call'[c].write
      <4>1. CASE call'[d] = call[d]
        BY <1>4, <2>1, <3>2, <4>1 DEF WritesInFlight
      <4>2. CASE \E k \in Key, T \in SUBSET Tag : SetBytes(d, k, T)
        BY <1>4, <2>1, <4>2, NewWrite DEF WritesInFlight
      <4> QED
        BY <3>2, <4>1, <4>2, SetsUnderWay
    <3>3. ASSUME NEW l \in LatePuts'
          PROVE  l.entry.write # call'[c].write
      <4>1. ASSUME NEW d \in Client, Timeout(d), call[d].kind = "set", l.entry = NewEntry(d)
            PROVE  l.entry.write # call'[c].write
        <5>1. d # c
          BY <1>2, <1>4, <4>1
        <5> QED
          BY <1>4, <2>1, <4>1, <5>1 DEF WritesInFlight, NewEntry
      <4> QED
        BY <1>4, <2>1, <4>1, LatePutsEffect DEF WritesInFlight
    <3> QED
      BY <1>4, <2>1, <3>1, <3>2, <3>3, WritesEffect DEF WritesInFlight
  <2>2. ASSUME NEW k \in Key, NEW T \in SUBSET Tag, SetBytes(c, k, T)
        PROVE  /\ call'[c].key \in Key
               /\ call'[c].write \in started' \ completed'
               /\ call'[c].write.key = call'[c].key
               /\ call'[c].write.tags = call'[c].tags
               /\ \A d \in Client \ {c} : call'[d].kind = "set" => call'[d].write # call'[c].write
               /\ \A l \in LatePuts' : l.entry.write # call'[c].write
    <3>1. call'[c].write \in started' \ completed'
      BY <2>2, NewWrite DEF TypeOK, Contract!ContractTypeOK
    <3>2. \A d \in Client \ {c} : call'[d].kind = "set" => call'[d].write # call'[c].write
      BY <2>2, NewWrite DEF WritesInFlight
    <3>3. \A l \in LatePuts' : l.entry.write \in started
      BY <2>2, NewWrite DEF EntriesKeepTheirWrite, Entries, LatePuts
    <3> QED
      BY <2>2, <3>1, <3>2, <3>3, NewWrite
  <2> QED
    BY <1>4, <2>1, <2>2, SetsUnderWay
<1> QED
  BY <1>3, <1>4 DEF WritesInFlight

(* A new entry is the entry of a set() that was under way.                 *)
LEMMA EntriesEffect ==
  ASSUME IInv, [Next]_vars, NEW e \in Entries'
  PROVE  \/ e \in Entries
         \/ \E c \in Client : call[c].kind = "set" /\ HasHash(c) /\ e = NewEntry(c)
<1>1. CASE e \in storage'
  BY <1>1, StorageEffect DEF IInv, Entries, StorageSet
<1>2. ASSUME NEW l \in LatePuts', e = l.entry
      PROVE  \/ e \in Entries
             \/ \E c \in Client : call[c].kind = "set" /\ HasHash(c) /\ e = NewEntry(c)
  BY <1>2, LatePutsEffect DEF IInv, Entries
<1> QED
  BY <1>1, <1>2 DEF Entries

LEMMA StepEntriesKeepTheirWrite ==
  ASSUME IInv, [Next]_vars
  PROVE  EntriesKeepTheirWrite'
<1> SUFFICES ASSUME NEW e \in Entries'
             PROVE  e.write \in started' /\ e.write.key = e.key
  BY DEF EntriesKeepTheirWrite
<1>1. CASE e \in Entries
  BY <1>1, WritesEffect DEF IInv, EntriesKeepTheirWrite
<1>2. ASSUME NEW c \in Client, call[c].kind = "set", e = NewEntry(c)
      PROVE  e.write \in started' /\ e.write.key = e.key
  BY <1>2, WritesEffect DEF IInv, NewEntry, WritesInFlight
<1> QED
  BY <1>1, <1>2, EntriesEffect

(* An entry that arrives in Redis was not superseded, nor even completed.  *)
LEMMA NewEntriesAreUnfinished ==
  ASSUME IInv, [Next]_vars, NEW e \in storage', e.write \in completed
  PROVE  e \in storage
<1>1. \A c \in Client : StorageSet(c) => NewEntry(c).write \notin completed
  BY DEF IInv, WritesInFlight, StorageSet, NewEntry
<1>2. \A l \in LatePuts : l.entry.write \notin completed
  BY DEF IInv, WritesInFlight
<1> QED
  BY <1>1, <1>2, StorageEffect DEF IInv

-----------------------------------------------------------------------------
(* The owners of values *)

(* Values that nothing refers to can be given to any tags.                 *)
LEMMA NewOwners ==
  ASSUME NEW owner \in [Rand -> AllTag], NEW T \in SUBSET AllTag, NEW f \in Fresh(T)
  PROVE  \E o \in [Rand -> AllTag] :
           /\ \A r \in Rand \cap InUse : o[r] = owner[r]
           /\ \A t \in T : o[f[t]] = t
<1> DEFINE o == [r \in Rand |-> IF \E t \in T : f[t] = r
                                 THEN CHOOSE t \in T : f[t] = r ELSE owner[r]]
<1>1. o \in [Rand -> AllTag]
  OBVIOUS
<1>2. \A r \in Rand \cap InUse : o[r] = owner[r]
  BY FreshValues
<1>3. ASSUME NEW t \in T PROVE o[f[t]] = t
  <2>1. \A s \in T : f[s] = f[t] => s = t
    BY FreshValues
  <2> QED
    BY <2>1, FreshValues
<1> HIDE DEF o
<1> QED
  BY <1>1, <1>2, <1>3

(* The step gives the tags of T the fresh values f, in Redis or in a call. *)
Draws(T, f) ==
  /\ \A t \in AllTag : \/ tagValue'[t] \in {Nil, tagValue[t]}
                       \/ t \in T /\ tagValue'[t] = f[t]
  /\ \A c \in Client, t \in AllTag : \/ vals'[c][t] \in {Nil, vals[c][t], tagValue[t]}
                                     \/ t \in T /\ vals'[c][t] = f[t]

LEMMA SetDraws ==
  ASSUME TypeOK, NEW T \in SUBSET AllTag, NEW f \in Fresh(T), SetTagValues(T, f),
         UNCHANGED vals
  PROVE  Draws(T, f)
BY DEF Draws, SetTagValues, TypeOK

LEMMA StepDraws ==
  ASSUME TypeOK, [Next]_vars
  PROVE  \E T \in SUBSET AllTag : \E f \in Fresh(T) : Draws(T, f)
<1> DEFINE Drawn == \E T \in SUBSET AllTag : \E f \in Fresh(T) : Draws(T, f)
<1>1. ASSUME \A t \in AllTag : tagValue'[t] \in {Nil, tagValue[t]},
             \A c \in Client, t \in AllTag : vals'[c][t] \in {Nil, vals[c][t], tagValue[t]}
      PROVE  Drawn
  <2> DEFINE f == [t \in {} |-> Nil]
  <2>1. f \in Fresh({})
    BY DEF Fresh
  <2>2. Draws({}, f)
    BY <1>1 DEF Draws
  <2> QED
    BY <2>1, <2>2
<1>2. ASSUME NEW T \in SUBSET AllTag, NEW f \in Fresh(T), Draws(T, f)
      PROVE  Drawn
  BY <1>2
<1> SUFFICES Drawn
  OBVIOUS
<1> HIDE DEF Drawn
<1>3. CASE UNCHANGED <<tagValue, vals>>
  BY <1>1, <1>3
<1>4. ASSUME NEW c \in Client, SetMissingTags(c)
      PROVE  Drawn
  <2>1. PICK f \in Fresh(Missing(c)) :
          /\ SetTagValues(Missing(c), f)
          /\ vals' = [vals EXCEPT ![c] =
               [t \in AllTag |-> IF t \in Missing(c) THEN f[t] ELSE vals[c][t]]]
    BY <1>4 DEF SetMissingTags
  <2>2. Draws(Missing(c), f)
    BY <2>1, MissingTags DEF Draws, SetTagValues, TypeOK
  <2> QED
    BY <1>2, <2>2, MissingTags
<1>5. ASSUME NEW c \in Client, NEW T \in SUBSET Tag, MGet(c, T)
      PROVE  Drawn
  BY <1>1, <1>5 DEF MGet, TypeOK
<1>6. ASSUME NEW c \in Client, Forget(c), UNCHANGED tagValue
      PROVE  Drawn
  BY <1>1, <1>6 DEF Forget, NoVals, TypeOK
<1>7. ASSUME NEW c \in Client, ClientStep(c)
      PROVE  Drawn
  BY <1>3, <1>4, <1>5, <1>6, <1>7
     DEF ClientStep, SetBytes, GetBytes, Delete, StorageSet, StorageDelete, StorageGet, ReturnHit,
         Timeout, cacheVars
<1>8. CASE Invalidation
  BY <1>2, <1>3, <1>8, SetDraws
     DEF Invalidation, InvalidateTags, InvalidateAll, InvalidateTimeout, AllTag
<1>9. ASSUME NEW l \in late, LateCommand(l)
      PROVE  Drawn
  <2>1. l.cmd = "tags" => l.tags \in SUBSET AllTag
    BY DEF TypeOK, LateTags, LatePut, LateDel
  <2> QED
    BY <1>2, <1>3, <1>9, <2>1, SetDraws DEF LateCommand
<1>10. ASSUME NEW t \in AllTag, LoseTag(t)
       PROVE  Drawn
  BY <1>1, <1>10 DEF LoseTag, TypeOK
<1>11. CASE Environment
  BY <1>3, <1>9, <1>10, <1>11 DEF Environment, LoseEntry
<1>12. CASE UNCHANGED vars
  BY <1>3, <1>12 DEF vars
<1> QED
  BY <1>7, <1>8, <1>11, <1>12 DEF Next

LEMMA StepValuesAreOwned ==
  ASSUME IInv, [Next]_vars
  PROVE  ValuesAreOwned'
<1> USE DEF IInv
<1>1. PICK owner \in [Rand -> AllTag] :
        /\ \A t \in AllTag : tagValue[t] # Nil => owner[tagValue[t]] = t
        /\ \A c \in Client, t \in AllTag : vals[c][t] # Nil => owner[vals[c][t]] = t
        /\ \A e \in Entries : {owner[r] : r \in e.hash} = FullTags(e.write.tags)
  BY DEF ValuesAreOwned
<1>2. PICK T \in SUBSET AllTag : \E f \in Fresh(T) : Draws(T, f)
  BY StepDraws
<1> PICK f \in Fresh(T) : Draws(T, f)
  BY <1>2
<1>3. PICK o \in [Rand -> AllTag] :
        /\ \A r \in Rand \cap InUse : o[r] = owner[r]
        /\ \A t \in T : o[f[t]] = t
  BY NewOwners
<1>4. /\ \A t \in AllTag : tagValue[t] # Nil => o[tagValue[t]] = t
      /\ \A c \in Client, t \in AllTag : vals[c][t] # Nil => o[vals[c][t]] = t
  BY <1>1, <1>3, ValuesInUse DEF TypeOK
<1>5. \A t \in AllTag : tagValue'[t] # Nil => o[tagValue'[t]] = t
  BY <1>3, <1>4 DEF Draws
<1>6. \A c \in Client, t \in AllTag : vals'[c][t] # Nil => o[vals'[c][t]] = t
  BY <1>3, <1>4 DEF Draws
<1>7. ASSUME NEW e \in Entries'
      PROVE  {o[r] : r \in e.hash} = FullTags(e.write.tags)
  <2>1. CASE e \in Entries
    <3>1. e.hash \subseteq Rand \cap InUse
      BY <2>1, ValuesInUse, EntryTypes
    <3>2. {o[r] : r \in e.hash} = {owner[r] : r \in e.hash}
      BY <1>3, <3>1
    <3> QED
      BY <1>1, <2>1, <3>2
  <2>2. ASSUME NEW c \in Client, call[c].kind = "set", HasHash(c), e = NewEntry(c)
        PROVE  {o[r] : r \in e.hash} = FullTags(e.write.tags)
    <3>1. e.hash = CallHash(c) /\ e.write.tags = call[c].tags
      BY <2>2 DEF NewEntry, WritesInFlight
    <3> QED
      BY <1>4, <2>2, <3>1, OwnersOfCallHash
  <2> QED
    BY <2>1, <2>2, EntriesEffect
<1> QED
  BY <1>5, <1>6, <1>7 DEF ValuesAreOwned

-----------------------------------------------------------------------------
(* Superseded entries *)

LEMMA SupersededAreCompleted ==
  ASSUME IInv, [Next]_vars, NEW w \in superseded'
  PROVE  w \in completed
BY SupersededEffect DEF IInv, PastIsPast, TypeOK, Contract!ContractTypeOK

(* A set() or delete() that succeeds leaves no entry of its past in reach. *)
LEMMA OverwrittenOutOfReach ==
  ASSUME IInv, [Next]_vars, NEW c \in Client, StorageSet(c) \/ StorageDelete(c),
         NEW e \in storage \cap storage', e.write \in call[c].past
  PROVE  ~Reachable(e)
<1> SUFFICES ASSUME Reachable(e) PROVE FALSE
  OBVIOUS
<1> USE DEF IInv
<1>1. call[c].kind \in {"set", "delete"}
  BY DEF StorageSet, StorageDelete
<1>2. e.hash = CallHash(c)
  BY <1>1 DEF OverwritesHitThePast
<1>3. e.key = call[c].key
  BY <1>1 DEF PastIsPast, EntriesKeepTheirWrite, Entries
<1>4. CASE StorageDelete(c)
  BY <1>2, <1>3, <1>4 DEF StorageDelete, Remove
<1>5. CASE StorageSet(c)
  <2>1. e = NewEntry(c)
    BY <1>2, <1>3, <1>5 DEF StorageSet, Store, NewEntry
  <2>2. e.write \in completed
    BY DEF PastIsPast
  <2> QED
    BY <1>5, <2>1, <2>2 DEF NewEntry, StorageSet, WritesInFlight
<1> QED
  BY <1>4, <1>5

LEMMA StepSupersededOutOfReach ==
  ASSUME IInv, [Next]_vars
  PROVE  SupersededOutOfReach'
<1> SUFFICES ASSUME NEW e \in storage', e.write \in superseded'
             PROVE  ~Reachable(e)'
  BY DEF SupersededOutOfReach
<1> USE DEF IInv
<1>1. e \in storage
  BY SupersededAreCompleted, NewEntriesAreUnfinished
<1>2. CASE ~Reachable(e)
  BY <1>1, <1>2, StepMovesTagsOn, OutOfReachForGood
<1>3. CASE e.write \in superseded
  BY <1>1, <1>2, <1>3 DEF SupersededOutOfReach
<1>4. ASSUME NEW c \in Client, StorageSet(c) \/ StorageDelete(c), e.write \in call[c].past
      PROVE  ~Reachable(e)'
  BY <1>1, <1>2, <1>4, OverwrittenOutOfReach
<1>5. ASSUME NEW T \in SUBSET Tag, InvalidateTags(T), NEW t \in e.write.tags \cap T
      PROVE  ~Reachable(e)'
  <2>1. tagValue'[t] \notin InUse
    BY <1>5, FreshTagsMoveOn DEF InvalidateTags, AllTag
  <2> QED
    BY <1>1, <2>1, InvalidatedOutOfReach DEF FullTags
<1>6. CASE InvalidateAll
  <2>1. tagValue'[All] \notin InUse
    BY <1>6, FreshTagsMoveOn DEF InvalidateAll, AllTag
  <2> QED
    BY <1>1, <2>1, InvalidatedOutOfReach DEF FullTags
<1> QED
  BY <1>3, <1>4, <1>5, <1>6, SupersededEffect

(* The tag values that a call reads when it begins.                        *)
LEMMA ReadOnBegin ==
  ASSUME TypeOK, NEW c \in Client, NEW T \in SUBSET Tag, MGet(c, T), call'[c].tags = T
  PROVE  /\ HasHash(c)' => \A t \in FullTags(T) : tagValue[t] # Nil
         /\ (\A t \in FullTags(T) : tagValue[t] # Nil) => HasHash(c)'
         /\ CallHash(c)' = Hash(tagValue, T)
<1>1. \A t \in FullTags(T) : t \in AllTag /\ vals'[c][t] = tagValue[t]
  BY DEF MGet, FullTags, AllTag, TypeOK
<1>2. HasHash(c)' <=> \A t \in FullTags(T) : tagValue[t] # Nil
  BY <1>1 DEF HasHash, Missing
<1>3. CallHash(c)' = Hash(tagValue, T)
  BY <1>1 DEF CallHash, Hash
<1> QED
  BY <1>2, <1>3

LEMMA StepGetsAvoidThePast ==
  ASSUME IInv, [Next]_vars
  PROVE  GetsAvoidThePast'
<1> SUFFICES ASSUME NEW c \in Client, call'[c].kind = "get", HasHash(c)',
                    NEW e \in storage', e.write \in call'[c].past
             PROVE  e.hash # CallHash(c)'
  BY DEF GetsAvoidThePast
<1> USE DEF IInv
<1>1. CASE call'[c] = call[c] /\ vals'[c] = vals[c]
  <2>1. e \in storage
    BY <1>1, NewEntriesAreUnfinished DEF PastIsPast
  <2>2. HasHash(c) /\ CallHash(c)' = CallHash(c)
    BY <1>1 DEF HasHash, Missing, CallHash, Hash
  <2> QED
    BY <1>1, <2>1, <2>2 DEF GetsAvoidThePast
<1>2. CASE call'[c] = Contract!Idle
  BY <1>2 DEF Contract!Idle
<1>3. ASSUME NEW k \in Key, NEW T \in SUBSET Tag, GetBytes(c, k, T)
      PROVE  e.hash # CallHash(c)'
  <2>1. call'[c].tags = T /\ call'[c].past = superseded
    BY <1>3 DEF GetBytes, Contract!BeginGet, TypeOK, Contract!ContractTypeOK
  <2>2. e \in storage /\ e \in Entries
    BY <1>3 DEF GetBytes, MGet, Entries
  <2>3. ~Reachable(e)
    BY <2>1, <2>2 DEF SupersededOutOfReach
  <2>4. /\ CallHash(c)' = Hash(tagValue, T)
        /\ \A t \in FullTags(T) : tagValue[t] # Nil
    BY <1>3, <2>1, ReadOnBegin DEF GetBytes
  <2>5. ASSUME e.hash = Hash(tagValue, T) PROVE e.write.tags = T
    <3>1. PICK owner \in [Rand -> AllTag] :
            /\ \A t \in AllTag : tagValue[t] # Nil => owner[tagValue[t]] = t
            /\ \A x \in Entries : {owner[r] : r \in x.hash} = FullTags(x.write.tags)
      BY DEF ValuesAreOwned
    <3>2. \A t \in FullTags(T) : owner[tagValue[t]] = t
      BY <2>4, <3>1 DEF FullTags, AllTag
    <3>3. {owner[r] : r \in e.hash} = FullTags(T)
      BY <2>5, <3>2 DEF Hash
    <3>4. FullTags(e.write.tags) = FullTags(T)
      BY <2>2, <3>1, <3>3
    <3> QED
      BY <2>2, <3>4, EntryTypes, FullTagsInjective
  <2> QED
    BY <2>3, <2>4, <2>5 DEF Reachable
<1>4. CASE Begins(c)
  <2>1. \A k \in Key, T \in SUBSET Tag : ~SetBytes(c, k, T) /\ ~Delete(c, k, T)
    BY DEF SetBytes, Delete, Contract!BeginSet, Contract!BeginDelete, TypeOK,
           Contract!ContractTypeOK
  <2> QED
    BY <1>3, <1>4, <2>1 DEF Begins
<1>5. CASE SetMissingTags(c)
  <2>1. PICK f \in Fresh(Missing(c)) :
          vals' = [vals EXCEPT ![c] =
            [t \in AllTag |-> IF t \in Missing(c) THEN f[t] ELSE vals[c][t]]]
    BY <1>5 DEF SetMissingTags
  <2>2. call' = call /\ storage' = storage
    BY <1>5 DEF SetMissingTags
  <2>3. PICK t \in Missing(c) : TRUE
    BY <1>5 DEF SetMissingTags, HasHash
  <2>4. vals'[c][t] = f[t] /\ f[t] \notin InUse
    BY <2>1, <2>3, MissingTags, FreshValues DEF TypeOK
  <2>5. vals'[c][t] \in CallHash(c)'
    BY <2>2, <2>3 DEF CallHash, Hash, Missing
  <2>6. e.hash \subseteq InUse
    BY <2>2, ValuesInUse DEF Entries
  <2> QED
    BY <2>4, <2>5, <2>6
<1>6. CASE StorageGet(c)
  BY <1>6 DEF StorageGet, Contract!Drop, Contract!Answer, Contract!Idle, Contract!Call, TypeOK,
              Contract!ContractTypeOK
<1> QED
  BY <1>1, <1>2, <1>4, <1>5, <1>6, CallEffect

LEMMA StepOverwritesHitThePast ==
  ASSUME IInv, [Next]_vars
  PROVE  OverwritesHitThePast'
<1> SUFFICES ASSUME NEW c \in Client, call'[c].kind \in {"set", "delete"},
                    NEW e \in storage', e.write \in call'[c].past, Reachable(e)'
             PROVE  HasHash(c)' /\ e.hash = CallHash(c)'
  BY DEF OverwritesHitThePast
<1> USE DEF IInv
<1>1. ASSUME call'[c] = call[c]
      PROVE  HasHash(c) /\ e.hash = CallHash(c)
  <2>1. e \in storage
    BY <1>1, NewEntriesAreUnfinished DEF PastIsPast
  <2>2. Reachable(e)
    BY <2>1, StepMovesTagsOn, OutOfReachForGood
  <2> QED
    BY <1>1, <2>1, <2>2 DEF OverwritesHitThePast
<1>2. CASE call'[c] = call[c] /\ vals'[c] = vals[c]
  BY <1>1, <1>2 DEF HasHash, Missing, CallHash, Hash
<1>3. CASE call'[c] = Contract!Idle
  BY <1>3 DEF Contract!Idle
<1>4. ASSUME NEW k \in Key, NEW T \in SUBSET Tag, SetBytes(c, k, T) \/ Delete(c, k, T)
      PROVE  HasHash(c)' /\ e.hash = CallHash(c)'
  <2>1. /\ call'[c].tags = T /\ call'[c].past = Contract!SameEntry(k, T)
        /\ MGet(c, T)
    BY <1>4 DEF SetBytes, Delete, Contract!BeginSet, Contract!BeginDelete, TypeOK,
                Contract!ContractTypeOK
  <2>2. e \in storage /\ UNCHANGED tagValue
    BY <2>1 DEF MGet
  <2>3. e.hash = Hash(tagValue, T)
    BY <2>1, <2>2 DEF Reachable, Contract!SameEntry, Hash
  <2>4. \A t \in FullTags(T) : tagValue[t] # Nil
    <3>1. e.hash \subseteq Rand
      BY <2>2, EntryTypes DEF Entries
    <3> QED
      BY <2>3, <3>1, NamesAssumption DEF Hash
  <2> QED
    BY <2>1, <2>3, <2>4, ReadOnBegin
<1>5. CASE Begins(c)
  <2>1. \A k \in Key, T \in SUBSET Tag : ~GetBytes(c, k, T)
    BY DEF GetBytes, Contract!BeginGet, TypeOK, Contract!ContractTypeOK
  <2> QED
    BY <1>4, <1>5, <2>1 DEF Begins
<1>6. CASE SetMissingTags(c)
  BY <1>1, <1>6 DEF SetMissingTags
<1>7. CASE StorageGet(c)
  BY <1>7 DEF StorageGet, Contract!Drop, Contract!Answer, Contract!Idle, Contract!Call, TypeOK,
              Contract!ContractTypeOK
<1> QED
  BY <1>2, <1>3, <1>5, <1>6, <1>7, CallEffect

-----------------------------------------------------------------------------
(* Theorems *)

LEMMA InitIInv == Init => IInv
<1> SUFFICES ASSUME Init PROVE IInv
  OBVIOUS
<1> USE DEF Init, Contract!ContractInit
<1>1. Contract!Idle \in Contract!Call
  BY DEF Contract!Idle, Contract!Call, Contract!Kind
<1>2. TypeOK
  BY <1>1 DEF TypeOK, Contract!ContractTypeOK, NoVals
<1>3. /\ \A c \in Client : call[c].kind = "idle" /\ call[c].past = {}
      /\ Entries = {} /\ LatePuts = {}
  BY DEF Contract!Idle, Entries, LatePuts
<1>4. ValuesAreOwned
  <2> DEFINE owner == [r \in Rand |-> All]
  <2>1. owner \in [Rand -> AllTag]
    BY DEF AllTag
  <2>2. /\ \A t \in AllTag : tagValue[t] = Nil
        /\ \A c \in Client, t \in AllTag : vals[c][t] = Nil
    BY DEF NoVals
  <2> HIDE DEF owner
  <2> QED
    BY <1>3, <2>1, <2>2 DEF ValuesAreOwned
<1> QED
  BY <1>2, <1>3, <1>4
     DEF IInv, WritesInFlight, CallsHaveKeys, PastIsPast, EntriesKeepTheirWrite,
         SupersededOutOfReach, GetsAvoidThePast, OverwritesHitThePast, NoSupersededHit

LEMMA StepIInv == IInv /\ [Next]_vars => IInv'
BY StepTypes, StepWritesInFlight, StepCallsHaveKeys, StepPastIsPast, StepEntriesKeepTheirWrite,
   StepValuesAreOwned, StepSupersededOutOfReach, StepGetsAvoidThePast,
   StepOverwritesHitThePast, StepNoSupersededHit
   DEF IInv

(* The invariant behind the other theorems.                                *)
THEOREM Invariance == Spec => []IInv
<1>1. Init => IInv
  BY InitIInv
<1>2. IInv /\ [Next]_vars => IInv'
  BY StepIInv
<1> QED
  BY <1>1, <1>2, PTL DEF Spec

(* Every variable keeps its type.                                          *)
THEOREM TypeCorrectness == Spec => []TypeOK
<1>1. IInv => TypeOK
  BY DEF IInv
<1> QED
  BY <1>1, Invariance, PTL

(* A get() never returns a value that was overwritten, deleted or          *)
(* invalidated before the get() began (Service._get_bytes).                *)
THEOREM NeverSuperseded == Spec => []NoSupersededHit
<1>1. IInv => NoSupersededHit
  BY DEF IInv
<1> QED
  BY <1>1, Invariance, PTL

(* Invalidation is for good: an entry whose tag values have moved on never *)
(* comes back within reach (RedisMetadataAdapter.invalidate_tags).         *)
THEOREM OutOfReachStaysOut == Spec => NeverReachableAgain
<1>1. IInv /\ [Next]_vars =>
        [\A e \in storage : ~Reachable(e) => ~Reachable(e)']_vars
  BY StepMovesTagsOn, OutOfReachForGood DEF IInv
<1> QED
  BY <1>1, Invariance, PTL DEF Spec, NeverReachableAgain

(* The cache over Redis does only what CacheContract allows.               *)
THEOREM Refinement == Spec => ImplementsContract
<1>1. Init => Contract!ContractInit
  BY DEF Init
<1>2. IInv /\ [Next]_vars => [Contract!ContractNext]_(Contract!contractVars)
  BY StepImplementsContract
<1> QED
  BY <1>1, <1>2, Invariance, PTL DEF Spec, ImplementsContract, Contract!ContractSpec
=============================================================================
