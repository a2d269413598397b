----------------------------- MODULE LocalCache -----------------------------
(***************************************************************************)
(* The cache operations of Service (rtc/app/service.py) in local memory:   *)
(* DictMetadataAdapter for the tags, DictStorageAdapter for the entries,   *)
(* shared by the threads of one process.                                   *)
(*                                                                         *)
(* Each method of the adapters is decorated with @locked, but              *)
(* get_or_set_tag_values is a generator: the lock is released as soon as   *)
(* the generator exists, and its body runs without, one tag at a time,     *)
(* while get_metadata_hash joins the values.  A step is one access to a    *)
(* dictionary; any other thread may run in between, an invalidation that   *)
(* has overwritten only some of its tags included.                         *)
(*                                                                         *)
(* Random values, hashes and tags are abstracted as in TaggedCache.  A     *)
(* call begins, for the contract, when it reads its first tag: before that *)
(* it only waits for the lock.                                             *)
(***************************************************************************)
EXTENDS Naturals, FiniteSets

CONSTANTS
  Thread,      \* the threads that call the cache
  Key, Tag, WriteId, None,  \* as in CacheContract
  All,         \* SPECIAL_ALL_TAG_NAME
  TagSets,     \* the sets of tags that the application gives its entries
  Rank,        \* Rank[t]: the place of t in the order of the tag names
  Rand,        \* what get_random_bytes() may return
  Nil          \* no value, no tag

ASSUME TagsAssumption == TagSets \subseteq SUBSET Tag
ASSUME NamesAssumption ==
  All \notin Tag /\ Nil \notin Rand \cup Tag \cup {All} /\ None \notin Key
ASSUME RankAssumption == Rank \in [Tag \cup {All} -> Nat]

VARIABLES
  call, started, completed, superseded,  \* see CacheContract
  tags,        \* _tags: the value of each tag, or Nil
  data,        \* _data: the entries
  vals,        \* vals[c]: the values that the generator of c has yielded
  absent,      \* absent[c]: the tag that c has not found in _tags, or Nil
  pending      \* the tags that the holder of _internal_lock is to overwrite

cacheVars == <<tags, data, vals, absent, pending>>
vars == <<call, started, completed, superseded, cacheVars>>

(* The threads are the clients of the contract.  An invalidation of some   *)
(* tags is, for the contract, an invalidation of one tag after another.    *)
Contract == INSTANCE CacheContract WITH Client <- Thread

AllTag == Tag \cup {All}

FullTags(T) == T \cup {All}

Hash(f, T) == {f[t] : t \in FullTags(T)}

NoVals == [t \in AllTag |-> Nil]

Entry == [key : Key, hash : SUBSET Rand, write : Contract!Write]

-----------------------------------------------------------------------------
InUse ==
  UNION {{tags[t] : t \in AllTag},
         {vals[c][t] : c \in Thread, t \in AllTag},
         UNION {e.hash : e \in data}}

(* Mutant of Fresh: the values are not unique.                             *)
AnyValue == Rand

Fresh == Rand \ InUse

Unread(c) == {t \in FullTags(call[c].tags) : vals[c][t] = Nil}

CallHash(c) == Hash(vals[c], call[c].tags)

InCall(c) == call[c].kind \in {"set", "get", "delete"}

(* Mutant of HasHash: the hash is taken of the values read so far.         *)
HasSomeHash(c) == InCall(c)

HasHash(c) == InCall(c) /\ Unread(c) = {}

Init ==
  /\ Contract!ContractInit
  /\ tags = NoVals
  /\ data = {}
  /\ vals = [c \in Thread |-> NoVals]
  /\ absent = [c \in Thread |-> Nil]
  /\ pending = {}

(* self._tags.get: the value is yielded, or found missing.                 *)
Look(c, t) ==
  /\ vals' = [vals EXCEPT ![c][t] = tags[t]]
  /\ absent' = [absent EXCEPT ![c] = IF tags[t] = Nil THEN t ELSE Nil]
  /\ UNCHANGED <<tags, data, pending>>

(* The first of the sorted tags.                                           *)
First(T) == CHOOSE t \in T : \A s \in T : Rank[t] <= Rank[s]

SetBytes(c, k, T) ==
  /\ \E i \in WriteId : Contract!BeginSet(c, [id |-> i, key |-> k, tags |-> T])
  /\ Look(c, First(FullTags(T)))

GetBytes(c, k, T) == Contract!BeginGet(c, k, T) /\ Look(c, First(FullTags(T)))

Delete(c, k, T) == Contract!BeginDelete(c, k, T) /\ Look(c, First(FullTags(T)))

ReadTag(c) ==
  /\ InCall(c) /\ absent[c] = Nil /\ Unread(c) # {}
  /\ Look(c, First(Unread(c)))
  /\ UNCHANGED <<call, started, completed, superseded>>

(* A tag that was missing gets a new value, whatever _tags holds by now.   *)
CreateTag(c) ==
  /\ absent[c] # Nil
  /\ \E r \in Fresh :
       /\ tags' = [tags EXCEPT ![absent[c]] = r]
       /\ vals' = [vals EXCEPT ![c][absent[c]] = r]
  /\ absent' = [absent EXCEPT ![c] = Nil]
  /\ UNCHANGED <<call, started, completed, superseded, data, pending>>

Others(k, h) == {e \in data : e.key # k \/ e.hash # h}

Forget(c) ==
  /\ vals' = [vals EXCEPT ![c] = NoVals]
  /\ UNCHANGED <<tags, absent, pending>>

StorageSet(c) ==
  /\ call[c].kind = "set" /\ HasHash(c)
  /\ data' = Others(call[c].key, CallHash(c)) \cup
       {[key |-> call[c].key, hash |-> CallHash(c), write |-> call[c].write]}
  /\ Contract!FinishSet(c)
  /\ Forget(c)

(* Mutant of StorageDelete: another entry is removed.                      *)
StorageDeleteNothing(c) ==
  /\ call[c].kind = "delete" /\ HasHash(c)
  /\ Contract!FinishDelete(c)
  /\ Forget(c)
  /\ UNCHANGED data

StorageDelete(c) ==
  /\ call[c].kind = "delete" /\ HasHash(c)
  /\ data' = Others(call[c].key, CallHash(c))
  /\ Contract!FinishDelete(c)
  /\ Forget(c)

StorageGet(c) ==
  /\ call[c].kind = "get" /\ HasHash(c)
  /\ LET found == data \ Others(call[c].key, CallHash(c))
     IN IF found = {} THEN Contract!Drop(c)
        ELSE \E e \in found : Contract!Answer(c, e.write)
  /\ Forget(c)
  /\ UNCHANGED data

ReturnHit(c) == call[c].kind = "hit" /\ Contract!Drop(c) /\ UNCHANGED cacheVars

(* invalidate_tags holds the lock until every tag has a new value.         *)
(* invalidate_all is the same with All, which invalidate_tags also takes.  *)
BeginInvalidate(T) ==
  /\ pending = {} /\ T # {}
  /\ pending' = T
  /\ UNCHANGED <<call, started, completed, superseded, tags, data, vals, absent>>

InvalidateTag(t) ==
  /\ t \in pending
  /\ pending' = pending \ {t}
  /\ \E r \in Fresh : tags' = [tags EXCEPT ![t] = r]
  /\ Contract!Supersede(IF t = All THEN completed ELSE Contract!Tagged({t}))
  /\ UNCHANGED <<data, vals, absent>>

(* The lifetime of an item is over: the next get() removes it instead of   *)
(* returning it.  Tags have a lifetime too, but nobody looks at it.        *)
Expire(e) ==
  /\ data' = data \ {e}
  /\ UNCHANGED <<call, started, completed, superseded, tags, vals, absent, pending>>

-----------------------------------------------------------------------------
ThreadStep(c) ==
  \/ \E k \in Key, T \in TagSets :
       SetBytes(c, k, T) \/ GetBytes(c, k, T) \/ Delete(c, k, T)
  \/ ReadTag(c) \/ CreateTag(c)
  \/ StorageSet(c) \/ StorageDelete(c) \/ StorageGet(c) \/ ReturnHit(c)

Invalidation ==
  \/ \E T \in SUBSET AllTag : BeginInvalidate(T)
  \/ \E t \in AllTag : InvalidateTag(t)

Next ==
  \/ \E c \in Thread : ThreadStep(c)
  \/ Invalidation
  \/ \E e \in data : Expire(e)

Spec == Init /\ [][Next]_vars

-----------------------------------------------------------------------------
(* Properties *)

TypeOK ==
  /\ Contract!ContractTypeOK
  /\ tags \in [AllTag -> Rand \cup {Nil}]
  /\ data \subseteq Entry
  /\ vals \in [Thread -> [AllTag -> Rand \cup {Nil}]]
  /\ absent \in [Thread -> AllTag \cup {Nil}]
  /\ pending \subseteq AllTag

(* The service in local memory keeps the promises of CacheContract too: a  *)
(* get() never returns a value that was overwritten, deleted or            *)
(* invalidated before the get() began, although it reads its tags one by   *)
(* one and without the lock, across invalidations that are half done.      *)
ImplementsContract == Contract!ContractSpec

Reachable(e) == e.hash = Hash(tags, e.write.tags)

(* An entry whose hash was read while an invalidation was half done may    *)
(* come within reach only by being stored; once out of reach, an entry     *)
(* never comes back.                                                       *)
NeverReachableAgain ==
  [][\A e \in data : ~Reachable(e) => ~Reachable(e)']_vars
=============================================================================
