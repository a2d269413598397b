---------------------------- MODULE TaggedCache ----------------------------
(***************************************************************************)
(* The cache operations of Service (rtc/app/service.py) over               *)
(* MetadataService and StorageService, with RedisMetadataAdapter and       *)
(* RedisStorageAdapter underneath, called by concurrent clients that share *)
(* one Redis and one namespace.                                            *)
(*                                                                         *)
(* Every tag has a random value in Redis.  The hash of the values of an    *)
(* entry's tags, and of the special tag All that every entry carries, is   *)
(* part of the Redis key of the entry; giving a tag a new value puts every *)
(* entry stored under the old one out of reach, in one SET.                *)
(*                                                                         *)
(* A step is one Redis command or one MULTI/EXEC pipeline, which Redis     *)
(* runs atomically; between two steps of a call any other client may run.  *)
(* Any key may disappear from Redis at any time (expiry, allkeys-lru       *)
(* eviction, a restart).  Any command may time out: the call is abandoned  *)
(* (cache bypassed) and Redis may still run the command later, or never.   *)
(*                                                                         *)
(* Abstractions.  get_random_bytes() (uuid4) is a value of Rand that       *)
(* nothing in the system refers to.  short_hash is injective: the hash of  *)
(* the sorted tag values is the set of these values.  The tags of a call   *)
(* are a set: repetitions and one-shot iterables are not modelled here.    *)
(***************************************************************************)
EXTENDS Naturals, FiniteSets

CONSTANTS
  Client, Key, Tag, WriteId, None,  \* as in CacheContract
  All,         \* SPECIAL_ALL_TAG_NAME
  Rand,        \* what get_random_bytes() may return
  Nil,         \* no value: the reply of Redis for a missing key
  MaxLate      \* bound: commands of abandoned calls that may be under way

ASSUME NamesAssumption == All \notin Tag /\ Nil \notin Rand /\ None \notin Key
ASSUME BoundAssumption == MaxLate \in Nat

VARIABLES
  call, started, completed, superseded,  \* see CacheContract
  tagValue,    \* Redis keys rtc:<ns>:t:<tag>: the value of each tag, or Nil
  storage,     \* Redis keys rtc:<ns>:s:<key>:<hash>: the entries
  vals,        \* vals[c]: the tag values that the call of c works with
  late         \* commands of abandoned calls that Redis may still run

cacheVars == <<tagValue, storage, vals, late>>
vars == <<call, started, completed, superseded, tagValue, storage, vals, late>>

Contract == INSTANCE CacheContract

AllTag == Tag \cup {All}

(* Mutant of FullTags: the special tag is forgotten.                       *)
TagsWithoutAll(T) == T

(* get_metadata_hash appends SPECIAL_ALL_TAG_NAME to the tags of the call. *)
FullTags(T) == T \cup {All}

(* Mutant of Hash: the special tag has a value, which is left out.         *)
HashWithoutAll(f, T) == {f[t] : t \in T}

Hash(f, T) == {f[t] : t \in FullTags(T)}

NoVals == [t \in AllTag |-> Nil]

Entry == [key : Key, hash : SUBSET Rand, write : Contract!Write]

(* Commands that can be left behind by a timeout.                          *)
LateTags == [cmd : {"tags"}, tags : SUBSET AllTag]
LatePut  == [cmd : {"put"}, entry : Entry]
LateDel  == [cmd : {"del"}, key : Key, hash : SUBSET Rand]

-----------------------------------------------------------------------------
(* Random values *)

InUse ==
  UNION {{tagValue[t] : t \in AllTag},
         {vals[c][t] : c \in Client, t \in AllTag},
         UNION {e.hash : e \in storage},
         UNION {l.entry.hash : l \in {x \in late : x.cmd = "put"}},
         UNION {l.hash : l \in {x \in late : x.cmd = "del"}}}

(* Mutant of Fresh: one value is drawn for all the tags of a pipeline.     *)
OneDraw(T) == {f \in [T -> Rand \ InUse] : \A s, t \in T : f[s] = f[t]}

(* Mutant of Fresh: values come back, as counters or clocks do after a     *)
(* restart.                                                                *)
ReusedValues(T) == {f \in [T -> Rand] : \A s, t \in T : f[s] = f[t] => s = t}

(* A new random value for each tag of T.                                   *)
Fresh(T) ==
  {f \in [T -> Rand \ InUse] : \A s, t \in T : f[s] = f[t] => s = t}

(* Mutant of SetTagValues: the pipeline stops after one of its commands.   *)
SetOneTagValue(T, f) ==
  tagValue' = [t \in AllTag |->
    IF t \in T /\ t = CHOOSE s \in T : TRUE THEN f[t] ELSE tagValue[t]]

(* The pipeline of SET commands, one per tag of T.                         *)
SetTagValues(T, f) ==
  tagValue' = [t \in AllTag |-> IF t \in T THEN f[t] ELSE tagValue[t]]

-----------------------------------------------------------------------------
(* The tags that the MGET of client c found no value for.                  *)
Missing(c) == {t \in FullTags(call[c].tags) : vals[c][t] = Nil}

(* The hash that MetadataService.get_metadata_hash has returned to c.      *)
CallHash(c) == Hash(vals[c], call[c].tags)

(* Mutant of HasHash: the missing values are never set.                    *)
AlwaysHasHash(c) == TRUE

HasHash(c) == Missing(c) = {}

Init ==
  /\ Contract!ContractInit
  /\ tagValue = NoVals
  /\ storage = {}
  /\ vals = [c \in Client |-> NoVals]
  /\ late = {}

(* get_or_set_tag_values, first round trip: MGET of all the tag keys.      *)
MGet(c, T) ==
  /\ vals' = [vals EXCEPT ![c] =
       [t \in AllTag |-> IF t \in FullTags(T) THEN tagValue[t] ELSE Nil]]
  /\ UNCHANGED <<tagValue, storage, late>>

(* set(), get() and delete() all begin by asking for the metadata hash.    *)
SetBytes(c, k, T) ==
  /\ \E i \in WriteId :
       Contract!BeginSet(c, [id |-> i, key |-> k, tags |-> T])
  /\ MGet(c, T)

GetBytes(c, k, T) == Contract!BeginGet(c, k, T) /\ MGet(c, T)

Delete(c, k, T) == Contract!BeginDelete(c, k, T) /\ MGet(c, T)

(* get_or_set_tag_values, second round trip: the values that were missing  *)
(* are drawn here and SET without NX, whatever Redis holds by now.         *)
SetMissingTags(c) ==
  /\ call[c].kind \in {"set", "get", "delete"}
  /\ ~HasHash(c)
  /\ \E f \in Fresh(Missing(c)) :
       /\ SetTagValues(Missing(c), f)
       /\ vals' = [vals EXCEPT ![c] =
            [t \in AllTag |-> IF t \in Missing(c) THEN f[t] ELSE vals[c][t]]]
  /\ UNCHANGED <<call, started, completed, superseded, storage, late>>

(* Mutant of Store: the former entry is still found.                       *)
StoreBeside(e) == storage' = storage \cup {e}

(* Redis SET of an entry: it replaces the one with the same key and hash.  *)
Store(e) ==
  storage' = {x \in storage : x.key # e.key \/ x.hash # e.hash} \cup {e}

Remove(k, h) == storage' = {x \in storage : x.key # k \/ x.hash # h}

NewEntry(c) ==
  [key |-> call[c].key, hash |-> CallHash(c), write |-> call[c].write]

Forget(c) == vals' = [vals EXCEPT ![c] = NoVals]

StorageSet(c) ==
  /\ call[c].kind = "set" /\ HasHash(c)
  /\ Store(NewEntry(c))
  /\ Contract!FinishSet(c)
  /\ Forget(c)
  /\ UNCHANGED <<tagValue, late>>

StorageDelete(c) ==
  /\ call[c].kind = "delete" /\ HasHash(c)
  /\ Remove(call[c].key, CallHash(c))
  /\ Contract!FinishDelete(c)
  /\ Forget(c)
  /\ UNCHANGED <<tagValue, late>>

(* Redis GET of the entry under the hash; _get_bytes returns what it finds. *)
StorageGet(c) ==
  /\ call[c].kind = "get" /\ HasHash(c)
  /\ LET found == {e \in storage : e.key = call[c].key /\ e.hash = CallHash(c)}
     IN \/ /\ found = {}
           /\ Contract!Drop(c)
        \/ \E e \in found : Contract!Answer(c, e.write)
  /\ Forget(c)
  /\ UNCHANGED <<tagValue, storage, late>>

ReturnHit(c) ==
  /\ call[c].kind = "hit"
  /\ Contract!Drop(c)
  /\ UNCHANGED cacheVars

(* invalidate_tags and invalidate_all: one pipeline of SETs.               *)
InvalidateTags(T) ==
  /\ \E f \in Fresh(T) : SetTagValues(T, f)
  /\ Contract!Supersede(Contract!Tagged(T))
  /\ UNCHANGED <<storage, vals, late>>

InvalidateAll ==
  /\ \E f \in Fresh({All}) : SetTagValues({All}, f)
  /\ Contract!Supersede(completed)
  /\ UNCHANGED <<storage, vals, late>>

-----------------------------------------------------------------------------
(* Failures *)

(* The command that client c is waiting for, if it changes anything.       *)
CurrentCommand(c) ==
  IF ~HasHash(c) THEN {[cmd |-> "tags", tags |-> Missing(c)]}
  ELSE IF call[c].kind = "set" THEN {[cmd |-> "put", entry |-> NewEntry(c)]}
  ELSE IF call[c].kind = "delete"
    THEN {[cmd |-> "del", key |-> call[c].key, hash |-> CallHash(c)]}
  ELSE {}

(* The commands C get no reply: Redis may run them later, unless they are  *)
(* lost on the way.                                                        *)
Abandon(C) ==
  \/ late' = late
  \/ Cardinality(late) < MaxLate /\ late' = late \cup C

(* A cache exception: the operation is bypassed (None or False).           *)
Timeout(c) ==
  /\ call[c].kind \in {"set", "get", "delete"}
  /\ Abandon(CurrentCommand(c))
  /\ Contract!Drop(c)
  /\ Forget(c)
  /\ UNCHANGED <<tagValue, storage>>

(* An invalidation that returns False.                                     *)
InvalidateTimeout(T) ==
  /\ Abandon({[cmd |-> "tags", tags |-> T]})
  /\ UNCHANGED <<call, started, completed, superseded, tagValue, storage, vals>>

(* Redis runs a command whose caller has gone.                             *)
LateCommand(l) ==
  /\ late' = late \ {l}
  /\ \/ /\ l.cmd = "tags"
        /\ \E f \in Fresh(l.tags) : SetTagValues(l.tags, f)
        /\ UNCHANGED storage
     \/ /\ l.cmd = "put"
        /\ Store(l.entry)
        /\ UNCHANGED tagValue
     \/ /\ l.cmd = "del"
        /\ Remove(l.key, l.hash)
        /\ UNCHANGED tagValue
  /\ UNCHANGED <<call, started, completed, superseded, vals>>

LoseTag(t) ==
  /\ tagValue[t] # Nil
  /\ tagValue' = [tagValue EXCEPT ![t] = Nil]
  /\ UNCHANGED <<call, started, completed, superseded, storage, vals, late>>

LoseEntry(e) ==
  /\ storage' = storage \ {e}
  /\ UNCHANGED <<call, started, completed, superseded, tagValue, vals, late>>

-----------------------------------------------------------------------------
ClientStep(c) ==
  \/ \E k \in Key, T \in SUBSET Tag :
       SetBytes(c, k, T) \/ GetBytes(c, k, T) \/ Delete(c, k, T)
  \/ SetMissingTags(c)
  \/ StorageSet(c)
  \/ StorageDelete(c)
  \/ StorageGet(c)
  \/ ReturnHit(c)
  \/ Timeout(c)

Invalidation ==
  \/ \E T \in SUBSET Tag : InvalidateTags(T) \/ InvalidateTimeout(T)
  \/ InvalidateAll
  \/ InvalidateTimeout({All})

Environment ==
  \/ \E l \in late : LateCommand(l)
  \/ \E t \in AllTag : LoseTag(t)
  \/ \E e \in storage : LoseEntry(e)

Next == (\E c \in Client : ClientStep(c)) \/ Invalidation \/ Environment

Spec == Init /\ [][Next]_vars

-----------------------------------------------------------------------------
(* Properties *)

TypeOK ==
  /\ Contract!ContractTypeOK
  /\ tagValue \in [AllTag -> Rand \cup {Nil}]
  /\ storage \subseteq Entry
  /\ vals \in [Client -> [AllTag -> Rand \cup {Nil}]]
  /\ late \subseteq LateTags \cup LatePut \cup LateDel

(* A get() never returns a value that was overwritten, deleted or          *)
(* invalidated, by a call that has succeeded, before the get() began.      *)
NoSupersededHit ==
  \A c \in Client : call[c].kind = "hit" => call[c].write \notin call[c].past

(* The service over Redis keeps the promises of CacheContract.             *)
ImplementsContract == Contract!ContractSpec

(* An entry is within reach when the tags it carries still have, in Redis, *)
(* the values whose hash is in its key.                                    *)
Reachable(e) == e.hash = Hash(tagValue, e.write.tags)

(* What makes O(1) invalidation sound: once the tag values have moved on,  *)
(* the entry that is left behind in Redis never comes back within reach.   *)
NeverReachableAgain ==
  [][\A e \in storage : ~Reachable(e) => ~Reachable(e)']_vars
=============================================================================
