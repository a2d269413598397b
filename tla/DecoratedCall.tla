--------------------------- MODULE DecoratedCall ---------------------------
(***************************************************************************)
(* What the arguments of a decorator do to the calls of the decorated      *)
(* function: _get_key, _get_full_tag_names and the wrapper of              *)
(* rtc/app/decorator.py, with the serializers and the hook, over Service   *)
(* (rtc/app/service.py) and MetadataService (rtc/app/metadata.py).         *)
(*                                                                         *)
(* The tags are an Iterable, static or computed for each call, and the     *)
(* wrapper iterates over them each time it reads the hash: to look the     *)
(* entry up, to look again once it has the lock, to store.  An iterator    *)
(* that can be consumed only once is empty from the second time on, and    *)
(* the hash is that of the special tag alone.  Values for the tags that    *)
(* are missing are drawn by the reader, and sent in a second round trip    *)
(* (get_or_set_tag_values in rtc/infra/adapters/metadata/redis.py).        *)
(*                                                                         *)
(* Abstractions.  The commands after the reading of the hash are one step  *)
(* (Decorator has them one by one).  A hash that can still be read, or     *)
(* that can be read once its reader has sent the values it drew, is named  *)
(* after the set of tags it was read from, {} or Tag; a hash whose tags    *)
(* have other values is Old (TaggedCache shows that it never comes back).  *)
(* The key is what matters about it: whether it could be computed, and     *)
(* whether it is true in the sense of Python.                              *)
(***************************************************************************)
EXTENDS Naturals

CONSTANTS
  Proc,        \* the threads that call the function
  Tag,         \* the tags of the decorator
  All,         \* the special tag
  Nil,         \* None: no hash, no entry, no lock
  Old,         \* any hash that is out of reach
  Garbage,     \* an entry that the unserializer refuses
  MaxVersion,  \* bound: changes of the data
  KeyForm, TagsForm, ArgForm  \* the arguments that are tried, see below

ASSUME TagAssumption == Tag # {} /\ All \notin Tag
ASSUME FormAssumption ==
  /\ KeyForm \subseteq {"true", "empty", "failing"}
  /\ TagsForm \subseteq {"none", "list", "iterator", "generator", "failing", "lazy",
                   "repeated"}
  /\ ArgForm \subseteq {"list", "iterator"}
ASSUME BoundAssumption == MaxVersion \in Nat
ASSUME NamesAssumption ==
  /\ Nil \notin {{}, Tag, Old, Garbage} \cup Nat
  /\ Old \notin {{}, Tag} /\ Garbage \notin Nat

VARIABLES
  form,        \* the arguments of the decorator; they never change
  version,     \* the version of the data the function reads
  flushed,     \* the version at the last invalidation that returned True
  entry,       \* entry[h]: the entry within reach under hash h, or Nil
  missing,     \* the tags that are not in Redis
  orphan,      \* the hashes whose lock belongs to a call that has ended
  spent,       \* spent[p]: the iterator p has the tags from is consumed
  pc,          \* pc[p]: what p does next
  seen,        \* seen[p]: the hash that p is reading, or Nil
  draws,       \* draws[p]: the tags that p has drawn values for, not sent
  hash,        \* hash[p]: metadata_hash, or Nil
  lockAt,      \* lockAt[p]: the hash whose lock was taken by p, or Nil
  locked,      \* locked[p]: lock_id is not None
  val,         \* val[p]: the value p has read or computed
  disturbed,   \* history: see CallLeavesEntry
  overlapped   \* history: see InvalidationReaches

data == <<form, version, flushed>>
redis == <<entry, missing, orphan>>
reading == <<spent, seen, draws>>
local == <<hash, lockAt, locked, val>>
history == <<disturbed, overlapped>>
vars == <<data, redis, pc, reading, local, history>>

(* key: a key ("true"), the key "" ("empty"), a key function that raises   *)
(* or arguments that are not serializable ("failing").                     *)
(* tags: None, a list or a function that returns one ("list"), a static    *)
(* iterator, a function that returns an iterator ("generator"), that       *)
(* raises ("failing"), or whose iterator raises ("lazy"); or a list in     *)
(* which each tag comes twice ("repeated").                                *)
(* arg: what invalidate() is given.                                        *)
Form == [key : KeyForm, tags : TagsForm, arg : ArgForm, lock : BOOLEAN]

Hash == {{}, Tag}

AllTag == Tag \cup {All}

(* The tags behind a hash.                                                 *)
Full(h) == h \cup {All}

Init ==
  /\ form \in Form
  /\ version = 0 /\ flushed = 0
  /\ entry = [h \in Hash |-> Nil]
  /\ missing = AllTag
  /\ orphan = {}
  /\ spent = [p \in Proc |-> FALSE]
  /\ pc = [p \in Proc |-> "idle"]
  /\ seen = [p \in Proc |-> Nil]
  /\ draws = [p \in Proc |-> {}]
  /\ hash = [p \in Proc |-> Nil]
  /\ lockAt = [p \in Proc |-> Nil]
  /\ locked = [p \in Proc |-> FALSE]
  /\ val = [p \in Proc |-> Nil]
  /\ disturbed = FALSE
  /\ overlapped = FALSE

-----------------------------------------------------------------------------
(* Reading the hash: get_metadata_hash *)

OneShot == form.tags \in {"iterator", "generator"}

(* chain(tag_names, All), without All: the tags the hash is read from.     *)
TagsRead(p) ==
  IF form.tags = "none" \/ (OneShot /\ spent[p]) THEN {} ELSE Tag

(* A static iterator is consumed for every call, another for one call.     *)
Consume(p) ==
  spent' = [q \in Proc |->
    spent[q] \/ form.tags = "iterator" \/ (form.tags = "generator" /\ q = p)]

(* A tag that is missing and comes twice is given two values by one        *)
(* pipeline: the hash is that of no later reading.                         *)
ReadHash(p) ==
  IF form.tags = "repeated" /\ missing \cap Tag # {} THEN Old ELSE TagsRead(p)

Goto(p, label) == pc' = [pc EXCEPT ![p] = label]

Mget(p) ==
  /\ pc[p] \in {"read", "again", "store"} /\ form.tags # "lazy"
  /\ seen[p] = Nil
  /\ Consume(p)
  /\ seen' = [seen EXCEPT ![p] = ReadHash(p)]
  /\ draws' = [draws EXCEPT ![p] = Full(TagsRead(p)) \cap missing]
  /\ UNCHANGED <<data, redis, pc, local, history>>

(* The tags of T have other values, or none.  A reader that is about to    *)
(* send values for some of them is concerned by the others only.           *)
Supersede(T) ==
  LET Gone == {h \in Hash : Full(h) \cap T # {}}
  IN  /\ entry' = [h \in Hash |-> IF h \in Gone THEN Nil ELSE entry[h]]
      /\ orphan' = orphan \ Gone
      /\ hash' = [p \in Proc |-> IF hash[p] \in Gone THEN Old ELSE hash[p]]
      /\ lockAt' = [p \in Proc |-> IF lockAt[p] \in Gone THEN Old ELSE lockAt[p]]
      /\ seen' = [p \in Proc |->
           IF seen[p] \in Gone /\ Full(seen[p]) \cap (T \ draws[p]) # {} THEN Old ELSE seen[p]]

(* The pipeline of SETs, which does not look whether a tag was created     *)
(* meanwhile; if it was, the run counts as disturbed.                      *)
Send(p) ==
  /\ draws[p] # {}
  /\ Supersede(draws[p])
  /\ missing' = missing \ draws[p]
  /\ draws' = [draws EXCEPT ![p] = {}]
  /\ disturbed' = (disturbed \/ ~(draws[p] \subseteq missing))
  /\ UNCHANGED <<data, pc, spent, locked, val, overlapped>>

(* p has the hash.                                                         *)
Ready(p) == seen[p] # Nil /\ draws[p] = {}

(* The reading is over, or given up.                                       *)
Forget(p) ==
  /\ seen' = [seen EXCEPT ![p] = Nil]
  /\ draws' = [draws EXCEPT ![p] = {}]

-----------------------------------------------------------------------------
(* The wrapper *)

Found(h) == IF h \in Hash THEN entry[h] ELSE Nil

(* unlock() compares ids.  Two old hashes may be the same or not.          *)
Release(p, h) ==
  \/ lockAt' = [lockAt EXCEPT ![p] = IF @ = h THEN Nil ELSE @]
  \/ h = Old /\ UNCHANGED lockAt

(* The key and the tags are computed, or the cache is bypassed.            *)
Call(p) ==
  /\ pc[p] = "idle"
  /\ Goto(p, IF form.key = "failing" \/ form.tags = "failing" THEN "compute" ELSE "read")
  /\ spent' = [spent EXCEPT ![p] = @ /\ form.tags = "iterator"]
  /\ UNCHANGED <<data, redis, seen, draws, local, history>>

Read(p) ==
  /\ pc[p] = "read" /\ Ready(p)
  /\ hash' = [hash EXCEPT ![p] = seen[p]]
  /\ IF Found(seen[p]) # Nil
     THEN val' = [val EXCEPT ![p] = Found(seen[p])] /\ Goto(p, "found")
     ELSE Goto(p, IF form.lock THEN "lock" ELSE "compute") /\ UNCHANGED val
  /\ Forget(p)
  /\ UNCHANGED <<data, redis, spent, lockAt, locked, history>>

(* The hashes within reach whose lock somebody has, or had.                *)
Taken == {h \in Hash : h \in orphan \/ \E p \in Proc : lockAt[p] = h}

(* The lock, at once or after a wait, or None after a wait.                *)
Lock(p) ==
  /\ pc[p] = "lock"
  /\ \/ /\ hash[p] \notin Taken
        /\ lockAt' = [lockAt EXCEPT ![p] = hash[p]]
        /\ locked' = [locked EXCEPT ![p] = TRUE]
        /\ UNCHANGED disturbed
     \/ /\ hash[p] \in Taken \cup {Old}
        /\ disturbed' = TRUE
        /\ UNCHANGED <<lockAt, locked>>
  /\ Goto(p, "again")
  /\ UNCHANGED <<data, redis, reading, hash, val, overlapped>>

(* The second read.  On a hit the lock is released, under the hash of this *)
(* read; without a lock, unlock(None) raises and the cache is bypassed.    *)
ReadAgain(p) ==
  /\ pc[p] = "again" /\ Ready(p)
  /\ \/ /\ Found(seen[p]) # Nil /\ locked[p]
        /\ hash' = [hash EXCEPT ![p] = seen[p]]
        /\ val' = [val EXCEPT ![p] = Found(seen[p])]
        /\ Release(p, seen[p])
        /\ locked' = [locked EXCEPT ![p] = FALSE]
        /\ Goto(p, "found")
     \/ /\ Found(seen[p]) # Nil /\ ~locked[p]
        /\ hash' = [hash EXCEPT ![p] = Nil]
        /\ Goto(p, "compute")
        /\ UNCHANGED <<lockAt, locked, val>>
     \/ /\ Found(seen[p]) = Nil
        /\ hash' = [hash EXCEPT ![p] = seen[p]]
        /\ \/ Goto(p, "compute")                    \* locked, or lock_timeout is over
           \/ ~locked[p] /\ Goto(p, "lock")
        /\ UNCHANGED <<lockAt, locked, val>>
  /\ Forget(p)
  /\ UNCHANGED <<data, redis, spent, history>>

(* The unserializer: what it refuses is computed and stored again.         *)
Decode(p) ==
  /\ pc[p] = "found"
  /\ Goto(p, IF val[p] = Garbage THEN "compute" ELSE "return")
  /\ UNCHANGED <<data, redis, reading, local, history>>

(* Mutant of Compute: stores although the cache was bypassed.              *)
ComputeStores(p) ==
  /\ pc[p] = "compute"
  /\ val' = [val EXCEPT ![p] = version]
  /\ Goto(p, "store")
  /\ UNCHANGED <<data, redis, reading, hash, lockAt, locked, history>>

(* Mutant of Compute: an entry that could not be read is left alone.       *)
ComputeStoresMisses(p) ==
  /\ pc[p] = "compute"
  /\ val' = [val EXCEPT ![p] = version]
  /\ Goto(p, IF hash[p] = Nil \/ val[p] = Garbage THEN "return" ELSE "store")
  /\ UNCHANGED <<data, redis, reading, hash, lockAt, locked, history>>

(* The function is called; what it returns is stored if there is a hash.   *)
Compute(p) ==
  /\ pc[p] = "compute"
  /\ val' = [val EXCEPT ![p] = version]
  /\ Goto(p, IF hash[p] = Nil THEN "return" ELSE "store")
  /\ UNCHANGED <<data, redis, reading, hash, lockAt, locked, history>>

(* Mutant of AfterStore: only a hit releases the lock.                     *)
AfterStoreKeep(p) == Goto(p, "return")

(* "if ckey and lock_id and metadata_hash": the key "" is false.           *)
AfterStore(p) ==
  Goto(p, IF locked[p] /\ form.key # "empty" THEN "unlock" ELSE "return")

(* What set_bytes writes, under the hash it has read.                      *)
Written(p) == [h \in Hash |-> IF h = seen[p] THEN val[p] ELSE entry[h]]

Store(p) ==
  /\ pc[p] = "store" /\ Ready(p)
  /\ entry' = Written(p)
  /\ Forget(p)
  /\ AfterStore(p)
  /\ UNCHANGED <<data, missing, orphan, spent, local, history>>

Unlock(p) ==
  /\ pc[p] = "unlock"
  /\ Release(p, hash[p])
  /\ Goto(p, "return")
  /\ UNCHANGED <<data, redis, reading, hash, locked, val, history>>

(* What p has not released, nobody will.                                   *)
Abandon(p) ==
  /\ orphan' = orphan \cup ({lockAt[p]} \cap Hash)
  /\ lockAt' = [lockAt EXCEPT ![p] = Nil]
  /\ locked' = [locked EXCEPT ![p] = FALSE]

End(p) ==
  /\ Goto(p, "idle")
  /\ Abandon(p)
  /\ hash' = [hash EXCEPT ![p] = Nil]
  /\ val' = [val EXCEPT ![p] = Nil]

(* The hook has been called, and whatever it raised was caught.            *)
Return(p) ==
  /\ pc[p] = "return"
  /\ End(p)
  /\ UNCHANGED <<data, entry, missing, reading, history>>

-----------------------------------------------------------------------------
(* Failures *)

(* The function raises; or the tags do when they are iterated over, which  *)
(* is not a cache exception and reaches the caller as well.                *)
Raise(p) ==
  /\ pc[p] = "compute" \/ (pc[p] = "read" /\ form.tags = "lazy")
  /\ End(p)
  /\ disturbed' = TRUE
  /\ UNCHANGED <<data, entry, missing, reading, overlapped>>

(* A cache exception before the function is called: the cache is bypassed, *)
(* but the tags have been iterated over, and the lock may be taken.        *)
ReadFails(p) ==
  /\ pc[p] \in {"read", "lock", "again"} /\ form.tags # "lazy"
  /\ \/ /\ pc[p] = "lock"
        /\ orphan' \in {orphan, orphan \cup ({hash[p]} \cap (Hash \ Taken))}
        /\ UNCHANGED <<spent, lockAt, locked>>
     \/ /\ pc[p] # "lock"
        /\ IF seen[p] = Nil THEN Consume(p) ELSE UNCHANGED spent
        /\ Abandon(p)
  /\ hash' = [hash EXCEPT ![p] = Nil]
  /\ Forget(p)
  /\ Goto(p, "compute")
  /\ disturbed' = TRUE
  /\ UNCHANGED <<data, entry, missing, val, overlapped>>

(* The serializer raises or returns None; or set_bytes returns False,      *)
(* where Redis may have stored the entry.                                  *)
StoreFails(p) ==
  /\ pc[p] = "store"
  /\ UNCHANGED spent \/ (seen[p] = Nil /\ Consume(p))
  /\ UNCHANGED entry \/ (Ready(p) /\ entry' = Written(p))
  /\ Forget(p)
  /\ AfterStore(p)
  /\ disturbed' = TRUE
  /\ UNCHANGED <<data, missing, orphan, local, overlapped>>

UnlockFails(p) ==
  /\ pc[p] = "unlock"
  /\ Goto(p, "return")
  /\ disturbed' = TRUE
  /\ UNCHANGED <<data, redis, reading, local, overlapped>>

-----------------------------------------------------------------------------
(* Environment *)

Quiet == \A p \in Proc : pc[p] = "idle"

Update ==
  /\ version < MaxVersion
  /\ version' = version + 1
  /\ UNCHANGED <<form, flushed, redis, pc, reading, local, history>>

(* What invalidate(T) does, and returns True.  A call that has the hash    *)
(* already stores out of reach.                                            *)
Flush(T) ==
  /\ Supersede(T)
  /\ missing' = missing \ T
  /\ flushed' = version
  /\ overlapped' = \E p \in Proc : pc[p] = "store" /\ ~Ready(p)
  /\ UNCHANGED <<form, version, pc, spent, draws, locked, val>>

(* Mutant of Invalidated: SET with NX, a tag that is there keeps its value. *)
InvalidatedNx == IF form.arg = "iterator" THEN {} ELSE Tag \cap missing

(* MetadataService.invalidate_tags joins the names for its log before the  *)
(* adapter iterates over them, which leaves nothing of an iterator.        *)
Invalidated == IF form.arg = "iterator" THEN {} ELSE Tag

Invalidate ==
  /\ form.tags # "none"
  /\ Flush(Invalidated)
  /\ disturbed' = (disturbed \/ ~Quiet)

InvalidateAll ==
  /\ Flush({All})
  /\ disturbed' = ~Quiet

(* Tags disappear from Redis.  Or a pipeline is run that its caller has    *)
(* given up, an invalidation that returned False or a reader's values; or  *)
(* another reader creates them.                                            *)
TagsChange ==
  \E T \in SUBSET AllTag :
    /\ Supersede(T)
    /\ missing' \in {missing \cup T, missing \ T}
    /\ disturbed' = TRUE
    /\ UNCHANGED <<data, pc, spent, draws, locked, val, overlapped>>

LoseEntry(h) ==
  /\ entry[h] # Nil
  /\ entry' = [entry EXCEPT ![h] = Nil]
  /\ disturbed' = TRUE
  /\ UNCHANGED <<data, missing, orphan, pc, reading, local, overlapped>>

(* A release of the program changes how values are serialized.             *)
Deploy ==
  /\ Quiet
  /\ entry' = [h \in Hash |-> IF entry[h] = Nil THEN Nil ELSE Garbage]
  /\ UNCHANGED <<data, missing, orphan, pc, reading, local, history>>

ExpireLock ==
  /\ \/ \E h \in orphan : orphan' = orphan \ {h} /\ UNCHANGED lockAt
     \/ \E p \in Proc : /\ lockAt[p] # Nil
                        /\ lockAt' = [lockAt EXCEPT ![p] = Nil]
                        /\ UNCHANGED orphan
  /\ disturbed' = TRUE
  /\ UNCHANGED <<data, entry, missing, pc, reading, hash, locked, val, overlapped>>

-----------------------------------------------------------------------------
Step(p) ==
  \/ Call(p) \/ Mget(p) \/ Send(p)
  \/ Read(p) \/ Lock(p) \/ ReadAgain(p) \/ Decode(p)
  \/ Compute(p) \/ Store(p) \/ Unlock(p) \/ Return(p)
  \/ Raise(p) \/ ReadFails(p) \/ StoreFails(p) \/ UnlockFails(p)

Environment ==
  \/ Update \/ Invalidate \/ InvalidateAll \/ TagsChange \/ Deploy \/ ExpireLock
  \/ \E h \in Hash : LoseEntry(h)

Next == (\E p \in Proc : Step(p)) \/ Environment

Spec == Init /\ [][Next]_vars

-----------------------------------------------------------------------------
(* Properties *)

Label == {"idle", "read", "lock", "again", "found", "compute", "store", "unlock", "return"}

Value == (0..MaxVersion) \cup {Nil, Garbage}

(* Types; and what goes with the next step: a bypassed cache is neither    *)
(* written nor unlocked, a value is never returned together with a lock    *)
(* (the exception of GetOrLockResult, service.py:25, would reach the       *)
(* caller).                                                                *)
TypeOK ==
  /\ form \in Form
  /\ version \in 0..MaxVersion /\ flushed \in 0..MaxVersion
  /\ entry \in [Hash -> Value]
  /\ missing \subseteq AllTag /\ orphan \subseteq Hash
  /\ spent \in [Proc -> BOOLEAN]
  /\ pc \in [Proc -> Label]
  /\ seen \in [Proc -> Hash \cup {Nil, Old}]
  /\ draws \in [Proc -> SUBSET AllTag]
  /\ hash \in [Proc -> Hash \cup {Nil, Old}]
  /\ lockAt \in [Proc -> Hash \cup {Nil, Old}]
  /\ locked \in [Proc -> BOOLEAN]
  /\ val \in [Proc -> Value]
  /\ disturbed \in BOOLEAN /\ overlapped \in BOOLEAN
  /\ \A p \in Proc :
       /\ pc[p] \in {"store", "unlock"} => hash[p] # Nil
       /\ pc[p] = "found" => val[p] # Nil /\ ~locked[p]

(* Tags and their invalidation can be relied on when both are given as     *)
(* something that can be iterated over again: an entry within reach is     *)
(* older than the last invalidation only if that invalidation fell between *)
(* a computation and the end of the reading of the hash in its set_bytes.  *)
InvalidationReaches ==
  ~OneShot /\ form.arg = "list" /\ ~overlapped =>
    \A h \in Hash : entry[h] \notin {Nil, Garbage} => entry[h] >= flushed

(* The hash that calls read when their tags can be iterated over again.    *)
Home == IF form.tags = "none" THEN {} ELSE Tag

(* A next call finds an entry that it can read.                            *)
Readable == Full(Home) \cap missing = {} /\ entry[Home] \notin {Nil, Garbage}

(* The cache caches: when nothing failed, expired or was invalidated,      *)
(* nobody waited for the lock in vain, and no call has overwritten a tag   *)
(* that another had created, a call that has had the use of the cache      *)
(* leaves an entry that the next call finds and can read, even if it came  *)
(* across one that it could not read, and even if a tag that it names      *)
(* twice was missing.                                                      *)
CallLeavesEntry ==
  \A p \in Proc :
    pc[p] = "return" /\ hash[p] # Nil /\ ~disturbed /\ ~OneShot => Readable

(* lib.py:335, "Static list of tags or a function that generates tags      *)
(* dynamically", of the type Callable[..., Iterable[str]]; lib.py:276,     *)
(* "Single tag string or iterable of tags to invalidate", and True if      *)
(* successful: the two properties hold of any iterable.                    *)
AnyIterableWorks ==
  /\ ~overlapped =>
       \A h \in Hash : entry[h] \notin {Nil, Garbage} => entry[h] >= flushed
  /\ \A p \in Proc : pc[p] = "return" /\ hash[p] # Nil /\ ~disturbed => Readable

(* Under the conditions of CallLeavesEntry a call that returns leaves no   *)
(* lock, under whatever hash, with two exceptions: the key "", whose lock  *)
(* is not released (decorator.py:168), and tags that are given twice,      *)
(* where the lock taken under the hash of the first reading may be         *)
(* released under another.                                                 *)
LocksReleased ==
  \A p \in Proc :
    pc[p] = "return" /\ ~disturbed /\ ~OneShot
      /\ form.key # "empty" /\ form.tags # "repeated" => lockAt[p] = Nil
=============================================================================
