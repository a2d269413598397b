----------------------------- MODULE Decorator -----------------------------
(***************************************************************************)
(* Calls to one decorated function, with one cache key and one set of      *)
(* tags: the wrapper of cache_decorator (rtc/app/decorator.py) over        *)
(* Service._get_bytes, _get_bytes_or_lock_id, set_bytes and _unlock        *)
(* (rtc/app/service.py), with the Redis adapters.                          *)
(*                                                                         *)
(* The wrapper reads the tag hash three times: to look the entry up, to    *)
(* look again once it has the lock, and to store what it has computed.     *)
(* The tags may be invalidated at any point between.                       *)
(*                                                                         *)
(* A reading is one round trip (MGET) when every tag is there.  Values for *)
(* the tags that are missing are drawn by the reader, who hashes them and  *)
(* sends them in a second round trip, without looking whether somebody has *)
(* created the tags meanwhile (get_or_set_tag_values in                    *)
(* rtc/infra/adapters/metadata/redis.py).                                  *)
(*                                                                         *)
(* Abstractions.  A hash is an atom for the values of all the tags, and    *)
(* cur the one that the values in Redis have, Nil when a tag is missing;   *)
(* values are random, so that each change of a tag leads to a hash that    *)
(* nothing refers to (TaggedCache has the tags one by one).  A cached      *)
(* value is the version of the data it was computed from.                  *)
(* lock() is one attempt, then a wait that ends with the lock or with None *)
(* (RedisLock shows what stands behind that); a lock id is named after the *)
(* process that knows it, and is Orphan when none does any more.  Keys,    *)
(* serialization and hooks are left out.                                   *)
(***************************************************************************)
EXTENDS Naturals

CONSTANTS
  Proc,        \* the threads and processes that call the function
  Hash,        \* tag hashes
  Nil,         \* None: no hash, no lock, no entry
  Orphan,      \* a lock id that no process remembers
  LockArg,     \* the values of the lock argument to consider
  MaxVersion   \* bound: changes of the data, without and with lock=True

ASSUME NamesAssumption == Nil \notin Hash \cup Proc \cup {Orphan} \cup Nat /\ Orphan \notin Proc
ASSUME LockArgAssumption == LockArg \subseteq BOOLEAN
ASSUME BoundAssumption == MaxVersion \in [BOOLEAN -> Nat]

VARIABLES
  locking,     \* the lock argument of the decorator; it never changes
  version,     \* the version of the data the function reads
  flushed,     \* the version at the last invalidation that returned True
  cur,         \* the hash of the tags in Redis, or Nil: a tag is missing
  stored,      \* stored[h]: the entry under hash h, or Nil
  lockKey,     \* lockKey[h]: the id in the lock under hash h, or Nil
  pc,          \* pc[p]: what p does next
  hash,        \* hash[p]: metadata_hash, or Nil
  target,      \* target[p]: the hash that set_bytes stores under, or Nil
  locked,      \* locked[p]: lock_id is not None
  val,         \* val[p]: the value that set_bytes stores, or Nil
  overdue,     \* overdue[p]: p waits for the lock, and lock_timeout has elapsed
  moved,       \* moved[p]: the tags have changed since p found one missing
  computed,    \* history: computations, up to 2, since the last quiet flush
  disturbed,   \* history: see SingleFlight
  raced,       \* history: a call has overwritten a tag created by another
  overlapped   \* history: see StaleOnlyFromOverlap

shared == <<locking, version, flushed, cur>>
redis == <<stored, lockKey>>
local == <<hash, target, locked, val, overdue, moved>>
history == <<computed, disturbed, raced, overlapped>>
vars == <<shared, redis, pc, local, history>>

-----------------------------------------------------------------------------
Init ==
  /\ locking \in LockArg
  /\ version = 0
  /\ flushed = 0
  /\ cur \in Hash \cup {Nil}
  /\ stored = [h \in Hash |-> Nil]
  /\ lockKey = [h \in Hash |-> Nil]
  /\ pc = [p \in Proc |-> "idle"]
  /\ hash = [p \in Proc |-> Nil]
  /\ target = [p \in Proc |-> Nil]
  /\ locked = [p \in Proc |-> FALSE]
  /\ val = [p \in Proc |-> Nil]
  /\ overdue = [p \in Proc |-> FALSE]
  /\ moved = [p \in Proc |-> FALSE]
  /\ computed = 0
  /\ disturbed = FALSE
  /\ raced = FALSE
  /\ overlapped = FALSE

Goto(p, label) == pc' = [pc EXCEPT ![p] = label]

Call(p) ==
  /\ pc[p] = "idle"
  /\ Goto(p, "hash1")
  /\ UNCHANGED <<shared, redis, local, history>>

(* A hash that nothing refers to: the values it stands for are yet to be   *)
(* drawn.                                                                  *)
FreshHash ==
  {h \in Hash : /\ h # cur
                /\ \A p \in Proc : hash[p] # h /\ target[p] # h /\ lockKey[h] # p}

(* Nothing is stored or locked under values that are drawn.                *)
Draw(h) ==
  /\ h \in FreshHash
  /\ stored' = [stored EXCEPT ![h] = Nil]
  /\ lockKey' = [lockKey EXCEPT ![h] = Nil]

(* get_metadata_hash, before the first read or before the second: MGET,    *)
(* and the drawing of values for the tags that are missing.                *)
GetHash(p) ==
  /\ pc[p] \in {"hash1", "hash2"}
  /\ IF cur # Nil
     THEN /\ hash' = [hash EXCEPT ![p] = cur]
          /\ Goto(p, IF pc[p] = "hash1" THEN "get1" ELSE "get2")
          /\ UNCHANGED redis
     ELSE \E h \in Hash :
          /\ Draw(h)
          /\ hash' = [hash EXCEPT ![p] = h]
          /\ Goto(p, IF pc[p] = "hash1" THEN "fill1" ELSE "fill2")
  /\ UNCHANGED <<shared, target, locked, val, overdue, moved, history>>

(* The calls that have found a tag missing.                                *)
Filling == {p \in Proc : pc[p] \in {"fill1", "fill2", "fill3"}}

(* The tags change under the calls in S.                                   *)
Move(S) == moved' = [p \in Proc |-> p \in S \/ moved[p]]

(* The values that p has drawn, as the tags of Redis.                      *)
Drawn(p) == IF pc[p] = "fill3" THEN target[p] ELSE hash[p]

(* The pipeline of SETs for the tags that p found missing.  Unless the     *)
(* tags have changed since the MGET, they have now the values that p has   *)
(* hashed; otherwise they may also be a mixture, with a tag still missing. *)
Fill(p) ==
  /\ p \in Filling
  /\ \/ /\ cur' = Drawn(p)
        /\ UNCHANGED redis
     \/ /\ moved[p] /\ cur' = Nil
        /\ UNCHANGED redis
     \/ /\ moved[p] /\ cur' \in Hash
        /\ Draw(cur')
  /\ moved' = [q \in Proc |-> q # p /\ q \in Filling]
  /\ Goto(p, CASE pc[p] = "fill1" -> "get1"
               [] pc[p] = "fill2" -> "get2"
               [] OTHER -> "put")
  /\ raced' = (raced \/ moved[p])
  /\ UNCHANGED <<locking, version, flushed, hash, target, locked, val, overdue,
                 computed, disturbed, overlapped>>

(* The first read.                                                         *)
Get1(p) ==
  /\ pc[p] = "get1"
  /\ Goto(p, IF stored[hash[p]] # Nil THEN "return"
             ELSE IF locking THEN "lock" ELSE "compute")
  /\ UNCHANGED <<shared, redis, local, history>>

(* lock(): taken at the first attempt, or after a wait.                    *)
TakeLock(p) ==
  /\ pc[p] \in {"lock", "wait"}
  /\ lockKey[hash[p]] = Nil
  /\ lockKey' = [lockKey EXCEPT ![hash[p]] = p]
  /\ locked' = [locked EXCEPT ![p] = TRUE]
  /\ Goto(p, "hash2")
  /\ UNCHANGED <<shared, stored, hash, target, val, overdue, moved, history>>

WaitForLock(p) ==
  /\ pc[p] = "lock"
  /\ lockKey[hash[p]] # Nil
  /\ Goto(p, "wait")
  /\ UNCHANGED <<shared, redis, local, history>>

(* lock() returns None after one second.                                   *)
NoLock(p) ==
  /\ pc[p] = "wait"
  /\ Goto(p, "hash2")
  /\ disturbed' = TRUE
  /\ UNCHANGED <<shared, redis, local, computed, raced, overlapped>>

(* Mutant of Get2: what the second read finds is ignored.                  *)
Get2Blind(p) ==
  /\ pc[p] = "get2"
  /\ Goto(p, IF locked[p] \/ overdue[p] THEN "compute" ELSE "lock")
  /\ UNCHANGED <<shared, redis, local, history>>

(* Mutant of Get2: no limit on the time spent without the lock.            *)
Get2Patient(p) ==
  /\ pc[p] = "get2"
  /\ Goto(p, IF locked[p]
             THEN IF stored[hash[p]] # Nil THEN "unlockhit" ELSE "compute"
             ELSE IF stored[hash[p]] # Nil THEN "return" ELSE "lock")
  /\ UNCHANGED <<shared, redis, local, history>>

(* The second read.  A value that is found without a lock is lost:         *)
(* unlock(None) raises, and the call ends as one that bypasses the cache.  *)
Get2(p) ==
  /\ pc[p] = "get2"
  /\ IF stored[hash[p]] # Nil
     THEN /\ Goto(p, IF locked[p] THEN "unlockhit" ELSE "compute")
          /\ hash' = [hash EXCEPT ![p] = IF locked[p] THEN @ ELSE Nil]
     ELSE /\ Goto(p, IF locked[p] \/ overdue[p] THEN "compute" ELSE "lock")
          /\ UNCHANGED hash
  /\ overdue' = [overdue EXCEPT ![p] = @ /\ pc'[p] = "lock"]
  /\ UNCHANGED <<shared, redis, target, locked, val, moved, history>>

(* unlock() compares ids; the hash is the one of the last read.            *)
ReleaseLock(p) ==
  lockKey' = [lockKey EXCEPT ![hash[p]] = IF @ = p THEN Nil ELSE @]

(* Mutant of UnlockHit: the lock is released on a miss only.               *)
ReturnHitLocked(p) ==
  /\ pc[p] = "unlockhit"
  /\ Goto(p, "return")
  /\ UNCHANGED <<shared, redis, local, history>>

UnlockHit(p) ==
  /\ pc[p] = "unlockhit"
  /\ ReleaseLock(p)
  /\ Goto(p, "return")
  /\ UNCHANGED <<shared, stored, local, history>>

(* The decorated function reads the data.  Without a hash nothing is       *)
(* stored, nor unlocked.                                                   *)
Compute(p) ==
  /\ pc[p] = "compute"
  /\ val' = [val EXCEPT ![p] = IF hash[p] # Nil THEN version ELSE Nil]
  /\ computed' = IF computed < 2 THEN computed + 1 ELSE computed
  /\ Goto(p, IF hash[p] # Nil THEN "hash3" ELSE "return")
  /\ UNCHANGED <<shared, redis, hash, target, locked, overdue, moved,
                 disturbed, raced, overlapped>>

(* Mutant of GetHash3: the hash is not kept.                               *)
GetNoHash3(p) ==
  /\ pc[p] = "hash3"
  /\ Goto(p, "put")
  /\ UNCHANGED <<shared, redis, local, history>>

(* set_bytes: the hash is read again.                                      *)
GetHash3(p) ==
  /\ pc[p] = "hash3"
  /\ IF cur # Nil
     THEN /\ target' = [target EXCEPT ![p] = cur]
          /\ Goto(p, "put")
          /\ UNCHANGED redis
     ELSE \E h \in Hash :
          /\ Draw(h)
          /\ target' = [target EXCEPT ![p] = h]
          /\ Goto(p, "fill3")
  /\ UNCHANGED <<shared, hash, locked, val, overdue, moved, history>>

(* set_bytes has returned, True or False.                                  *)
EndSet(p) ==
  /\ target' = [target EXCEPT ![p] = Nil]
  /\ val' = [val EXCEPT ![p] = Nil]
  /\ Goto(p, IF locked[p] THEN "unlock" ELSE "return")

(* Mutant of Put: the tags are read when the entry is stored.              *)
PutUnderCurrent(p) ==
  /\ pc[p] = "put"
  /\ stored' = [h \in Hash |-> IF h = cur THEN val[p] ELSE stored[h]]
  /\ EndSet(p)
  /\ UNCHANGED <<shared, lockKey, hash, locked, overdue, moved, history>>

Put(p) ==
  /\ pc[p] = "put"
  /\ stored' = [stored EXCEPT ![target[p]] = val[p]]
  /\ EndSet(p)
  /\ UNCHANGED <<shared, lockKey, hash, locked, overdue, moved, history>>

Unlock(p) ==
  /\ pc[p] = "unlock"
  /\ ReleaseLock(p)
  /\ Goto(p, "return")
  /\ UNCHANGED <<shared, stored, local, history>>

(* What becomes of the locks that p has not released.                      *)
Orphaned(p) == [h \in Hash |-> IF lockKey[h] = p THEN Orphan ELSE lockKey[h]]

Forget(p) ==
  /\ lockKey' = Orphaned(p)
  /\ hash' = [hash EXCEPT ![p] = Nil]
  /\ locked' = [locked EXCEPT ![p] = FALSE]

Return(p) ==
  /\ pc[p] = "return"
  /\ Goto(p, "idle")
  /\ Forget(p)
  /\ UNCHANGED <<shared, stored, target, val, overdue, moved, history>>

-----------------------------------------------------------------------------
(* Failures *)

(* A cache exception while looking the entry up: the call goes on with     *)
(* neither hash nor lock (full_miss).  A command that changes a lock may   *)
(* have been run by Redis, and the values of tags may be set (TagsChange). *)
ReadFails(p) ==
  /\ pc[p] \in {"hash1", "fill1", "get1", "lock", "wait",
                "hash2", "fill2", "get2", "unlockhit"}
  /\ \/ lockKey' = Orphaned(p)
     \/ /\ pc[p] \in {"lock", "wait"} /\ lockKey[hash[p]] = Nil
        /\ lockKey' = [lockKey EXCEPT ![hash[p]] = Orphan]
     \/ /\ pc[p] = "unlockhit" /\ lockKey[hash[p]] = p
        /\ ReleaseLock(p)
  /\ hash' = [hash EXCEPT ![p] = Nil]
  /\ locked' = [locked EXCEPT ![p] = FALSE]
  /\ overdue' = [overdue EXCEPT ![p] = FALSE]
  /\ moved' = [moved EXCEPT ![p] = FALSE]
  /\ Goto(p, "compute")
  /\ disturbed' = TRUE
  /\ UNCHANGED <<shared, stored, target, val, computed, raced, overlapped>>

(* set_bytes returns False; Redis may have stored the entry.  A serializer *)
(* that raises or returns None has the effect of a failure at "hash3".     *)
SetFails(p) ==
  /\ pc[p] \in {"hash3", "fill3", "put"}
  /\ \/ UNCHANGED stored
     \/ pc[p] = "put" /\ stored' = [stored EXCEPT ![target[p]] = val[p]]
  /\ EndSet(p)
  /\ moved' = [moved EXCEPT ![p] = FALSE]
  /\ disturbed' = TRUE
  /\ UNCHANGED <<shared, lockKey, hash, locked, overdue, computed, raced, overlapped>>

(* _unlock returns False.                                                  *)
UnlockFails(p) ==
  /\ pc[p] = "unlock"
  /\ UNCHANGED lockKey
  /\ Goto(p, "return")
  /\ disturbed' = TRUE
  /\ UNCHANGED <<shared, stored, local, computed, raced, overlapped>>

(* The function raises, or the process dies: nothing is stored, nor        *)
(* unlocked.                                                               *)
Raise(p) ==
  /\ pc[p] = "compute"
  /\ Goto(p, "idle")
  /\ Forget(p)
  /\ disturbed' = TRUE
  /\ UNCHANGED <<shared, stored, target, val, overdue, moved, computed, raced, overlapped>>

-----------------------------------------------------------------------------
(* Environment *)

Quiet == \A p \in Proc : pc[p] = "idle"

Update ==
  /\ version < MaxVersion[locking]
  /\ version' = version + 1
  /\ UNCHANGED <<locking, flushed, cur, redis, pc, local, history>>

(* An invalidation that returns True.  A tag that was missing may be among *)
(* those that are not invalidated, and is missing still.                   *)
Invalidate ==
  /\ \/ /\ cur' \in Hash
        /\ Draw(cur')
     \/ /\ cur = Nil /\ cur' = Nil
        /\ UNCHANGED redis
  /\ Move(Filling)
  /\ flushed' = version
  /\ computed' = IF Quiet THEN 0 ELSE computed
  /\ disturbed' = ~Quiet
  /\ raced' = (raced /\ ~Quiet)
  /\ overlapped' = \E p \in Proc : pc[p] \in {"hash3", "fill3"}
  /\ UNCHANGED <<locking, version, pc, hash, target, locked, val, overdue>>

(* A tag disappears from Redis.  Or a pipeline is run that its caller has  *)
(* given up, an invalidation that returned False or a reader's values; or  *)
(* a tag is created by a reader other than these calls.                    *)
TagsChange ==
  /\ \/ /\ cur' \in Hash
        /\ Draw(cur')
     \/ /\ cur' = Nil
        /\ UNCHANGED redis
  /\ Move(Filling)
  /\ disturbed' = TRUE
  /\ UNCHANGED <<locking, version, flushed, pc, hash, target, locked, val, overdue,
                 computed, raced, overlapped>>

LoseEntry(h) ==
  /\ stored[h] # Nil
  /\ stored' = [stored EXCEPT ![h] = Nil]
  /\ disturbed' = TRUE
  /\ UNCHANGED <<shared, lockKey, pc, local, computed, raced, overlapped>>

ExpireLock(h) ==
  /\ lockKey[h] # Nil
  /\ lockKey' = [lockKey EXCEPT ![h] = Nil]
  /\ disturbed' = TRUE
  /\ UNCHANGED <<shared, stored, pc, local, computed, raced, overlapped>>

Overdue(p) ==
  /\ pc[p] \in {"lock", "wait", "hash2", "fill2", "get2"}
  /\ ~overdue[p]
  /\ overdue' = [overdue EXCEPT ![p] = TRUE]
  /\ UNCHANGED <<shared, redis, pc, hash, target, locked, val, moved, history>>

-----------------------------------------------------------------------------
(* What p does when the cache and the function do their work.              *)
Work(p) ==
  \/ GetHash(p) \/ Fill(p) \/ Get1(p)
  \/ TakeLock(p) \/ WaitForLock(p) \/ NoLock(p)
  \/ Get2(p) \/ UnlockHit(p)
  \/ Compute(p) \/ GetHash3(p) \/ Put(p) \/ Unlock(p)
  \/ Return(p)

Failure(p) == ReadFails(p) \/ SetFails(p) \/ UnlockFails(p) \/ Raise(p)

Environment ==
  \/ Update \/ Invalidate \/ TagsChange
  \/ \E h \in Hash : LoseEntry(h) \/ ExpireLock(h)
  \/ \E p \in Proc : Overdue(p)

Next == (\E p \in Proc : Call(p) \/ Work(p) \/ Failure(p)) \/ Environment

Spec == Init /\ [][Next]_vars

(* A call that is under way goes on, and time passes.  Nothing is assumed  *)
(* about locks expiring.                                                   *)
Fairness == \A p \in Proc : WF_vars(Work(p)) /\ WF_vars(Overdue(p))

FairSpec == Spec /\ Fairness

-----------------------------------------------------------------------------
(* Properties *)

Label == {"idle", "hash1", "fill1", "get1", "lock", "wait", "hash2", "fill2", "get2",
          "unlockhit", "compute", "hash3", "fill3", "put", "unlock", "return"}

Version == Nat

TypeOK ==
  /\ locking \in BOOLEAN
  /\ version \in Version /\ flushed \in Version /\ cur \in Hash \cup {Nil}
  /\ stored \in [Hash -> Version \cup {Nil}]
  /\ lockKey \in [Hash -> Proc \cup {Nil, Orphan}]
  /\ pc \in [Proc -> Label]
  /\ hash \in [Proc -> Hash \cup {Nil}]
  /\ target \in [Proc -> Hash \cup {Nil}]
  /\ locked \in [Proc -> BOOLEAN]
  /\ val \in [Proc -> Version \cup {Nil}]
  /\ overdue \in [Proc -> BOOLEAN]
  /\ moved \in [Proc -> BOOLEAN]
  /\ computed \in 0..2 /\ disturbed \in BOOLEAN /\ raced \in BOOLEAN
  /\ overlapped \in BOOLEAN
  /\ \A p \in Proc :
       /\ pc[p] \in {"fill1", "get1", "lock", "wait", "fill2", "get2", "unlockhit",
                    "hash3", "fill3", "put", "unlock"}
            => hash[p] \in Hash
       /\ pc[p] \in {"fill3", "put"} <=> target[p] \in Hash

(* lock=True prevents a stampede (lib.py:339): after the tags were last    *)
(* invalidated with nobody in the function, it is computed once, as long   *)
(* as no lock or entry expired, no command failed, nobody waited for the   *)
(* lock in vain, the tags changed under no call, and no call has           *)
(* overwritten a tag that another had created.                             *)
SingleFlight == locking /\ ~disturbed /\ ~raced => computed <= 1

(* Under the conditions of SingleFlight a lock never outlives the call     *)
(* that took it: each is released, under the hash it was taken, on a hit   *)
(* as on a miss.                                                           *)
LocksReleased ==
  [][\A h \in Hash :
       lockKey[h] # Orphan /\ lockKey'[h] = Orphan => disturbed' \/ raced']_vars

(* The entry within reach is older than the last invalidation only if that *)
(* invalidation fell between a computation and the end of the reading of   *)
(* the hash in the set_bytes that stored it.                               *)
StaleOnlyFromOverlap ==
  cur # Nil /\ stored[cur] # Nil /\ ~overlapped => stored[cur] >= flushed

(* Every call returns.                                                     *)
CallsReturn == \A p \in Proc : pc[p] # "idle" ~> pc[p] = "idle"

(* service.py:204: after the lock "we read the cache another time.  If we  *)
(* get the value, the lock is released": a value that is found is used.    *)
FoundValueIsReturned ==
  [][\A p \in Proc : Get2(p) /\ stored[hash[p]] # Nil => pc'[p] # "compute"]_vars
=============================================================================
