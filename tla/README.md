# A verification development of redis-tagged-cache

TLA+ specifications, TLC model checks and TLAPS proofs of the Python library in
`src/rtc/`: a cache in Redis whose entries carry tags, invalidated in O(1) by
giving a tag a new random value.

## 1. The system

| part | source | state | operations |
|---|---|---|---|
| controller `RedisTaggedCache` | `rtc/infra/controllers/lib.py` | its settings; the `Service`, built on first use under a lock | `set get delete invalidate invalidate_all decorator`, `_rebuild_service`, assignment to the settings |
| `Service` | `rtc/app/service.py` | none of its own | `set_bytes`, `_get_bytes`, `delete`, `invalidate_*`, `_get_bytes_or_lock_id`, `_unlock` |
| `MetadataService` | `rtc/app/metadata.py` | none | `get_metadata_hash`, `invalidate_*`, `lock`, `unlock` |
| `StorageService` | `rtc/app/storage.py` | none | `set get delete`, default lifetime |
| `RedisMetadataAdapter` | `rtc/infra/adapters/metadata/redis.py` | Redis: tag values, lock keys, waiting lists | MGET + pipeline of SET; SET NX + BLPOP; Lua script + RPUSH |
| `RedisStorageAdapter` | `rtc/infra/adapters/storage/redis.py` | Redis: the entries | SET, GET, DEL |
| `DictMetadataAdapter` | `rtc/infra/adapters/metadata/dict.py` | `_tags`, `_locks`, a daemon thread | the same port, in memory |
| `DictStorageAdapter` | `rtc/infra/adapters/storage/dict.py` | `_data` | the same port, in memory |
| black-hole and failing adapters | `.../blackhole.py`, `.../bad.py` | none | store nothing; always raise |
| decorator | `rtc/app/decorator.py` | locals of a call | read, maybe lock, compute, store, unlock |
| hash, serializer, exceptions, types | `rtc/app/*.py` | none | pure |

**Interaction.** The controller calls the service, which asks the metadata
service for the hash of the tag values and uses it as a part of the storage
key. A cache operation is therefore two or three round trips to Redis, and
other clients run between them. The decorator strings a read, a lock, another
read, the decorated function, a store and an unlock together, and reads the
hash anew for three of these. Any adapter error becomes a `CacheException`,
which the service turns into "cache bypassed".

**What is hard.** Calls interleave at every round trip. Any Redis key may
vanish (expiry, `allkeys-lru`, restart). A reader that finds a tag missing draws
a value for it, hashes that, and sends it in a second round trip without looking
whether somebody else has created the tag meanwhile. A command may time out and
still be run later. The lock expires while its holder works. The hash moves under a call
that holds a lock. In memory, threads wait for a lock object outside the lock
of the dictionary that lists it, and read their tags with no lock at all (a
generator under `@locked` runs after the lock is released). An `Iterable` of
tags may be one that can be consumed only once. The service is built by whoever
comes first, may be dropped at any time, and lives on in the decorators and
threads that have it. Redis refuses an expiry that is not positive.

**What makes each part correct.**

* Cache operations: a `get()` never returns a value that was overwritten,
  deleted or invalidated, by a call that succeeded, before the `get()` began;
  an entry that was left behind never comes back within reach.
* Lock: one live holder at a time; nobody removes the lock of another; no
  waiter sleeps beside a free lock; `lock()` returns.
* Decorator: one computation per invalidation with `lock=True`, unless readers
  race to create a tag; locks are released; a stale value can only be stored in
  one known window; a call leaves an entry that the next one finds; calls return.
* In-memory lock: the same promises as the lock over Redis.
* Lifetimes: `None` and `<= 0` mean no expiration, others expire.
* Tag names: the order of tags makes no difference. Their repetition makes none
  for a decorated function; after a direct `set()` with a repeated tag that was
  missing, a `get()` misses. The kind of iterable should make none, and does.
* Controller: between two rebuilds every operation uses one service, and a
  rebuild takes effect.

## 2. The modules

| module | what it is |
|---|---|
| `CacheContract` | abstract: what the cache promises, without tag values, hashes or keys |
| `TaggedCache` | the cache operations over Redis, one round trip per step; implements `CacheContract` |
| `TaggedCacheInvariant` | its inductive invariant |
| `TaggedCacheProofs` | its theorems |
| `LeaseContract` | abstract: a lock with one holder, handed over through being free |
| `RedisLock` | `lock()` and `unlock()` over Redis; implements `LeaseContract` |
| `RedisLockProofs` | its theorems |
| `Decorator` | concurrent calls of one decorated function |
| `DecoratorProofs` | its theorems |
| `DictLock` | `lock()`, `unlock()` and the expiration thread in memory |
| `DictLockProofs` | its theorems |
| `LocalCache` | the cache operations in local memory, one access to a dictionary per step; implements `CacheContract` |
| `LocalCacheProofs` | its theorems |
| `DecoratedCall` | a decorated function with every form of key, tags and arguments |
| `DecoratedCallProofs` | its theorems |
| `Controller` | the cache object, its services and its lifetimes |
| `ControllerProofs` | its theorems |
| `MC*` | instances for TLC, with their symmetry |

Definitions called "Mutant of D" are plausible bugs: put in the place of `D`,
each breaks the property it is paired with in `PROJECT.json`, which shows that
the property depends on the code being as it is. No other definition uses them.

### TaggedCache

State: `tagValue` (the `t:` keys of Redis), `storage` (the `s:` keys), `vals`
(the values the current call of each client has read or drawn), `late`
(commands of calls that have given up), and the four history variables of
`CacheContract`: `call`, `started`, `completed`, `superseded`.

| action | code |
|---|---|
| `SetBytes`, `GetBytes`, `Delete` | the call begins; MGET of `get_or_set_tag_values` |
| `SetMissingTags` | the pipeline of SETs for the values that were missing, without NX |
| `StorageSet`, `StorageGet`, `StorageDelete` | the storage command; the call returns |
| `ReturnHit` | the value reaches the caller |
| `InvalidateTags`, `InvalidateAll` | the pipeline of SETs |
| `Timeout`, `InvalidateTimeout` | a `CacheException`; the command may stay in `late` |
| `LateCommand` | Redis runs it now |
| `LoseTag`, `LoseEntry` | expiry, eviction, restart |

Abstractions. A random value is one of `Rand` that nothing refers to (uuid4
does not repeat). The hash is injective, so it is the set of the values of the
tags; the 64 bits of `short_hash` can collide, which is left out. Tags are sets.
A value is identified by the `set()` that brought it. An MGET that times out
leaves nothing behind, as it changes nothing. One namespace is modelled, as no
key is shared between two.

`CacheContract` says when a write is *superseded*, and `past` notes at the
beginning of a call what that call may not return (a get) or will supersede (a
set, a delete). A write is superseded only by calls that began after it had
returned `True`: two overlapping calls promise nothing about each other, and
the code gives no more.

### RedisLock

State: `lockKey` (`l:` keys), `tokens` (lengths of the `w:` lists), where each
process is (`at`), the hash and id it works with, the ticks since `lock()` began
(`elapsed`) and since BLPOP was sent (`blocked`), and `late`. `holder` is the
variable of `LeaseContract`; `lapsed` notes that a lock or a token was lost
since the lock was last taken.

`TryLock` is SET NX, `Wake` and `BlpopTimeout` are the two answers of BLPOP, and
`Unlock` is the MULTI/EXEC of script, RPUSH and EXPIRE, under any hash: the
service may have read another since it took the lock (`service.py:228`,
`decorator.py:169`), and what it locked is then left to expire. `LockFails`,
`UnlockFails` and `LateCommand` are failures; a process that dies is one whose
command is lost. Locks and token lists may expire at any time: nothing may rest
on how long a process takes. The loop tests `elapsed` *before* an attempt, so a
process woken too late gives up without trying again.

### Decorator

One cache key and one set of tags. `cur` is the hash that the tags in Redis have,
`Nil` while one of them is missing. A cached value is the version of the data
that it was computed from. Each `pc` label is a round trip, the decorated
function, or the end. `hash`, `target`, `locked`, `val` are the locals
`metadata_hash`, the hash inside `set_bytes`, `lock_id` and the value. The id of
a lock is the name of its process; once the process has forgotten it (exception,
end of the call), it is `Orphan`. `lock()` is reduced to "taken", "taken after a
wait" or "None after a wait", which is what `RedisLock` does for every timing.

| action | code |
|---|---|
| `GetHash`, `GetHash3` | MGET; if a tag is missing, values are drawn for it and hashed (`Draw`) |
| `Fill` | the pipeline of SETs that creates the missing tags, over whatever is there by now |
| `Get1`, `Get2` | the two reads of the entry |
| `TakeLock`, `WaitForLock`, `NoLock` | `lock()` |
| `UnlockHit`, `Unlock` | `unlock()`, under the hash that was read last |
| `Compute`, `Put`, `Return` | the decorated function; `set_bytes`; the end |
| `ReadFails`, `SetFails`, `UnlockFails`, `Raise` | failures |
| `Invalidate`, `TagsChange`, `LoseEntry`, `ExpireLock`, `Update`, `Overdue` | the environment |

Two calls that find a tag missing therefore work with two hashes, each its own,
until the next reading. `moved[p]` says that the tags have changed since `p` drew
its values: its `Fill` may then leave a mixture of values, or a tag that is still
missing. An invalidation of some tags leaves the others missing if they were.
The run starts from an empty Redis as well as from one with all the tags.

The history variables: `disturbed` notes a loss, a failure, a wait in vain or a
change of the tags under a call; `raced`, that a `Fill` has overwritten what
somebody else created; `overlapped`, an invalidation between a computation and
the end of the reading of the hash in `set_bytes`.

An `unlock()` that fails is taken not to have been run; that Redis ran it all the
same is `ExpireLock` right after it. Left out here and modelled in
`DecoratedCall`: the key and tags callables, a value that cannot be unserialized,
the hook. A serializer that fails has the effect of `SetFails` at `hash3`. The
metrics in `CacheInfo` are left out.

### DictLock

State: `_locks` (`locks`), and for each `LockWithId` object whether its
`threading.Lock` is `taken` and its deadline has passed (`expired`). `LockNew`
and `LockListed` are the two outcomes of the critical section of `lock()`,
`Acquire` and `GiveUp` those of the wait outside it. `Unlock` is also what the
service calls with `None` after `lock()` gave up (`service.py:232`), and may name
another hash than the one that was locked (`service.py:228`). Objects that
nothing refers to are used again, so `|Proc| + |Hash| - 1` objects are as good
as infinitely many.

### LocalCache

The second implementation of `CacheContract`: `Service` over
`DictMetadataAdapter` and `DictStorageAdapter`, with the threads of one process
as the clients. `tags` is `_tags`, `data` is `_data`, `vals` what the generator
of `get_or_set_tag_values` has yielded to each call.

| action | code |
|---|---|
| `SetBytes`, `GetBytes`, `Delete`, `ReadTag` | `_tags.get` of the next of the sorted tags |
| `CreateTag` | the tag was missing: `_tags[...] = new`, whatever is there by now |
| `StorageSet`, `StorageGet`, `StorageDelete` | one method of the storage, under its own lock |
| `BeginInvalidate`, `InvalidateTag` | `invalidate_tags` takes the lock and overwrites one tag after another (`pending`) |
| `Expire` | an entry that is too old is dropped when somebody looks at it |

Between two tags of one call anything can happen, a half-done invalidation
included, so that a hash may mix values from before and after it. Tags never go
away: their lifetime is written down in memory and nobody reads it. For the
contract an invalidation of several tags is one invalidation per tag.

### DecoratedCall

What the arguments of `decorator()` do to the calls. `form` is chosen at the
beginning and never changes: the key (usable, `""`, a callable that raises), the
tags (`None`, a list, a static iterator, a callable that returns an iterator,
raises, or returns an iterator that raises; a list with a tag in it twice), what
`invalidate()` is given, and `lock`. `spent` says whose iterator is consumed;
the hash is then that of the special tag alone. `entry` is kept for the two
hashes that can be read, named after their set of tags, and any hash out of reach
is `Old`. `missing` are the tags that are not in Redis. `Garbage` is an entry
that the unserializer refuses (`Deploy`).

The `pc` labels follow the wrapper: `read`, `lock`, `again`, `found` (the
unserializer), `compute`, `store`, `unlock`, `return` (the hook). A reading is
`Mget`, which leaves in `seen` the hash that the call is going to use and in
`draws` the tags it has drawn values for, then `Send` if there are any; the
command after it is the step of the wrapper. `Send` overwrites: whoever had read
a tag that it replaces, or was about to send a value for one, is left with `Old`
or replaces it in turn (`Supersede`). A tag named twice and missing is given two
values by one pipeline, and the hash is made of the first: it is `Old` from the
start.

A lock belongs to the hash it was taken under, `lockAt`, which becomes `Old` when
the tags of that hash change, and stays on record; `orphan` are the locks within
reach whose call has ended. `disturbed` notes a failure, a loss, a wait in vain,
an invalidation under a call, or a `Send` over a tag that was created meanwhile,
after which nothing is promised about hits and locks.

### Controller

State: `settings` (the attributes of the object), `service` (`__service`),
`built` (what each service was made from, and after how many rebuilds),
`making` (the service that the holder of `_internal_lock` is building), `using`
(the service a thread has obtained and not yet called), `deco` (the one a
decorator keeps). `BeginMake`, `FinishMake` and `Access` are `_service`;
`Configure` an assignment to attributes; `Rebuild` is `_rebuild_service`.

The data are in *places*: a member of `Where` for each server, database and
namespace, and `i` for the memory of service `i`, since each service in memory
makes adapters of its own. Settings become adapters by `Meta` and `Storage`
(Redis, memory, black hole, failing) and a place by `Home`, lifetimes become
commands by `Resolve`, `EntrySet`, `TagCreate` and `TagReset`, and `WithExpiry`
is Redis' own rule. `entry` keeps what expiry an entry got and which it was
`promised` by the documentation; `fresh` is false once an invalidation has
returned `True` after it was stored, by any service. `refused` are the services
whose `set()` has returned `False` because of an exception of the cache; a
serializer that fails makes `set()` return `False` too (`SetUnserializable`), but
is no refusal.

A cache operation is one step, all the tags are on the one entry, and an entry
whose tags moved is dropped at once, which `TaggedCache` justifies. All settings
are read at once when a service is built.

## 3. The runs

| run | question | instance | distinct states |
|---|---|---|---|
| `cache` | no superseded hit; contract; out of reach for good; the proof's invariant | 2 clients, 1 key, 1 tag (and All), 2 writes, 4 random values, symmetry | 296 000 |
| `cache_late` | the same with subsets of two tags and commands run late | 1 client, 2 tags, 1 write, 1 late command, 4 random values, symmetry | 119 000 |
| `lock` | leases, no theft, no lost wakeup; `lock()` returns | 2 processes, 2 hashes, 3 ids, 1 tick of waiting and 1 of BLPOP, 2 tokens, 1 late command, fair | 877 000 |
| `decorator` | single flight, locks released, when a stale value can be found | 2 processes, 3 hashes, with and without `lock=True`, 1 change of the data, symmetry | 1 005 000 |
| `decorator_live` | every call returns | 1 process, 3 hashes, fair | 81 000 |
| `decorator_found` | is a value that was found used? | 2 processes, 2 hashes, symmetry | violation |
| `dict_lock` | listed locks are taken; exclusive until a mix-up; the proof's invariant; abandoned locks go | 2 threads, 2 hashes, 3 objects, fair | 45 000 |
| `local_cache` | does the cache in memory keep the contract; out of reach for good | 2 threads, 1 key, 1 tag (and All), 2 writes, 5 random values, symmetry | 98 000 |
| `decorated_call` | when does an invalidation reach the entries; does a call leave an entry and no lock, whatever its arguments | 2 processes, every form of key and tags, 1 change of the data, symmetry | 1 939 000 |
| `any_iterable` | does any iterable of tags work? | 1 process, a list or a generator of tags, `invalidate()` of a list or an iterator | violation |
| `controller` | one service at a time; rebuilds take effect; what survives an invalidation; lifetimes | 2 threads, 2 tags, 2 places, 11 settings, 4 lifetimes, 2 services, symmetry | 301 000 |
| `lifetimes` | is "no expiration" ever a reason to refuse? | 1 thread, 1 service, two ways to say "no expiration" | violation |

Deadlock is checked in every run. The fair runs check liveness, safety too in
`lock` and `dict_lock`, and use no symmetry.

**Bounds.** `WriteId` bounds the number of `set()` calls, and nothing else bounds
a run of `TaggedCache`: reads, deletes, invalidations and losses go on for ever.
Two clients are enough for every pair of racing calls, and invalidations need no
client, so a call can race with any number of them. Two writes are needed for
overwriting. In `cache_late` the late command is the second actor. Four random
values leave one or two that no tag has, so an old value can survive in a call
or an entry while the tag moves on; when all are in use a new value cannot be
drawn until one is lost, which cuts behaviours off but adds none. The theorems
have none of these bounds; they hold for every `MaxLate`.

In `RedisLock`, two processes are a holder and a waiter, and the late command
plays a third; the theorems are for any number. `MaxTokens` merges longer token
lists into one length, so that a list may run out earlier than it would;
`elapsed` stops counting at `Waiting + Second`, beyond which the code does the
same. One tick of `Waiting` and one of `Second` is all that the order of the two
timeouts needs: a retry after a wake in time, and one that comes too late. Each
process has one id in use and a late `unlock()` a third. The second hash is that
of a process that unlocks elsewhere than where it locked. In `DictLock`, two
threads make a holder and a waiter, and the holder a newcomer once it has
unlocked or expired; the theorems are for any number.

In `Decorator`, two calls can both find a tag missing, each with a hash of its
own, and the third hash is what an invalidation leads to; a hash that a call
still knows cannot be drawn again, so that with all three in use the tags stay as
they are for a moment, which cuts behaviours off but adds none. The data change
once, which makes an old and a new value, and only in calls without
`lock=True`: a lock excludes behaviours and plays no part in what is stored. The
theorem has both, and any number of changes. `decorator_live`
has one process: others reach a call only through Redis, as locks,
entries and tags that come and go, and all of these are there, with one hash for
its reading before the lock, one after, and one for what the tags become; locks
are left over from its own earlier calls. `disturbed`, `raced`, `overlapped` and
`computed` keep only what the properties distinguish.

`LocalCache` has the bounds of `cache` for the same reasons, and one more random
value, for a thread that is about to create a tag; the hash has two tags, hence
a step between two reads. `DecoratedCall` has two calls, because a
lock needs a waiter and a static iterator a call that consumes it and one that
finds it empty; one tag stands for all those of a decorator, which come and go
together. `MaxVersion` of 1 makes an old and a new value. `Controller` has two
places in Redis and two services, enough for a former and a current one; `Configure` is cut
off where no further service could be built from the new settings. Its settings
pair each lifetime class (`None`, negative, zero, positive) of the entries and
of the tags with Redis, and add memory, disabled and the two failing adapters.

**Fairness.** `RedisLock`: time passes, and a process inside `lock()` goes on,
since BLPOP has a timeout and the client a socket timeout. `unlock()` and expiry
are *not* assumed to happen. `Decorator`: a call that is under way goes on, and
`lock_timeout` elapses; the decorated function returns. `DictLock`: time passes
and the daemon thread runs. None of these assumes anything about the order of
processes, and weak fairness is enough.

**What the runs show.** The core holds as it should: invalidation by new tag
values is sound under every interleaving, loss and late command modelled, over
Redis and in memory. The runs that end in a violation are disagreements between
the code and its own documentation:

1. `decorator_found` (`service.py:204-205`): a value found on the second read is
   not used if `lock()` had returned `None`. `unlock(None)` raises, and the
   function runs again.
2. `any_iterable` (`lib.py:335`): the tags are iterated over for the first read
   and again by `set_bytes`; a generator is empty by then, and the entry is
   stored under the hash of the special tag alone, where no first read looks.
   This is the trace that TLC prints.
3. `any_iterable` (`lib.py:276-279`): `invalidate()` of a generator invalidates
   nothing and returns `True`, because the debug message at `metadata.py:98` has
   consumed it. With `TagsForm = {"list"}` the property fails by this alone.
4. `lifetimes` (`lib.py:89`): `None` becomes `EX 0`, which Redis refuses: `set()`
   returns `False`.
5. `lifetimes` (`service.py:110`, `storage.py:23`): a lifetime below zero is
   documented as no expiration, and sent to Redis as `EX`, which is refused:
   `set()` returns `False`. In memory it works (`LifetimesAsDocumented`).

Limits that a property states as they are:

* `StaleOnlyFromOverlap`, `InvalidationReaches`: `set_bytes` reads the hash after
  the function has run (`decorator.py:167`), so an invalidation *during* a
  computation is followed by the old value under the new hash. This is the only
  way to a stale value.
* `SingleFlight`, `LocksReleased`, `CallLeavesEntry` name all that can make the
  function run twice in spite of the lock, leave a lock behind, or put an entry
  out of reach: losses, failures, waits in vain, invalidations under a call, and
  a reader that overwrites a tag which another has just created. The last is the
  race of `tests/infra/test_lib.py:276`. It costs a computation, a lock that stays until it expires
  and an entry that is lost, but never a stale value (`NoSupersededHit`,
  `StaleOnlyFromOverlap`).
* `ExclusiveUntilMixup`: in memory a waiter gets a lock object that is not listed
  any more (`dict.py:118`), and `unlock()` removes whatever is listed under the
  name, without comparing ids (`dict.py:125`). The lock is exclusive until one of
  the two happens, against `metadata.py:62` and `metadata.py:80`.
* `InvalidationReaches`, `CallLeavesEntry` and `LocksReleased` of `DecoratedCall`
  are about tags that can be iterated over again. With a generator and
  `lock=True`, the second read and the store both use the special tag alone, so
  that invalidating the tags does not reach the entry, and the lock under the
  first hash stays until it expires. A static iterator has its tags in the first
  read only.
* `LocksReleased` (`DecoratedCall`) leaves out the key `""`, whose lock is not
  released (`decorator.py:168`), and a tag named twice: when it was missing, the
  lock is taken under a hash that no later reading has, and released under
  another. `CallLeavesEntry` holds with such tags.
* With a negative `lifetime_for_tags` the cache is bypassed until each tag has
  been invalidated once, after which it works, for `redis.py:95` has its condition
  the wrong way round and an invalidated tag never expires.
* `StaleOnlyAfterSwitch`: an invalidation reaches what other services stored
  unless they do not share their data: in memory, with another host, port,
  database or namespace, or with another metadata adapter. A disabled cache
  answers `True` to `invalidate()`, and what was in Redis is still there when it
  is enabled again.
* `LockReturns` says that `lock()` returns, not when: it counts ticks, and how
  long a process takes between two of its steps is not bounded.

Disagreements that were met while modelling and that no run looks for: with
`lock=True` two first calls that find a tag missing hash a value each of their
own, lock under two hashes, and both compute (`redis.py:70-86`), against
`lib.py:339`; the variable `raced` of `Decorator` marks these behaviours, and
`tests/infra/test_lib.py:276` steers clear of them. `lock()` can block for a second
more than `waiting` (`metadata.py:64`; `redis.py:127` sends BLPOP at least one
second). A hit after the lock unlocks under the hash of the second read, which
leaves the lock if the tags moved meanwhile (`service.py:205`, `service.py:228`).
`unlock()` of a lock that is gone pushes a token all the same.

## 4. The proofs

All theorems hold for every set of clients, keys, tags, hashes, processes and
values; the assumptions are the named `ASSUME`s of the modules (`Nil`, `None`,
`All` and the like differ from the data they are mixed with; bounds are natural
numbers; there is at least one tag, since the special one is always there; the
names of the tags are in an order, so that `sorted()` has a first one). Every
invariant, action property and refinement that a passing run checks is the
statement of a theorem. The inductive invariants were model-checked on the
instances of section 3 before they were proved; those of `TaggedCache` and
`DictLock` still are, in the runs `cache` and `dict_lock`.

**TaggedCache** (`TaggedCacheProofs`): `Spec => []NoSupersededHit`,
`NeverReachableAgain`, `ImplementsContract`, `[]TypeOK`. `NoSupersededHit` says
nothing of calls that have not been answered, so it is not inductive.
`TaggedCacheInvariant!IInv` adds the reasons:

* `ValuesAreOwned`: every value in circulation was drawn for one tag, and the
  hash of an entry is made of values drawn for exactly its tags. Hence equal
  hashes mean equal tags.
* `SupersededOutOfReach`: the entries of superseded writes are not within reach.
  It is preserved because values are fresh: `tagValue` never goes back to a hash
  that is in Redis (`OutOfReachForGood`).
* `GetsAvoidThePast`: the hash of a running `get()` is not that of an entry that
  was superseded when it began. `OverwritesHitThePast`: an older entry still
  within reach is the very one that a running `set()` or `delete()` is about to
  replace. Both tie what a call read some steps ago to what Redis holds now.
* `WritesInFlight`, `PastIsPast`, `EntriesKeepTheirWrite`, `CallsHaveKeys`:
  book-keeping; a write is stored by one call only.

Each part has a lemma `Step...`, by cases on the actions. The refinement uses the
identity mapping on the history variables: every step is a step of the contract
or leaves its variables alone (`StepImplementsContract`), and `FoundIsAllowed`
is where `GetsAvoidThePast` is needed.

**RedisLock** (`RedisLockProofs`): `HolderKeepsLock`, `NoLostWakeup`, `TypeOK`,
`ImplementsLease`. The strengthening is `IdsDiffer`: the id of a call is known to
no other call and to no late command, so the script of a late `unlock()` matches
nobody else's lock.

**DictLock** (`DictLockProofs`): `ListedIsTaken`, `ExclusiveUntilMixup`,
`TypeOK`, `IInv`. The strengthening is `HoldersAreListed`: until somebody gets the lock
by waiting or unlocks without holding it, every holder created its own object,
and that object is listed while its lock is live.

**Decorator** (`DecoratorProofs`): `SingleFlight`, `LocksReleased`,
`StaleOnlyFromOverlap`, `TypeOK`. None of the three is inductive, since each
looks at the end of a chain of steps. The invariant follows the chain:

* `DrawnUnknown`: until the values that a call has drawn are sent, nobody else
  works with their hash, and nothing is stored or locked under it.
* `NoStaleValue`, for `StaleOnlyFromOverlap`: as long as no invalidation has
  overlapped a computation, not only the entry within reach but every value on
  its way to it is as recent as the last invalidation. That includes the values
  of a call that is about to make its own hash the one within reach (`fill3`). A call at
  `put` whose hash has been left behind may carry any value.
* `FirstReading`: while nothing is disturbed or raced, tags are missing only
  until somebody has finished the first reading, and no call gets past that
  before.
* `LockIsOwned`, for `LocksReleased`: under the same conditions every call works
  with the hash within reach, and a lock and the call that knows its id point at
  each other. So whoever is under a lock releases that one. `LocksReleased` is
  proved as a property of the step that ends the call (`StepLocksReleased`).
* `OneComputation`, for `SingleFlight`: with `lock=True` every call past the lock
  has it, hence by `LockIsOwned` there is one such call; and what was computed
  is stored or on its way, so the next owner finds it on its second read.

**DecoratedCall** (`DecoratedCallProofs`): `InvalidationReaches`,
`CallLeavesEntry`, `LocksReleased`, `TypeOK`, for every form of the arguments at
once. `OnlyHome` is what tags that can be iterated over again buy: all is read,
stored and locked under one hash. `MissingIsUnknown` says that nothing is stored,
or seen by a call that has no values to send, under a hash one of whose tags is
missing. On these rest `NoStaleValue` (as above), `LockWillBeReleased` (the call
whose lock it is has its unlock still before it, under the hash of the lock) and
`EntryIsLeft` (a call past its store, or that has found a value, leaves a
readable entry). `SupersedeFacts`, `SendFacts` and `FlushFacts` say what a
change of the tags leaves alone.

**LocalCache** (`LocalCacheProofs`): `NeverReachableAgain`, `ImplementsContract`,
`TypeOK`. The argument is that of `TaggedCache`, but a call reads its tags one at
a time, so that halfway through it has no hash yet. What counts is the hash it
is *going to have* unless a tag moves on: `Expected(c)` is made of the values
that `c` has read and, for the others, of those that are there now (`Seen`). With
it `GetsAvoidThePast` and `OverwritesHitThePast` hold at every step of a call,
including the one where another thread replaces a tag it has read, or is about
to. `ReadsMatch` ties `absent` and `vals` to the call: a tag that was found
missing is still unread when it is created. `SameHashSameTags` and
`HashMovesOn` are the two facts about hashes that everything else uses. The
refinement uses the identity mapping on the history variables.

**Controller** (`ControllerProofs`): `OneService`, `RebuildTakesEffect`,
`StaleOnlyAfterSwitch`, `LifetimesAsDocumented`, `TypeOK`, for all integers as
lifetimes and any number of threads, services, rebuilds, servers, databases and
namespaces. The strengthening comes in two halves.
`ControlInv` adds that there is no service while one is under construction.
`DataInv` says where the data come from: an entry was stored by a service that
works, in the place where that service keeps its data (`Keeps`), with all its
tags; a refusal belongs to a service that has been made. Control steps keep services that have
been made as they are, which is all that `DataInv` needs
(`ControlKeepsData`); the other steps leave the control alone (`DoneControl`).
`InvalidateReaches` is the argument for `StaleOnlyAfterSwitch`: whoever keeps an
entry that an invalidation did not reach is apart from the service that
invalidated.

**Only model-checked.** The liveness properties `LockReturns`, `CallsReturn` and
`ListedLocksGo`, which TLAPS does not reach, as they rest on fairness; and of
course the violations. The absence of deadlock is checked too, not proved.

## 5. Not modelled

* Collisions of the 64-bit hash (`short_hash`), and of lock ids.
* What is in `CacheInfo` and what a hook is told; logging.
* Serialization, exceptions and types as data: only whether they fail matters,
  and does (`DecoratedCall`).
* The lock ids of the black-hole adapter: it excludes nobody, by design.
* An assignment to two settings that a thread building a service sees by halves.
* The Redis client: connection pool, retries, sockets. A command is answered,
  lost, or run late.

## 6. Plan

Done: the modules of section 2 and the theorems of section 4. Next:

1. `Decorator` composed with the steps of `RedisLock`: its reduction of `lock()`
   to three outcomes as a refinement instead of an argument in prose.
2. An abstract specification of a decorated function, which `Decorator`
   implements.
3. `DictLock` as an implementation of `LeaseContract` up to the first mix-up.
