----------------------------- MODULE Controller -----------------------------
(***************************************************************************)
(* One RedisTaggedCache object (rtc/infra/controllers/lib.py) used by      *)
(* several threads: its settings, the Service it builds when it is first   *)
(* used, _rebuild_service, the decorators that keep the Service they were  *)
(* made with; and the lifetimes, from the settings to the commands of the  *)
(* adapters (storage.py, metadata.py, rtc/infra/adapters).                 *)
(*                                                                         *)
(* Abstractions.  The server, its database and the namespace make one      *)
(* place where the data are.  There is one key, whose entry carries all    *)
(* the tags.  An entry whose tags have changed is dropped at once          *)
(* (TaggedCache shows that it is out of reach).  A cache operation is one  *)
(* step, but obtaining the Service and using it are two (TaggedCache       *)
(* interleaves the rest).  Redis always answers, if only with an error.  A *)
(* lifetime is negative, zero or positive; expiry may come at any time.    *)
(***************************************************************************)
EXTENDS Integers

CONSTANTS
  Thread,      \* the threads that share the object
  AllTag,      \* the tags of the entry, the special tag among them
  Where,       \* the servers, databases and namespaces that are tried
  Settings,    \* the settings that are tried, see Setting
  CallLifetime,\* the lifetime arguments that are tried
  MaxService,  \* bound: services built
  Nil          \* None: no lifetime, no entry, no service under construction

(* host, port, db and namespace; disabled, in_local_memory,                *)
(* default_lifetime, lifetime_for_tags; and which of the _forced_ adapters *)
(* is one that always fails.                                               *)
Setting == [where : Where, disabled : BOOLEAN, local : BOOLEAN,
            badMeta : BOOLEAN, badStorage : BOOLEAN,
            life : Int \cup {Nil}, tagLife : Int \cup {Nil}]

ASSUME WhereAssumption == Where \cap Int = {}
ASSUME SettingsAssumption == Settings \subseteq Setting
ASSUME LifetimeAssumption == CallLifetime \subseteq Int \cup {Nil} /\ Nil \notin Int
ASSUME BoundAssumption == MaxService \in Nat \ {0}
ASSUME TagAssumption == AllTag # {}

VARIABLES
  settings,    \* the attributes of the object, as they are now
  rebuilds,    \* how often _rebuild_service was called
  made,        \* the number of services built; their names are 1..made
  built,       \* built[i]: what service i was built from, and when
  service,     \* __service, or 0
  making,      \* the service under construction by the holder of the lock
  using,       \* using[p]: the service p is about to call, or 0
  deco,        \* the service of the decorated function, or 0
  tags,        \* tags[x][t]: the tag in place x: missing, with a ttl or without
  entry,       \* entry[x]: the entry within reach in place x, or Nil
  refused      \* history: the services whose set() has returned False after an
               \* exception of the cache

control == <<settings, rebuilds, made, built, service, making, deco>>
vars == <<control, using, tags, entry, refused>>

Service == 1..MaxService

(* Where data may be: in Redis, and in the memory of each service.         *)
Place == Where \cup Service

Blank == [t \in AllTag |-> "missing"]

Init ==
  /\ settings \in Settings
  /\ rebuilds = 0 /\ made = 0
  /\ built = [i \in Service |-> Nil]
  /\ service = 0 /\ making = Nil
  /\ using = [p \in Thread |-> 0]
  /\ deco = 0
  /\ tags = [x \in Place |-> Blank]
  /\ entry = [x \in Place |-> Nil]
  /\ refused = {}

-----------------------------------------------------------------------------
(* What _make_service makes of the settings *)

OrZero(l) == IF l = Nil THEN 0 ELSE l

Kind(s) == IF s.disabled THEN "blackhole" ELSE IF s.local THEN "memory" ELSE "redis"

Meta(i) == IF built[i].from.badMeta THEN "bad" ELSE Kind(built[i].from)
Storage(i) == IF built[i].from.badStorage THEN "bad" ELSE Kind(built[i].from)

(* Mutant of Home: every service has data of its own.                      *)
HomeAlone(i) == i

(* Where service i keeps its data.                                         *)
Home(i) == IF Kind(built[i].from) = "memory" THEN i ELSE built[i].from.where

TagLife(i) == OrZero(built[i].from.tagLife)

(* Mutant of Resolve: 0 counts as no argument.                             *)
ResolveFalsy(i, l) ==
  IF l = Nil \/ l = 0 THEN OrZero(built[i].from.life) ELSE l

(* _resolve_lifetime                                                       *)
Resolve(i, l) == IF l = Nil THEN OrZero(built[i].from.life) ELSE l

-----------------------------------------------------------------------------
(* The adapters: what becomes of a key that is set, or "error"; "nothing"  *)
(* for those that store nothing and report success                         *)

(* Redis refuses an expiry that is not positive.                           *)
WithExpiry(l) == IF l > 0 THEN "ttl" ELSE "error"

(* StoragePort.set                                                         *)
EntrySet(kind, l) ==
  [redis |-> IF l = 0 THEN "stays" ELSE WithExpiry(l),
   memory |-> IF l > 0 THEN "ttl" ELSE "stays",
   blackhole |-> "nothing",
   bad |-> "error"][kind]

(* get_or_set_tag_values, a missing tag.  In memory nobody looks at the    *)
(* lifetime of a tag.                                                      *)
TagCreate(kind, l) ==
  [redis |-> WithExpiry(l),
   memory |-> "stays",
   blackhole |-> "nothing",
   bad |-> "error"][kind]

(* invalidate_tags: with a lifetime the tag is set without it.             *)
TagReset(kind, l) ==
  [redis |-> IF l # 0 THEN "stays" ELSE WithExpiry(l),
   memory |-> "stays",
   blackhole |-> "nothing",
   bad |-> "error"][kind]

Effective(outcome) == outcome \in {"ttl", "stays"}

-----------------------------------------------------------------------------
(* The service of the object *)

(* Mutant of BeginMake: the service is not kept.                           *)
BeginMakeAgain(p) ==
  /\ making = Nil /\ made < MaxService /\ using[p] = 0
  /\ making' = [by |-> p, from |-> settings, epoch |-> rebuilds]
  /\ UNCHANGED <<settings, rebuilds, made, built, service, deco, using, tags, entry, refused>>

(* _service, for the first time: _internal_lock is held, the settings are  *)
(* read.                                                                   *)
BeginMake(p) ==
  /\ making = Nil /\ made < MaxService /\ using[p] = 0
  /\ service = 0
  /\ making' = [by |-> p, from |-> settings, epoch |-> rebuilds]
  /\ UNCHANGED <<settings, rebuilds, made, built, service, deco, using, tags, entry, refused>>

FinishMake(p) ==
  /\ making # Nil /\ making.by = p
  /\ made' = made + 1
  /\ built' = [built EXCEPT ![made + 1] = [from |-> making.from, epoch |-> making.epoch]]
  /\ service' = made + 1
  /\ using' = [using EXCEPT ![p] = made + 1]
  /\ making' = Nil
  /\ UNCHANGED <<settings, rebuilds, deco, tags, entry, refused>>

(* _service, later.                                                        *)
Access(p) ==
  /\ making = Nil /\ service # 0 /\ using[p] = 0
  /\ using' = [using EXCEPT ![p] = service]
  /\ UNCHANGED <<control, tags, entry, refused>>

(* The application assigns to the attributes of the object, as long as     *)
(* MaxService allows another service to be built from them.                *)
Configure ==
  /\ rebuilds + 1 < MaxService \/ (service = 0 /\ making = Nil)
  /\ settings' \in Settings
  /\ UNCHANGED <<rebuilds, made, built, service, making, deco, using, tags, entry, refused>>

(* Mutant of Rebuild: _internal_lock is not taken.                         *)
RebuildUnlocked ==
  /\ rebuilds + 1 < MaxService
  /\ service' = 0
  /\ rebuilds' = rebuilds + 1
  /\ UNCHANGED <<settings, made, built, making, deco, using, tags, entry, refused>>

Rebuild ==
  /\ making = Nil /\ rebuilds + 1 < MaxService
  /\ service' = 0
  /\ rebuilds' = rebuilds + 1
  /\ UNCHANGED <<settings, made, built, making, deco, using, tags, entry, refused>>

-----------------------------------------------------------------------------
(* The operations of a service *)

Done(p) == using' = [using EXCEPT ![p] = 0]

Absent(x) == {t \in AllTag : tags[x][t] = "missing"}

(* The tags can be read, those that are missing having been created.  The  *)
(* others are created by one transaction, so that all of them fail.        *)
TagsReadable(i) ==
  \/ Meta(i) = "blackhole"
  \/ Meta(i) \in {"redis", "memory"} /\
       (Absent(Home(i)) = {} \/ TagCreate(Meta(i), TagLife(i)) # "error")

(* Mutant of EnsureTags: the new values are used but not set.              *)
EnsureNothing(i) == tags' = tags

EnsureTags(i) ==
  tags' = IF TagsReadable(i) /\ Meta(i) # "blackhole"
          THEN [tags EXCEPT ![Home(i)] = [t \in AllTag |->
                 IF @[t] = "missing" THEN TagCreate(Meta(i), TagLife(i)) ELSE @[t]]]
          ELSE tags

(* What the documentation of set() and of the settings says.               *)
Promised(i, l) ==
  LET d == IF l = Nil THEN built[i].from.life ELSE l
  IN IF d # Nil /\ d > 0 THEN "ttl" ELSE "stays"

(* Service.set_bytes with lifetime l.                                      *)
StoreEntry(i, l) ==
  LET outcome == IF TagsReadable(i) THEN EntrySet(Storage(i), Resolve(i, l)) ELSE "error"
  IN /\ EnsureTags(i)
     /\ entry' = IF Effective(outcome)
                 THEN [entry EXCEPT ![Home(i)] =
                        [life |-> outcome, promised |-> Promised(i, l), fresh |-> TRUE]]
                 ELSE entry
     /\ refused' = IF outcome = "error" THEN refused \cup {i} ELSE refused

Set(p) ==
  /\ using[p] # 0
  /\ \E l \in CallLifetime : StoreEntry(using[p], l)
  /\ Done(p)
  /\ UNCHANGED control

(* The serializer raises or returns None: False, before anything is read.  *)
SetUnserializable(p) ==
  /\ using[p] # 0
  /\ Done(p)
  /\ UNCHANGED <<control, tags, entry, refused>>

(* get(): a hit, or CacheMiss.                                             *)
Get(p) ==
  /\ using[p] # 0
  /\ EnsureTags(using[p])
  /\ Done(p)
  /\ UNCHANGED <<control, entry, refused>>

Delete(p) ==
  /\ using[p] # 0
  /\ EnsureTags(using[p])
  /\ entry' = IF TagsReadable(using[p]) /\ Storage(using[p]) \in {"redis", "memory"}
              THEN [entry EXCEPT ![Home(using[p])] = Nil] ELSE entry
  /\ Done(p)
  /\ UNCHANGED <<control, refused>>

Stale(e) == IF e = Nil THEN Nil ELSE [e EXCEPT !.fresh = FALSE]

(* invalidate() and invalidate_all().  When True is returned, whatever was *)
(* stored before is stale, wherever it is.                                 *)
Invalidate(p) ==
  /\ using[p] # 0
  /\ LET i == using[p]
         outcome == TagReset(Meta(i), TagLife(i))
     IN \E T \in SUBSET AllTag \ {{}} :
          /\ tags' = IF Effective(outcome)
                     THEN [tags EXCEPT ![Home(i)] =
                            [t \in AllTag |-> IF t \in T THEN outcome ELSE @[t]]]
                     ELSE tags
          /\ entry' = [x \in Place |->
               IF outcome = "error" THEN entry[x]
               ELSE IF Effective(outcome) /\ x = Home(i) THEN Nil ELSE Stale(entry[x])]
  /\ Done(p)
  /\ UNCHANGED <<control, refused>>

(* decorator(): the wrapper keeps this service.                            *)
Decorate(p) ==
  /\ using[p] # 0
  /\ deco' = using[p]
  /\ Done(p)
  /\ UNCHANGED <<settings, rebuilds, made, built, service, making, tags, entry, refused>>

(* The decorated function is called: found, or computed and stored, or     *)
(* only computed when get() failed.                                        *)
CallDecorated ==
  /\ deco # 0
  /\ TagsReadable(deco)
  /\ IF \/ Storage(deco) = "bad"
        \/ Storage(deco) # "blackhole" /\ entry[Home(deco)] # Nil
     THEN EnsureTags(deco) /\ UNCHANGED <<entry, refused>>
     ELSE StoreEntry(deco, Nil)
  /\ UNCHANGED <<control, using>>

-----------------------------------------------------------------------------
(* Redis drops a key, expired or not; memory only drops expired entries.   *)
LoseTag(x, t) ==
  /\ tags[x][t] # "missing"
  /\ tags' = [tags EXCEPT ![x][t] = "missing"]
  /\ entry' = [entry EXCEPT ![x] = Nil]
  /\ UNCHANGED <<control, using, refused>>

LoseEntry(x) ==
  /\ entry[x] # Nil
  /\ x \in Where \/ entry[x].life = "ttl"
  /\ entry' = [entry EXCEPT ![x] = Nil]
  /\ UNCHANGED <<control, using, tags, refused>>

Next ==
  \/ \E p \in Thread :
       \/ BeginMake(p) \/ FinishMake(p) \/ Access(p)
       \/ Set(p) \/ SetUnserializable(p) \/ Get(p) \/ Delete(p) \/ Invalidate(p)
       \/ Decorate(p)
  \/ Configure \/ Rebuild \/ CallDecorated
  \/ \E x \in Where, t \in AllTag : LoseTag(x, t)
  \/ \E x \in Place : LoseEntry(x)

Spec == Init /\ [][Next]_vars

-----------------------------------------------------------------------------
(* Properties *)

Life == {"ttl", "stays"}

TypeOK ==
  /\ settings \in Settings
  /\ rebuilds \in 0..MaxService - 1 /\ made \in 0..MaxService
  /\ \A i \in Service :
       IF i <= made THEN built[i].from \in Settings /\ built[i].epoch \in 0..rebuilds
                    ELSE built[i] = Nil
  /\ service \in 0..made /\ deco \in 0..made
  /\ making # Nil => making.by \in Thread /\ making.from \in Settings
  /\ using \in [Thread -> 0..made]
  /\ tags \in [Place -> [AllTag -> Life \cup {"missing"}]]
  /\ \A x \in Place : entry[x] # Nil =>
       /\ entry[x] \in [life : Life, promised : Life, fresh : BOOLEAN]
       /\ Absent(x) = {}
  /\ refused \subseteq Service

(* Since the last _rebuild_service all threads, and the decorator if it    *)
(* was applied since, have been given the same service, although it is     *)
(* built by whoever comes first.                                           *)
OneService ==
  \A i \in ({using[p] : p \in Thread} \cup {deco}) \ {0} :
    built[i].epoch = rebuilds => i = service

(* After _rebuild_service has returned, no thread is given a service made  *)
(* from the settings as they were before, not even by one that was just    *)
(* building it.                                                            *)
RebuildTakesEffect ==
  /\ service # 0 => built[service].epoch = rebuilds
  /\ making # Nil => making.epoch = rebuilds

(* Two services that do not share their data: in memory, with another host,*)
(* port, database or namespace, or with another metadata adapter.          *)
Apart(i, j) ==
  /\ i # j
  /\ \/ Meta(i) # Meta(j) \/ Meta(i) = "memory"
     \/ built[i].from.where # built[j].from.where

(* An entry that was there when an invalidation returned True can be found *)
(* later only if the object has had services that do not share their data: *)
(* it was rebuilt in local memory, for another server, database or         *)
(* namespace, or with another metadata adapter (enabled again after having *)
(* been disabled, say).  Decorators and threads that go on with a former   *)
(* service over the same data do no harm, whatever the lifetimes.          *)
StaleOnlyAfterSwitch ==
  (\E x \in Place : entry[x] # Nil /\ ~entry[x].fresh) =>
    \E i, j \in 1..made : Apart(i, j)

(* What is stored expires if and only if it should: the argument of set()  *)
(* comes before default_lifetime, None and zero and less mean never.       *)
LifetimesAsDocumented ==
  \A x \in Place : entry[x] # Nil => entry[x].life = entry[x].promised

(* Neither of the adapters is one that always fails.                       *)
Working(i) == Meta(i) # "bad" /\ Storage(i) # "bad"

(* lib.py:85-90, "lifetime_for_tags: ... Set to None for no automatic tag  *)
(* expiration", service.py:110, "<=0 means: no expiration": no lifetime is *)
(* a reason for set() to return False.                                     *)
LifetimesAreAccepted == \A i \in refused : ~Working(i)
=============================================================================
