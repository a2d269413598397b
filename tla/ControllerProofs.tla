-------------------------- MODULE ControllerProofs --------------------------
(* Proofs about Controller, for every set of threads, tags, settings and   *)
(* lifetimes, and any number of services.                                  *)
EXTENDS Controller, TLAPS

(* The control: a service under construction is the only one there will be.*)
ControlInv ==
  /\ settings \in Settings
  /\ rebuilds \in 0..MaxService - 1 /\ made \in 0..MaxService
  /\ built = [i \in Service |-> built[i]]
  /\ \A i \in Service :
       IF i <= made THEN built[i].from \in Settings /\ built[i].epoch \in 0..rebuilds
                    ELSE built[i] = Nil
  /\ service \in 0..made /\ deco \in 0..made
  /\ making # Nil =>
       making.by \in Thread /\ making.from \in Settings /\ service = 0 /\ made < MaxService
  /\ using \in [Thread -> 0..made]
  /\ OneService
  /\ RebuildTakesEffect

EntryRecord == [life : Life, promised : Life, fresh : BOOLEAN]

(* Service i keeps entries in place x.                                     *)
Keeps(i, x) == Home(i) = x /\ Meta(i) = Storage(i) /\ Meta(i) \in {"redis", "memory"}

(* An entry has all its tags, and was stored by a service that works.      *)
EntryInv ==
  /\ entry = [x \in Place |-> entry[x]]
  /\ \A x \in Place : entry[x] # Nil =>
       /\ entry[x] \in EntryRecord
       /\ Absent(x) = {}
       /\ \E i \in 1..made : Keeps(i, x)

TagInv == tags \in [Place -> [AllTag -> Life \cup {"missing"}]]

RefusedInv == refused \subseteq 1..made

DataInv ==
  EntryInv /\ TagInv /\ RefusedInv /\ LifetimesAsDocumented /\ StaleOnlyAfterSwitch

IInv == ControlInv /\ DataInv

-----------------------------------------------------------------------------
(* What services are made of *)

LEMMA ServiceFacts ==
  ASSUME ControlInv, NEW i \in 1..made
  PROVE  /\ i \in Service /\ built[i].from \in Settings
         /\ Home(i) \in Place
         /\ TagLife(i) \in Int
         /\ Kind(built[i].from) \in {"redis", "memory", "blackhole"}
         /\ Meta(i) \in {Kind(built[i].from), "bad"}
         /\ Storage(i) \in {Kind(built[i].from), "bad"}
         /\ Home(i) = IF Kind(built[i].from) = "memory" THEN i ELSE built[i].from.where
<1>1. made \in Nat /\ MaxService \in Nat /\ made <= MaxService
  BY BoundAssumption DEF ControlInv
<1>2. i \in Service /\ i \in Int /\ 1 <= i /\ i <= made
  BY <1>1 DEF Service
<1>3. built[i].from \in Settings
  BY <1>2 DEF ControlInv
<1>4. built[i].from.tagLife \in Int \cup {Nil} /\ built[i].from.where \in Where
  BY <1>3, SettingsAssumption DEF Setting
<1>5. Home(i) \in Place
  BY <1>2, <1>4 DEF Home, Place
<1> QED
  BY <1>2, <1>3, <1>4, <1>5 DEF TagLife, OrZero, Kind, Meta, Storage, Home

LEMMA ResolveFacts ==
  ASSUME ControlInv, NEW i \in 1..made, NEW l \in CallLifetime \cup {Nil}
  PROVE  /\ Resolve(i, l) \in Int
         /\ Promised(i, l) = IF Resolve(i, l) > 0 THEN "ttl" ELSE "stays"
<1>1. built[i].from.life \in Int \cup {Nil}
  BY ServiceFacts, SettingsAssumption DEF Setting
<1>2. l \in Int \cup {Nil} /\ Nil \notin Int
  BY LifetimeAssumption
<1> QED
  BY <1>1, <1>2 DEF Resolve, Promised, OrZero

Kinds == {"redis", "memory", "blackhole", "bad"}

LEMMA EntrySetFacts ==
  ASSUME NEW kind \in Kinds, NEW l \in Int
  PROVE  Effective(EntrySet(kind, l)) =>
           /\ kind \in {"redis", "memory"}
           /\ EntrySet(kind, l) \in Life
           /\ EntrySet(kind, l) = IF l > 0 THEN "ttl" ELSE "stays"
<1>1. CASE kind = "redis"
  BY <1>1 DEF EntrySet, WithExpiry, Effective, Life
<1>2. CASE kind = "memory"
  BY <1>2 DEF EntrySet, Effective, Life
<1>3. CASE kind \in {"blackhole", "bad"}
  BY <1>3 DEF EntrySet, Effective, Life
<1> QED
  BY <1>1, <1>2, <1>3 DEF Kinds

LEMMA TagCreateFacts ==
  ASSUME NEW kind \in {"redis", "memory"}, NEW l \in Int
  PROVE  TagCreate(kind, l) \in Life \cup {"error"}
BY DEF TagCreate, WithExpiry, Life

LEMMA TagResetFacts ==
  ASSUME NEW kind \in Kinds, NEW l \in Int
  PROVE  /\ Effective(TagReset(kind, l)) =>
              /\ kind \in {"redis", "memory"}
              /\ TagReset(kind, l) \in Life
         /\ TagReset(kind, l) = "error" \/ Effective(TagReset(kind, l)) \/ kind = "blackhole"
         /\ kind = "bad" => TagReset(kind, l) = "error"
<1>1. CASE kind = "redis"
  BY <1>1 DEF TagReset, WithExpiry, Effective, Life
<1>2. CASE kind \in {"memory", "blackhole", "bad"}
  BY <1>2 DEF TagReset, Effective, Life
<1> QED
  BY <1>1, <1>2 DEF Kinds

-----------------------------------------------------------------------------
(* The initial state *)

LEMMA InitIInv == Init => IInv
<1> SUFFICES ASSUME Init PROVE IInv
  OBVIOUS
<1> USE BoundAssumption, LifetimeAssumption DEF Init
<1>1. ControlInv
  BY DEF ControlInv, Service, OneService, RebuildTakesEffect
<1>2. EntryInv /\ LifetimesAsDocumented /\ StaleOnlyAfterSwitch
  BY DEF EntryInv, LifetimesAsDocumented, StaleOnlyAfterSwitch
<1>3. TagInv
  BY DEF TagInv, Blank
<1>4. RefusedInv
  BY DEF RefusedInv
<1> QED
  BY <1>1, <1>2, <1>3, <1>4 DEF IInv, DataInv

-----------------------------------------------------------------------------
(* Services are obtained and dropped *)

(* What a control step leaves to the invariant of the data: services that  *)
(* have been made stay as they are.                                        *)
ControlStep ==
  /\ ControlInv'
  /\ made <= made' /\ \A i \in 1..made : built'[i] = built[i]
  /\ UNCHANGED <<tags, entry, refused>>

LEMMA BeginMakeControl ==
  ASSUME ControlInv, NEW p \in Thread, BeginMake(p)
  PROVE  ControlStep
<1> USE BoundAssumption DEF BeginMake, ControlInv
<1>1. OneService' /\ RebuildTakesEffect'
  BY DEF OneService, RebuildTakesEffect
<1> QED
  BY <1>1 DEF ControlStep

LEMMA FinishMakeControl ==
  ASSUME ControlInv, NEW p \in Thread, FinishMake(p)
  PROVE  ControlStep
<1> DEFINE n == made + 1
<1> USE BoundAssumption DEF FinishMake
<1>1. /\ n \in Service /\ n <= MaxService /\ made \in Nat /\ n \in Nat
      /\ making.from \in Settings /\ making.epoch = rebuilds /\ service = 0
  BY DEF ControlInv, Service, RebuildTakesEffect
<1>2. /\ built'[n] = [from |-> making.from, epoch |-> rebuilds]
      /\ \A i \in Service : i # n => built'[i] = built[i]
      /\ built' = [i \in Service |-> built'[i]]
  BY <1>1 DEF ControlInv
<1>3. \A i \in Service :
        IF i <= made' THEN built'[i].from \in Settings /\ built'[i].epoch \in 0..rebuilds'
                      ELSE built'[i] = Nil
  <2> SUFFICES ASSUME NEW i \in Service
               PROVE  IF i <= n THEN built'[i].from \in Settings /\ built'[i].epoch \in 0..rebuilds
                                ELSE built'[i] = Nil
    BY DEF Service
  <2>1. CASE i = n
    BY <1>1, <1>2, <2>1 DEF ControlInv
  <2>2. CASE i # n
    <3>1. i <= n <=> i <= made
      BY <1>1, <2>2 DEF Service
    <3> QED
      BY <1>2, <2>2, <3>1 DEF ControlInv
  <2> QED
    BY <2>1, <2>2
<1>4. using' \in [Thread -> 0..made']
  BY <1>1 DEF ControlInv
<1>5. ASSUME NEW i \in (({using[q] : q \in Thread} \cup {deco}) \ {0})', built'[i].epoch = rebuilds
      PROVE  i = n
  <2>1. CASE i = n
    BY <2>1
  <2>2. CASE i # n
    <3>1. i \in ({using[q] : q \in Thread} \cup {deco}) \ {0}
      BY <2>2, <1>1 DEF ControlInv
    <3>2. i \in Service
      BY <3>1, <1>1 DEF ControlInv, Service
    <3>3. built[i].epoch = rebuilds
      BY <1>2, <1>5, <2>2, <3>2
    <3>4. i = service
      BY <3>1, <3>3 DEF ControlInv, OneService
    <3> QED
      BY <1>1, <3>1, <3>4
  <2> QED
    BY <2>1, <2>2
<1>6. OneService'
  BY <1>5 DEF OneService
<1>7. RebuildTakesEffect'
  BY <1>1, <1>2 DEF RebuildTakesEffect
<1>8. \A i \in 1..made : built'[i] = built[i]
  BY <1>1, <1>2 DEF Service
<1> QED
  BY <1>1, <1>2, <1>3, <1>4, <1>6, <1>7, <1>8 DEF ControlStep, ControlInv

LEMMA AccessControl ==
  ASSUME ControlInv, NEW p \in Thread, Access(p)
  PROVE  ControlStep
<1> USE BoundAssumption DEF Access, ControlInv, control
<1>1. OneService' /\ RebuildTakesEffect'
  BY DEF OneService, RebuildTakesEffect
<1> QED
  BY <1>1 DEF ControlStep

LEMMA DecorateControl ==
  ASSUME ControlInv, NEW p \in Thread, Decorate(p)
  PROVE  ControlStep
<1> USE BoundAssumption DEF Decorate, Done, ControlInv
<1>1. OneService' /\ RebuildTakesEffect'
  BY DEF OneService, RebuildTakesEffect
<1> QED
  BY <1>1 DEF ControlStep

LEMMA ConfigureControl ==
  ASSUME ControlInv, Configure
  PROVE  ControlStep
<1> USE BoundAssumption DEF Configure, ControlInv
<1>1. OneService' /\ RebuildTakesEffect'
  BY DEF OneService, RebuildTakesEffect
<1> QED
  BY <1>1 DEF ControlStep

LEMMA RebuildControl ==
  ASSUME ControlInv, Rebuild
  PROVE  ControlStep
<1> USE BoundAssumption DEF Rebuild
<1>1. ASSUME NEW i \in 1..made
      PROVE  built[i].epoch \in 0..rebuilds
  BY <1>1 DEF ControlInv, Service
<1>2. OneService'
  <2> SUFFICES ASSUME NEW i \in ({using[q] : q \in Thread} \cup {deco}) \ {0}
               PROVE  built[i].epoch # rebuilds + 1
    BY DEF OneService
  <2>1. i \in 1..made
    BY DEF ControlInv
  <2> QED
    BY <1>1, <2>1 DEF ControlInv
<1>3. RebuildTakesEffect'
  BY DEF RebuildTakesEffect
<1>4. \A i \in Service :
        IF i <= made' THEN built'[i].from \in Settings /\ built'[i].epoch \in 0..rebuilds'
                      ELSE built'[i] = Nil
  BY DEF ControlInv
<1> QED
  BY <1>2, <1>3, <1>4 DEF ControlStep, ControlInv

(* The other steps leave the control alone, but for using.                 *)
LEMMA DoneControl ==
  ASSUME ControlInv, UNCHANGED control,
         UNCHANGED using \/ \E p \in Thread : Done(p)
  PROVE  ControlInv'
<1> USE DEF control, Done, ControlInv
<1>1. OneService' /\ RebuildTakesEffect'
  BY DEF OneService, RebuildTakesEffect
<1>2. using' \in [Thread -> 0..made']
  BY BoundAssumption
<1> QED
  BY <1>1, <1>2

(* Services that have been made stay as they are, and so do the data.      *)
LEMMA ControlKeepsData ==
  ASSUME IInv, ControlStep
  PROVE  DataInv'
<1>1. /\ made \in Nat /\ made' \in Nat /\ made <= made'
      /\ \A i \in 1..made : i \in 1..made' /\ built'[i] = built[i]
      /\ tags' = tags /\ entry' = entry /\ refused' = refused
  BY BoundAssumption DEF IInv, ControlInv, ControlStep
<1>2. \A i \in 1..made :
        /\ Meta(i)' = Meta(i) /\ Storage(i)' = Storage(i)
        /\ Home(i)' = Home(i) /\ built'[i].from.where = built[i].from.where
  BY <1>1 DEF Meta, Storage, Home
<1>3. EntryInv'
  <2>1. \A i \in 1..made, x \in Place : Keeps(i, x) => Keeps(i, x)'
    BY <1>2 DEF Keeps
  <2> QED
    BY <1>1, <2>1 DEF IInv, DataInv, EntryInv, Absent
<1>4. TagInv'
  BY <1>1, <1>2 DEF IInv, DataInv, TagInv
<1>5. RefusedInv'
  BY <1>1 DEF IInv, DataInv, RefusedInv
<1>6. LifetimesAsDocumented'
  BY <1>1 DEF IInv, DataInv, LifetimesAsDocumented
<1>7. StaleOnlyAfterSwitch'
  <2>1. \A i, j \in 1..made : Apart(i, j) => Apart(i, j)'
    BY <1>2 DEF Apart
  <2> QED
    BY <1>1, <2>1 DEF IInv, DataInv, StaleOnlyAfterSwitch
<1> QED
  BY <1>3, <1>4, <1>5, <1>6, <1>7 DEF DataInv

-----------------------------------------------------------------------------
(* The operations of a service *)

(* Reading the hash.                                                       *)
LEMMA EnsureTagsFacts ==
  ASSUME IInv, NEW i \in 1..made, EnsureTags(i), UNCHANGED control
  PROVE  /\ TagInv'
         /\ \A x \in Place : Absent(x) = {} => Absent(x)' = {}
         /\ TagsReadable(i) /\ Meta(i) # "blackhole" =>
              \A x \in Place : x = Home(i) => Absent(x)' = {}
<1>1. /\ made \in Nat /\ Home(i) \in Place /\ TagLife(i) \in Int
      /\ Meta(i) \in Kinds
  BY ServiceFacts, BoundAssumption DEF IInv, ControlInv, Kinds
<1>2. made' = made /\ built' = built
  BY DEF control
<1>3. tags \in [Place -> [AllTag -> Life \cup {"missing"}]]
  BY DEF IInv, DataInv, TagInv
<1>4. CASE ~TagsReadable(i) \/ Meta(i) = "blackhole"
  <2>1. tags' = tags
    BY <1>4 DEF EnsureTags
  <2> QED
    BY <1>4, <2>1 DEF IInv, DataInv, TagInv, Absent
<1>5. CASE TagsReadable(i) /\ Meta(i) # "blackhole"
  <2> DEFINE x == Home(i)
             m == TagCreate(Meta(i), TagLife(i))
  <2>1. Meta(i) \in {"redis", "memory"} /\ (Absent(x) = {} \/ m # "error")
    BY <1>5 DEF TagsReadable
  <2>2. tags' = [tags EXCEPT ![x] = [t \in AllTag |-> IF @[t] = "missing" THEN m ELSE @[t]]]
    BY <1>5 DEF EnsureTags
  <2>3. m \in Life \cup {"error"}
    BY <1>1, <2>1, TagCreateFacts
  <2>4. \A t \in AllTag :
          /\ tags'[x][t] = IF tags[x][t] = "missing" THEN m ELSE tags[x][t]
          /\ tags[x][t] = "missing" => m # "error"
    BY <1>1, <1>3, <2>1, <2>2 DEF Absent
  <2>5. \A t \in AllTag : tags'[x][t] \in Life
    BY <1>1, <1>3, <2>3, <2>4
  <2>6. \A y \in Place \ {x} : tags'[y] = tags[y]
    BY <1>3, <2>2
  <2>7. tags' \in [Place -> [AllTag -> Life \cup {"missing"}]]
    <3>1. tags'[x] = [t \in AllTag |-> tags'[x][t]]
      BY <1>1, <1>3, <2>2
    <3>2. tags'[x] \in [AllTag -> Life \cup {"missing"}]
      BY <2>5, <3>1
    <3>3. tags' = [y \in Place |-> tags'[y]]
      BY <1>3, <2>2
    <3> QED
      BY <1>3, <2>6, <3>2, <3>3
  <2>8. \A y \in Place : y = x => Absent(y)' = {}
    BY <2>5 DEF Life, Absent
  <2>10. TagInv'
    BY <2>7 DEF TagInv
  <2>11. \A y \in Place : Absent(y) = {} => Absent(y)' = {}
    BY <2>6, <2>8 DEF Absent
  <2> QED
    BY <1>5, <2>8, <2>10, <2>11
<1> QED
  BY <1>4, <1>5

(* The properties of the data that depend on the entries and on refused    *)
(* alone, the control being left alone.                                    *)
LEMMA EntriesKeepData ==
  ASSUME IInv, UNCHANGED control, TagInv', RefusedInv',
         entry' = [x \in Place |-> entry'[x]],
         \A x \in Place : Absent(x) = {} /\ entry'[x] # Nil => Absent(x)' = {},
         \A x \in Place : entry'[x] = entry[x] \/ entry'[x] = Nil
  PROVE  DataInv'
<1>1. made' = made /\ built' = built
  BY DEF control
<1>2. EntryInv'
  BY <1>1 DEF IInv, DataInv, EntryInv, Keeps, Home, Meta, Storage
<1>3. LifetimesAsDocumented'
  BY DEF IInv, DataInv, LifetimesAsDocumented
<1>4. StaleOnlyAfterSwitch'
  BY <1>1 DEF IInv, DataInv, StaleOnlyAfterSwitch, Apart, Meta, Storage
<1> QED
  BY <1>2, <1>3, <1>4 DEF DataInv

LEMMA RefusedKept ==
  ASSUME IInv, UNCHANGED control, UNCHANGED refused
  PROVE  RefusedInv'
BY DEF IInv, DataInv, RefusedInv, control

LEMMA StoreEntryData ==
  ASSUME IInv, NEW i \in 1..made, NEW l \in CallLifetime \cup {Nil},
         StoreEntry(i, l), UNCHANGED control
  PROVE  DataInv'
<1> DEFINE outcome == IF TagsReadable(i) THEN EntrySet(Storage(i), Resolve(i, l)) ELSE "error"
           x == Home(i)
           new == [life |-> outcome, promised |-> Promised(i, l), fresh |-> TRUE]
<1>1. /\ EnsureTags(i)
      /\ entry' = IF Effective(outcome) THEN [entry EXCEPT ![x] = new] ELSE entry
      /\ refused' = IF outcome = "error" THEN refused \cup {i} ELSE refused
  BY DEF StoreEntry
<1>2. made' = made /\ built' = built
  BY DEF control
<1>3. /\ x \in Place /\ TagLife(i) \in Int
      /\ Meta(i) \in Kinds /\ Storage(i) \in Kinds
      /\ Storage(i) \in {"redis", "memory"} =>
           Meta(i) = Storage(i) \/ Meta(i) = "bad"
  BY ServiceFacts DEF IInv, Kinds
<1>4. /\ Resolve(i, l) \in Int
      /\ Promised(i, l) = IF Resolve(i, l) > 0 THEN "ttl" ELSE "stays"
  BY ResolveFacts DEF IInv
<1>5. /\ TagInv'
      /\ \A y \in Place : Absent(y) = {} => Absent(y)' = {}
      /\ TagsReadable(i) /\ Meta(i) # "blackhole" =>
           \A y \in Place : y = x => Absent(y)' = {}
  BY <1>1, EnsureTagsFacts
<1>6. RefusedInv'
  <2>1. CASE outcome # "error"
    BY <1>1, <2>1, RefusedKept
  <2>2. CASE outcome = "error"
    BY <1>1, <1>2, <2>2 DEF IInv, DataInv, RefusedInv
  <2> QED
    BY <2>1, <2>2
<1>7. CASE ~Effective(outcome)
  <2>1. entry' = entry
    BY <1>1, <1>7
  <2> QED
    BY <1>5, <1>6, <2>1, EntriesKeepData DEF IInv, DataInv, EntryInv
<1>8. CASE Effective(outcome)
  <2>1. TagsReadable(i) /\ outcome = EntrySet(Storage(i), Resolve(i, l))
    BY <1>8 DEF Effective
  <2>2. /\ Storage(i) \in {"redis", "memory"} /\ outcome \in Life
        /\ outcome = Promised(i, l)
    BY <1>3, <1>4, <1>8, <2>1, EntrySetFacts
  <2>3. Meta(i) = Storage(i) /\ Meta(i) # "blackhole"
    BY <1>3, <2>1, <2>2 DEF TagsReadable
  <2>4. Keeps(i, x) /\ \A y \in Place : y = x => Absent(y)' = {}
    BY <1>5, <2>1, <2>2, <2>3 DEF Keeps
  <2>5. new \in EntryRecord /\ new.life = new.promised /\ new.fresh
    BY <2>2 DEF EntryRecord, Life
  <2>6. /\ entry' = [y \in Place |-> entry'[y]] /\ entry'[x] = new
        /\ \A y \in Place \ {x} : entry'[y] = entry[y]
    BY <1>1, <1>3, <1>8 DEF IInv, DataInv, EntryInv
  <2>7. EntryInv'
    <3> SUFFICES ASSUME NEW y \in Place, entry'[y] # Nil
                 PROVE  /\ entry'[y] \in EntryRecord
                        /\ Absent(y)' = {}
                        /\ \E j \in 1..made : Keeps(j, y)
      BY <1>2, <2>6 DEF EntryInv, Keeps, Home, Meta, Storage
    <3>1. CASE y = x
      BY <2>4, <2>5, <2>6, <3>1
    <3>2. CASE y # x
      BY <1>5, <2>6, <3>2 DEF IInv, DataInv, EntryInv
    <3> QED
      BY <3>1, <3>2
  <2>8. LifetimesAsDocumented'
    BY <2>5, <2>6 DEF IInv, DataInv, LifetimesAsDocumented
  <2>9. StaleOnlyAfterSwitch'
    <3>1. \A y \in Place : entry'[y] # Nil /\ ~entry'[y].fresh => entry'[y] = entry[y]
      BY <2>5, <2>6
    <3> QED
      BY <1>2, <3>1 DEF IInv, DataInv, StaleOnlyAfterSwitch, Apart, Meta, Storage
  <2> QED
    BY <1>5, <1>6, <2>7, <2>8, <2>9 DEF DataInv
<1> QED
  BY <1>7, <1>8

LEMMA GetData ==
  ASSUME IInv, NEW p \in Thread, Get(p)
  PROVE  DataInv'
<1>1. using[p] \in 1..made /\ EnsureTags(using[p]) /\ UNCHANGED <<control, entry, refused>>
  BY BoundAssumption DEF Get, IInv, ControlInv
<1>2. TagInv' /\ \A x \in Place : Absent(x) = {} => Absent(x)' = {}
  BY <1>1, EnsureTagsFacts
<1> QED
  BY <1>1, <1>2, EntriesKeepData, RefusedKept DEF IInv, DataInv, EntryInv

LEMMA DeleteData ==
  ASSUME IInv, NEW p \in Thread, Delete(p)
  PROVE  DataInv'
<1>1. using[p] \in 1..made /\ EnsureTags(using[p]) /\ UNCHANGED <<control, refused>>
  BY BoundAssumption DEF Delete, IInv, ControlInv
<1>2. TagInv' /\ \A x \in Place : Absent(x) = {} => Absent(x)' = {}
  BY <1>1, EnsureTagsFacts
<1>3. /\ entry' = [x \in Place |-> entry'[x]]
      /\ \A x \in Place : entry'[x] = entry[x] \/ entry'[x] = Nil
  BY DEF Delete, IInv, DataInv, EntryInv
<1> QED
  BY <1>1, <1>2, <1>3, EntriesKeepData, RefusedKept

(* An invalidation that returns True reaches every entry that is stored,   *)
(* unless there were services that do not share their data.                *)
LEMMA InvalidateReaches ==
  ASSUME IInv, NEW i \in 1..made,
         TagReset(Meta(i), TagLife(i)) # "error",
         NEW x \in Place, entry[x] # Nil,
         ~(Effective(TagReset(Meta(i), TagLife(i))) /\ x = Home(i))
  PROVE  \E j, k \in 1..made : Apart(j, k)
<1>1. PICK j \in 1..made : Keeps(j, x)
  BY DEF IInv, DataInv, EntryInv
<1>2. SUFFICES ASSUME ~Apart(i, j)
               PROVE  FALSE
  BY <1>1
<1>3. /\ Meta(i) \in Kinds /\ TagLife(i) \in Int
      /\ Meta(i) \in {Kind(built[i].from), "bad"}
      /\ Storage(i) \in {Kind(built[i].from), "bad"}
      /\ Home(i) = IF Kind(built[i].from) = "memory" THEN i ELSE built[i].from.where
  BY ServiceFacts DEF IInv, Kinds
<1>4. /\ Meta(j) \in {Kind(built[j].from), "bad"}
      /\ Home(j) = IF Kind(built[j].from) = "memory" THEN j ELSE built[j].from.where
      /\ Home(j) = x /\ Meta(j) = Storage(j) /\ Meta(j) \in {"redis", "memory"}
  BY <1>1, ServiceFacts DEF IInv, Keeps
<1>5. Meta(i) # "bad" /\ (Effective(TagReset(Meta(i), TagLife(i))) \/ Meta(i) = "blackhole")
  BY <1>3, TagResetFacts
<1>6. CASE i = j
  BY <1>4, <1>5, <1>6
<1>7. CASE i # j
  <2>1. /\ Meta(i) = Meta(j) /\ Meta(i) # "memory"
        /\ built[i].from.where = built[j].from.where
    BY <1>2, <1>7 DEF Apart
  <2>2. Home(i) = Home(j)
    BY <1>3, <1>4, <2>1
  <2> QED
    BY <1>4, <1>5, <2>1, <2>2
<1> QED
  BY <1>6, <1>7

LEMMA InvalidateData ==
  ASSUME IInv, NEW p \in Thread, Invalidate(p)
  PROVE  DataInv'
<1> DEFINE i == using[p]
           h == Home(i)
           outcome == TagReset(Meta(i), TagLife(i))
<1>1. PICK T \in SUBSET AllTag \ {{}} :
        /\ tags' = IF Effective(outcome)
                   THEN [tags EXCEPT ![h] = [t \in AllTag |-> IF t \in T THEN outcome ELSE @[t]]]
                   ELSE tags
        /\ entry' = [x \in Place |->
             IF outcome = "error" THEN entry[x]
             ELSE IF Effective(outcome) /\ x = h THEN Nil ELSE Stale(entry[x])]
  BY DEF Invalidate
<1>2. i \in 1..made /\ made' = made /\ built' = built /\ UNCHANGED <<control, refused>>
  BY BoundAssumption DEF Invalidate, IInv, ControlInv, control
<1>3. /\ h \in Place /\ TagLife(i) \in Int /\ Meta(i) \in Kinds
  BY <1>2, ServiceFacts DEF IInv, Kinds
<1>4. tags \in [Place -> [AllTag -> Life \cup {"missing"}]]
  BY DEF IInv, DataInv, TagInv
<1>5. ASSUME NEW x \in Place, NEW t \in AllTag
      PROVE  \/ tags'[x][t] = tags[x][t]
             \/ Effective(outcome) /\ x = h /\ tags'[x][t] = outcome
  BY <1>1, <1>3, <1>4
<1>6. Effective(outcome) => outcome \in Life
  BY <1>3, TagResetFacts
<1>7. TagInv'
  BY <1>1, <1>3, <1>4, <1>6 DEF TagInv
<1>8. \A x \in Place : Absent(x) = {} => Absent(x)' = {}
  BY <1>5, <1>6 DEF Absent, Life
<1>9. RefusedInv'
  BY <1>2, RefusedKept
<1>10. CASE outcome = "error"
  <2>1. entry' = entry
    BY <1>1, <1>10 DEF IInv, DataInv, EntryInv
  <2> QED
    BY <1>2, <1>7, <1>8, <1>9, <2>1, EntriesKeepData DEF IInv, DataInv, EntryInv
<1>11. CASE outcome # "error"
  <2>1. ASSUME NEW x \in Place, entry'[x] # Nil
        PROVE  /\ entry[x] # Nil /\ ~(Effective(outcome) /\ x = h)
               /\ entry'[x] = [entry[x] EXCEPT !.fresh = FALSE]
    BY <1>1, <1>11, <2>1 DEF Stale
  <2>2. ASSUME NEW x \in Place, entry'[x] # Nil
        PROVE  /\ entry'[x] \in EntryRecord
               /\ entry'[x].life = entry[x].life /\ entry'[x].promised = entry[x].promised
    <3>1. entry[x] \in EntryRecord
      BY <2>1, <2>2 DEF IInv, DataInv, EntryInv
    <3> QED
      BY <2>1, <2>2, <3>1 DEF EntryRecord
  <2>3. EntryInv'
    <3>1. entry' = [x \in Place |-> entry'[x]]
      BY <1>1
    <3>2. ASSUME NEW x \in Place, entry'[x] # Nil
          PROVE  Absent(x)' = {} /\ \E j \in 1..made : Keeps(j, x)
      BY <1>8, <2>1, <3>2 DEF IInv, DataInv, EntryInv
    <3> QED
      BY <1>2, <2>2, <3>1, <3>2 DEF EntryInv, Keeps, Home, Meta, Storage
  <2>4. LifetimesAsDocumented'
    BY <2>1, <2>2 DEF IInv, DataInv, LifetimesAsDocumented
  <2>5. StaleOnlyAfterSwitch'
    <3>1. ASSUME NEW x \in Place, entry'[x] # Nil
          PROVE  \E j, k \in 1..made : Apart(j, k)
      BY <1>2, <1>11, <2>1, <3>1, InvalidateReaches
    <3> QED
      BY <1>2, <3>1 DEF StaleOnlyAfterSwitch, Apart, Meta, Storage
  <2> QED
    BY <1>7, <1>9, <2>3, <2>4, <2>5 DEF DataInv
<1> QED
  BY <1>10, <1>11

LEMMA CallDecoratedData ==
  ASSUME IInv, CallDecorated
  PROVE  DataInv'
<1>1. deco \in 1..made /\ UNCHANGED control
  BY BoundAssumption DEF CallDecorated, IInv, ControlInv
<1>2. CASE StoreEntry(deco, Nil)
  BY <1>1, <1>2, StoreEntryData
<1>3. CASE EnsureTags(deco) /\ UNCHANGED <<entry, refused>>
  <2>1. TagInv' /\ \A x \in Place : Absent(x) = {} => Absent(x)' = {}
    BY <1>1, <1>3, EnsureTagsFacts
  <2> QED
    BY <1>1, <1>3, <2>1, EntriesKeepData, RefusedKept DEF IInv, DataInv, EntryInv
<1> QED
  BY <1>2, <1>3 DEF CallDecorated

LEMMA LoseTagData ==
  ASSUME IInv, NEW y \in Where, NEW t \in AllTag, LoseTag(y, t)
  PROVE  DataInv'
<1>1. /\ UNCHANGED <<control, refused>>
      /\ tags' = [tags EXCEPT ![y][t] = "missing"]
      /\ entry' = [entry EXCEPT ![y] = Nil]
      /\ y \in Place
  BY DEF LoseTag, Place
<1>2. tags \in [Place -> [AllTag -> Life \cup {"missing"}]]
  BY DEF IInv, DataInv, TagInv
<1>3. TagInv'
  BY <1>1, <1>2 DEF TagInv
<1>4. \A x \in Place : x # y => tags'[x] = tags[x] /\ entry'[x] = entry[x]
  BY <1>1, <1>2 DEF IInv, DataInv, EntryInv
<1>5. entry'[y] = Nil /\ entry' = [x \in Place |-> entry'[x]]
  BY <1>1 DEF IInv, DataInv, EntryInv
<1>6. \A x \in Place : Absent(x) = {} /\ entry'[x] # Nil => Absent(x)' = {}
  BY <1>4, <1>5 DEF Absent
<1>7. \A x \in Place : entry'[x] = entry[x] \/ entry'[x] = Nil
  BY <1>4, <1>5
<1> QED
  BY <1>1, <1>3, <1>5, <1>6, <1>7, EntriesKeepData, RefusedKept

LEMMA LoseEntryData ==
  ASSUME IInv, NEW y \in Place, LoseEntry(y)
  PROVE  DataInv'
<1>1. UNCHANGED <<control, tags, refused>> /\ made' = made /\ built' = built
  BY DEF LoseEntry, control
<1>2. /\ entry' = [x \in Place |-> entry'[x]]
      /\ \A x \in Place : entry'[x] = entry[x] \/ entry'[x] = Nil
  BY DEF LoseEntry, IInv, DataInv, EntryInv
<1>3. TagInv' /\ \A x \in Place : Absent(x)' = Absent(x)
  BY <1>1 DEF IInv, DataInv, TagInv, Absent
<1> QED
  BY <1>1, <1>2, <1>3, EntriesKeepData, RefusedKept

-----------------------------------------------------------------------------
(* Every step preserves the invariant *)

LEMMA StepIInv ==
  ASSUME IInv, [Next]_vars
  PROVE  IInv'
<1>1. ASSUME ControlStep
      PROVE  IInv'
  BY <1>1, ControlKeepsData DEF ControlStep, IInv
<1>2. ASSUME DataInv', UNCHANGED control, UNCHANGED using \/ \E p \in Thread : Done(p)
      PROVE  IInv'
  BY <1>2, DoneControl DEF IInv
<1>3. ASSUME NEW p \in Thread,
             BeginMake(p) \/ FinishMake(p) \/ Access(p) \/ Decorate(p)
      PROVE  IInv'
  BY <1>1, <1>3, BeginMakeControl, FinishMakeControl, AccessControl, DecorateControl DEF IInv
<1>4. CASE Configure \/ Rebuild
  BY <1>1, <1>4, ConfigureControl, RebuildControl DEF IInv
<1>5. ASSUME NEW p \in Thread, Set(p)
      PROVE  IInv'
  <2>1. using[p] \in 1..made
    BY <1>5, BoundAssumption DEF Set, IInv, ControlInv
  <2>2. PICK l \in CallLifetime : StoreEntry(using[p], l)
    BY <1>5 DEF Set
  <2>3. DataInv'
    BY <1>5, <2>1, <2>2, StoreEntryData DEF Set
  <2> QED
    BY <1>2, <1>5, <2>3 DEF Set
<1>6. ASSUME NEW p \in Thread, SetUnserializable(p)
      PROVE  IInv'
  <2>1. UNCHANGED <<control, tags, entry, refused>>
    BY <1>6 DEF SetUnserializable
  <2>2. TagInv' /\ \A x \in Place : Absent(x)' = Absent(x)
    BY <2>1 DEF IInv, DataInv, TagInv, Absent, control
  <2>3. DataInv'
    BY <2>1, <2>2, EntriesKeepData, RefusedKept DEF IInv, DataInv, EntryInv
  <2> QED
    BY <1>2, <1>6, <2>3 DEF SetUnserializable
<1>7. ASSUME NEW p \in Thread, Get(p)
      PROVE  IInv'
  BY <1>2, <1>7, GetData DEF Get
<1>8. ASSUME NEW p \in Thread, Delete(p)
      PROVE  IInv'
  BY <1>2, <1>8, DeleteData DEF Delete
<1>9. ASSUME NEW p \in Thread, Invalidate(p)
      PROVE  IInv'
  BY <1>2, <1>9, InvalidateData DEF Invalidate
<1>10. CASE CallDecorated
  BY <1>2, <1>10, CallDecoratedData DEF CallDecorated
<1>11. ASSUME NEW x \in Where, NEW t \in AllTag, LoseTag(x, t)
       PROVE  IInv'
  BY <1>2, <1>11, LoseTagData DEF LoseTag
<1>12. ASSUME NEW x \in Place, LoseEntry(x)
       PROVE  IInv'
  BY <1>2, <1>12, LoseEntryData DEF LoseEntry
<1>13. CASE UNCHANGED vars
  <2>1. UNCHANGED <<control, using, tags, entry, refused>>
    BY <1>13 DEF vars
  <2>2. TagInv' /\ \A x \in Place : Absent(x)' = Absent(x)
    BY <2>1 DEF IInv, DataInv, TagInv, Absent, control
  <2>3. DataInv'
    BY <2>1, <2>2, EntriesKeepData, RefusedKept DEF IInv, DataInv, EntryInv
  <2> QED
    BY <1>2, <2>1, <2>3
<1> QED
  BY <1>3, <1>4, <1>5, <1>6, <1>7, <1>8, <1>9, <1>10, <1>11, <1>12, <1>13 DEF Next

-----------------------------------------------------------------------------
(* Theorems *)

(* The conjunction of the reasons below holds in every state.              *)
THEOREM Invariance == Spec => []IInv
<1>1. IInv /\ [Next]_vars => IInv'
  BY StepIInv
<1> QED
  BY <1>1, InitIInv, PTL DEF Spec

(* Every variable keeps its type (lib.py, the attributes and __service).   *)
THEOREM TypeCorrectness == Spec => []TypeOK
<1>1. IInv => TypeOK
  <2> SUFFICES ASSUME IInv PROVE TypeOK
    OBVIOUS
  <2>1. refused \subseteq Service
    <3>1. 1..made \subseteq Service
      BY BoundAssumption DEF IInv, ControlInv, Service
    <3> QED
      BY <3>1 DEF IInv, DataInv, RefusedInv
  <2> QED
    BY <2>1 DEF TypeOK, IInv, ControlInv, DataInv, EntryInv, EntryRecord, TagInv
<1> QED
  BY <1>1, Invariance, PTL

(* All threads are given one service between two rebuilds, whoever builds  *)
(* it (lib.py, _service).                                                  *)
THEOREM SameService == Spec => []OneService
<1>1. IInv => OneService
  BY DEF IInv, ControlInv
<1> QED
  BY <1>1, Invariance, PTL

(* No thread is given a service made before the last _rebuild_service.     *)
THEOREM RebuildsTakeEffect == Spec => []RebuildTakesEffect
<1>1. IInv => RebuildTakesEffect
  BY DEF IInv, ControlInv
<1> QED
  BY <1>1, Invariance, PTL

(* An invalidation that returned True is missed only by an object that has *)
(* had services that do not share their data: in memory, elsewhere in      *)
(* Redis, or with another metadata adapter.                                *)
THEOREM StaleAfterSwitch == Spec => []StaleOnlyAfterSwitch
<1>1. IInv => StaleOnlyAfterSwitch
  BY DEF IInv, DataInv
<1> QED
  BY <1>1, Invariance, PTL

(* What is stored expires if and only if the documentation says so, for    *)
(* every lifetime in the settings and in the calls.                        *)
THEOREM Lifetimes == Spec => []LifetimesAsDocumented
<1>1. IInv => LifetimesAsDocumented
  BY DEF IInv, DataInv
<1> QED
  BY <1>1, Invariance, PTL
=============================================================================
