----------------------------- MODULE RedisLock -----------------------------
(***************************************************************************)
(* lock() and unlock() of RedisMetadataAdapter                             *)
(* (rtc/infra/adapters/metadata/redis.py), called by concurrent processes. *)
(*                                                                         *)
(* A lock is a Redis key that holds the random id of its holder and        *)
(* expires by itself.  A process that finds the lock taken blocks, for a   *)
(* second at most, on a list of tokens; every unlock() pushes one.         *)
(*                                                                         *)
(* A step is one Redis command, or the pipeline of unlock().  Any command  *)
(* may time out, and Redis may still run it later, or never.  A process    *)
(* that crashes is one whose command is lost.  Time is counted in ticks;   *)
(* lock keys and token lists, whose lifetimes are long compared with a     *)
(* command but not with a process, may expire at any time.                 *)
(***************************************************************************)
EXTENDS Naturals, FiniteSets

CONSTANTS
  Proc, Hash, Nil,  \* as in LeaseContract
  LockId,      \* what get_random_bytes() may return
  Waiting,     \* the waiting argument of lock(), in ticks
  Second,      \* the timeout of BLPOP, in ticks
  MaxTokens,   \* bound: tokens beyond this number are not told apart
  MaxLate      \* bound: commands of abandoned calls that may be under way

ASSUME NamesAssumption == Nil \notin LockId /\ Nil \notin Proc
ASSUME BoundsAssumption ==
  Waiting \in Nat /\ Second \in Nat /\ MaxTokens \in Nat \ {0} /\ MaxLate \in Nat

VARIABLES
  lockKey,     \* Redis keys rtc:<ns>:l:<key>:<hash>: the id in the lock, or Nil
  tokens,      \* Redis lists rtc:<ns>:w:<key>:<hash>: their lengths
  at,          \* at[p]: where p is in lock() or unlock()
  scope,       \* scope[p]: the hash that p locks
  id,          \* id[p]: the lock_id of p
  elapsed,     \* elapsed[p]: ticks since p called lock()
  blocked,     \* blocked[p]: ticks since p sent BLPOP
  late,        \* commands of abandoned calls that Redis may still run
  holder,      \* history: see LeaseContract
  lapsed       \* history: lapsed[h]: see NoLostWakeup

vars == <<lockKey, tokens, at, scope, id, elapsed, blocked, late, holder, lapsed>>

Lease == INSTANCE LeaseContract

-----------------------------------------------------------------------------
IdsInUse == {lockKey[h] : h \in Hash} \cup {id[p] : p \in Proc} \cup {l.id : l \in late}

Init ==
  /\ lockKey = [h \in Hash |-> Nil]
  /\ tokens = [h \in Hash |-> 0]
  /\ at = [p \in Proc |-> "out"]
  /\ scope = [p \in Proc |-> Nil]
  /\ id = [p \in Proc |-> Nil]
  /\ elapsed = [p \in Proc |-> 0]
  /\ blocked = [p \in Proc |-> 0]
  /\ late = {}
  /\ Lease!LeaseInit
  /\ lapsed = [h \in Hash |-> FALSE]

(* Mutant of Lock: no id is drawn.                                         *)
LockWithoutId(p, h) ==
  /\ at[p] = "out"
  /\ at' = [at EXCEPT ![p] = "try"]
  /\ scope' = [scope EXCEPT ![p] = h]
  /\ elapsed' = [elapsed EXCEPT ![p] = 0]
  /\ UNCHANGED <<lockKey, tokens, id, blocked, late, holder, lapsed>>

(* Process p calls lock() on h.                                            *)
Lock(p, h) ==
  /\ at[p] = "out"
  /\ \E i \in LockId \ IdsInUse : id' = [id EXCEPT ![p] = i]
  /\ at' = [at EXCEPT ![p] = "try"]
  /\ scope' = [scope EXCEPT ![p] = h]
  /\ elapsed' = [elapsed EXCEPT ![p] = 0]
  /\ UNCHANGED <<lockKey, tokens, blocked, late, holder, lapsed>>

(* p is in no call any more.                                               *)
Leave(p) ==
  /\ at' = [at EXCEPT ![p] = "out"]
  /\ scope' = [scope EXCEPT ![p] = Nil]
  /\ id' = [id EXCEPT ![p] = Nil]
  /\ elapsed' = [elapsed EXCEPT ![p] = 0]
  /\ blocked' = [blocked EXCEPT ![p] = 0]

(* Mutant of TryLock: SET without NX.                                      *)
TryLockWithoutNX(p) ==
  /\ at[p] = "try"
  /\ lockKey' = [lockKey EXCEPT ![scope[p]] = id[p]]
  /\ holder' = [holder EXCEPT ![scope[p]] = p]
  /\ lapsed' = [lapsed EXCEPT ![scope[p]] = FALSE]
  /\ at' = [at EXCEPT ![p] = "held"]
  /\ elapsed' = [elapsed EXCEPT ![p] = 0]
  /\ UNCHANGED <<tokens, scope, id, blocked, late>>

(* SET NX.                                                                 *)
TryLock(p) ==
  /\ at[p] = "try"
  /\ \/ /\ lockKey[scope[p]] = Nil
        /\ lockKey' = [lockKey EXCEPT ![scope[p]] = id[p]]
        /\ holder' = [holder EXCEPT ![scope[p]] = p]
        /\ lapsed' = [lapsed EXCEPT ![scope[p]] = FALSE]
        /\ at' = [at EXCEPT ![p] = "held"]
        /\ elapsed' = [elapsed EXCEPT ![p] = 0]
        /\ UNCHANGED blocked
     \/ /\ lockKey[scope[p]] # Nil
        /\ at' = [at EXCEPT ![p] = "wait"]
        /\ blocked' = [blocked EXCEPT ![p] = 0]
        /\ UNCHANGED <<lockKey, holder, lapsed, elapsed>>
  /\ UNCHANGED <<tokens, scope, id, late>>

(* The loop of lock(): another attempt, or None once p has waited enough.  *)
TryAgainOrGiveUp(p) ==
  IF elapsed[p] < Waiting
  THEN /\ at' = [at EXCEPT ![p] = "try"]
       /\ blocked' = [blocked EXCEPT ![p] = 0]
       /\ UNCHANGED <<scope, id, elapsed>>
  ELSE Leave(p)

(* BLPOP returns a token.                                                  *)
Wake(p) ==
  /\ at[p] = "wait"
  /\ tokens[scope[p]] > 0
  /\ tokens' = [tokens EXCEPT ![scope[p]] = @ - 1]
  /\ TryAgainOrGiveUp(p)
  /\ lapsed' = [lapsed EXCEPT ![scope[p]] = @ \/ elapsed[p] >= Waiting]
  /\ UNCHANGED <<lockKey, late, holder>>

(* Mutant of BlpopTimeout: BLPOP has no timeout.                           *)
BlpopForever(p) == at[p] = "wait" /\ UNCHANGED vars

(* BLPOP returns nothing.                                                  *)
BlpopTimeout(p) ==
  /\ at[p] = "wait"
  /\ tokens[scope[p]] = 0
  /\ blocked[p] = Second
  /\ TryAgainOrGiveUp(p)
  /\ UNCHANGED <<lockKey, tokens, late, holder, lapsed>>

(* Mutant of DeleteIfMine: DEL, without comparing ids.                     *)
DeleteAnyway(h, i) == lockKey' = [lockKey EXCEPT ![h] = Nil]

(* LOCK_LUA_SCRIPT: delete the lock if it still holds this id.             *)
DeleteIfMine(h, i) ==
  lockKey' = [lockKey EXCEPT ![h] = IF @ = i THEN Nil ELSE @]

(* Mutant of PushToken: unlock() wakes nobody.                             *)
PushNothing(h) == UNCHANGED tokens

(* RPUSH, whatever the script did.                                         *)
PushToken(h) ==
  tokens' = [tokens EXCEPT ![h] = IF @ < MaxTokens THEN @ + 1 ELSE @]

EndLeaseOf(p) ==
  holder' = [holder EXCEPT ![scope[p]] = IF @ = p THEN Nil ELSE @]

(* The pipeline of unlock(), under the hash that p has read last, which may*)
(* be another than the one it locked (rtc/app/service.py).                 *)
Unlock(p, h) ==
  /\ at[p] = "held"
  /\ DeleteIfMine(h, id[p])
  /\ PushToken(h)
  /\ EndLeaseOf(p)
  /\ Leave(p)
  /\ UNCHANGED <<late, lapsed>>

-----------------------------------------------------------------------------
(* Time and failures *)

(* A tick; BLPOP does not sleep longer than its timeout.  How much more    *)
(* than Waiting + Second has elapsed makes no difference.                  *)
Tick ==
  /\ \E p \in Proc : at[p] \in {"try", "wait"}
  /\ \A p \in Proc : at[p] = "wait" => blocked[p] < Second
  /\ elapsed' = [p \in Proc |-> IF at[p] \in {"try", "wait"} /\ elapsed[p] < Waiting + Second
                                THEN elapsed[p] + 1 ELSE elapsed[p]]
  /\ blocked' = [p \in Proc |-> IF at[p] = "wait" THEN blocked[p] + 1 ELSE blocked[p]]
  /\ UNCHANGED <<lockKey, tokens, at, scope, id, late, holder, lapsed>>

(* The command cmd of p, on hash h, gets no reply.                         *)
Abandon(p, cmd, h) ==
  \/ late' = late
  \/ /\ Cardinality(late) < MaxLate
     /\ late' = late \cup {[cmd |-> cmd, hash |-> h, id |-> id[p]]}

(* lock() raises MetadataCacheException.  A token that p was woken with,   *)
(* if any, is spent.                                                       *)
LockFails(p) ==
  /\ at[p] \in {"try", "wait"}
  /\ Abandon(p, IF at[p] = "try" THEN "set" ELSE "blpop", scope[p])
  /\ lapsed' = [lapsed EXCEPT ![scope[p]] = @ \/ at[p] = "try"]
  /\ Leave(p)
  /\ UNCHANGED <<lockKey, tokens, holder>>

(* unlock() raises MetadataCacheException, or p dies with the lock.        *)
UnlockFails(p, h) ==
  /\ at[p] = "held"
  /\ Abandon(p, "unlock", h)
  /\ EndLeaseOf(p)
  /\ Leave(p)
  /\ UNCHANGED <<lockKey, tokens, lapsed>>

(* Redis runs a command whose caller has gone.                             *)
LateCommand(l) ==
  /\ late' = late \ {l}
  /\ \/ /\ l.cmd = "set"
        /\ lockKey' = [lockKey EXCEPT ![l.hash] = IF @ = Nil THEN l.id ELSE @]
        /\ UNCHANGED <<tokens, lapsed>>
     \/ /\ l.cmd = "blpop"
        /\ tokens' = [tokens EXCEPT ![l.hash] = IF @ > 0 THEN @ - 1 ELSE 0]
        /\ lapsed' = [lapsed EXCEPT ![l.hash] = TRUE]
        /\ UNCHANGED lockKey
     \/ /\ l.cmd = "unlock"
        /\ DeleteIfMine(l.hash, l.id)
        /\ PushToken(l.hash)
        /\ UNCHANGED lapsed
  /\ UNCHANGED <<at, scope, id, elapsed, blocked, holder>>

ExpireLock(h) ==
  /\ lockKey[h] # Nil
  /\ lockKey' = [lockKey EXCEPT ![h] = Nil]
  /\ holder' = [holder EXCEPT ![h] = Nil]
  /\ lapsed' = [lapsed EXCEPT ![h] = TRUE]
  /\ UNCHANGED <<tokens, at, scope, id, elapsed, blocked, late>>

ExpireTokens(h) ==
  /\ tokens[h] > 0
  /\ tokens' = [tokens EXCEPT ![h] = 0]
  /\ lapsed' = [lapsed EXCEPT ![h] = TRUE]
  /\ UNCHANGED <<lockKey, at, scope, id, elapsed, blocked, late, holder>>

-----------------------------------------------------------------------------
LockStep(p) == TryLock(p) \/ Wake(p) \/ BlpopTimeout(p)

ProcStep(p) ==
  \/ \E h \in Hash : Lock(p, h) \/ Unlock(p, h) \/ UnlockFails(p, h)
  \/ LockStep(p)
  \/ LockFails(p)

Environment ==
  \/ Tick
  \/ \E l \in late : LateCommand(l)
  \/ \E h \in Hash : ExpireLock(h) \/ ExpireTokens(h)

Next == (\E p \in Proc : ProcStep(p)) \/ Environment

Spec == Init /\ [][Next]_vars

(* lock() keeps running, and time passes.  unlock() is not assumed ever to *)
(* be called, nor the lock to expire.                                      *)
Fairness == WF_vars(Tick) /\ \A p \in Proc : WF_vars(LockStep(p))

FairSpec == Spec /\ Fairness

-----------------------------------------------------------------------------
(* Properties *)

LateType == [cmd : {"set", "blpop", "unlock"}, hash : Hash, id : LockId]

TypeOK ==
  /\ lockKey \in [Hash -> LockId \cup {Nil}]
  /\ tokens \in [Hash -> 0..MaxTokens]
  /\ at \in [Proc -> {"out", "try", "wait", "held"}]
  /\ scope \in [Proc -> Hash \cup {Nil}]
  /\ id \in [Proc -> LockId \cup {Nil}]
  /\ elapsed \in [Proc -> 0..(Waiting + Second)]
  /\ blocked \in [Proc -> 0..Second]
  /\ late \subseteq LateType
  /\ holder \in [Hash -> Proc \cup {Nil}]
  /\ lapsed \in [Hash -> BOOLEAN]
  /\ \A p \in Proc : at[p] # "out" => scope[p] \in Hash /\ id[p] \in LockId

(* While the lock of a process is live, Redis holds its id: no unlock() of *)
(* another process, on time, late or repeated, removes it.                 *)
HolderKeepsLock ==
  \A h \in Hash : holder[h] # Nil =>
    /\ at[holder[h]] = "held"
    /\ scope[holder[h]] = h
    /\ lockKey[h] = id[holder[h]]

(* The lock has one holder at a time, and changes hands through being free *)
(* (metadata.py, "the lock is live until ...").                            *)
ImplementsLease == Lease!LeaseSpec

(* A process never sleeps next to a free lock with nobody to wake it: a    *)
(* token is there, or another process is about to try, unless a lock or a  *)
(* token was lost since the lock was last taken (then BLPOP's timeout is   *)
(* what wakes it).                                                         *)
NoLostWakeup ==
  \A h \in Hash :
    /\ lockKey[h] = Nil
    /\ \E p \in Proc : at[p] = "wait" /\ scope[p] = h
    => \/ tokens[h] > 0
       \/ \E p \in Proc : at[p] = "try" /\ scope[p] = h
       \/ lapsed[h]

(* lock() always returns, with an id or with None or with an exception.    *)
LockReturns ==
  \A p \in Proc : at[p] \in {"try", "wait"} ~> at[p] \in {"held", "out"}
=============================================================================
