--------------------------- MODULE CacheContract ---------------------------
(***************************************************************************)
(* What the tagged cache promises the programs that call it, said without *)
(* tag values, hashes or Redis keys.                                       *)
(*                                                                         *)
(* A value is identified by the set() call that brought it: a write.       *)
(* The cache may forget any value at any time, so a get() may always miss. *)
(* What it may never do is return a value that was superseded before the   *)
(* get() began.  A write is superseded when a call that began after the    *)
(* write had returned True, and that itself succeeded,                     *)
(*    - stored another value under the same key and the same tags,         *)
(*    - deleted that key with these tags,                                  *)
(*    - invalidated one of its tags, or invalidated everything.            *)
(* A call that reports a failure promises nothing, in either direction.    *)
(***************************************************************************)

CONSTANTS
  Client,      \* the threads and processes that call the cache
  Key,         \* cache keys
  Tag,         \* invalidation tags chosen by the application
  WriteId,     \* identities of the set() calls; each is used once
  None         \* no write, no key; not in Key

VARIABLES
  call,        \* call[c]: the call that client c has under way
  started,     \* the writes whose set() has begun
  completed,   \* the writes whose set() has returned True
  superseded   \* the completed writes that no later get() may return

contractVars == <<call, started, completed, superseded>>

Write == [id : WriteId, key : Key, tags : SUBSET Tag]

Kind == {"idle", "set", "get", "delete", "hit"}

(* "past" is what the call has to know about the moment it began: for a    *)
(* get(), the writes it must not return; for a set() or a delete(), the    *)
(* writes it supersedes if it succeeds.                                    *)
Call == [kind : Kind, key : Key \cup {None}, tags : SUBSET Tag,
         write : Write \cup {None}, past : SUBSET Write]

Idle == [kind |-> "idle", key |-> None, tags |-> {}, write |-> None, past |-> {}]

SameEntry(k, T) == {w \in completed : w.key = k /\ w.tags = T}

-----------------------------------------------------------------------------

ContractTypeOK ==
  /\ call \in [Client -> Call]
  /\ started \subseteq Write
  /\ completed \subseteq started
  /\ superseded \subseteq completed

ContractInit ==
  /\ call = [c \in Client |-> Idle]
  /\ started = {}
  /\ completed = {}
  /\ superseded = {}

(* The beginning of a set(): a new write, which will supersede every write *)
(* of the same entry that has already returned.                            *)
BeginSet(c, w) ==
  /\ call[c].kind = "idle"
  /\ \A x \in started : x.id # w.id
  /\ call' = [call EXCEPT ![c] =
       [kind |-> "set", key |-> w.key, tags |-> w.tags, write |-> w,
        past |-> SameEntry(w.key, w.tags)]]
  /\ started' = started \cup {w}
  /\ UNCHANGED <<completed, superseded>>

BeginDelete(c, k, T) ==
  /\ call[c].kind = "idle"
  /\ call' = [call EXCEPT ![c] =
       [kind |-> "delete", key |-> k, tags |-> T, write |-> None,
        past |-> SameEntry(k, T)]]
  /\ UNCHANGED <<started, completed, superseded>>

BeginGet(c, k, T) ==
  /\ call[c].kind = "idle"
  /\ call' = [call EXCEPT ![c] =
       [kind |-> "get", key |-> k, tags |-> T, write |-> None,
        past |-> superseded]]
  /\ UNCHANGED <<started, completed, superseded>>

(* set() returns True.                                                     *)
FinishSet(c) ==
  /\ call[c].kind = "set"
  /\ completed' = completed \cup {call[c].write}
  /\ superseded' = superseded \cup call[c].past
  /\ call' = [call EXCEPT ![c] = Idle]
  /\ UNCHANGED started

(* delete() returns without a cache exception.                             *)
FinishDelete(c) ==
  /\ call[c].kind = "delete"
  /\ superseded' = superseded \cup call[c].past
  /\ call' = [call EXCEPT ![c] = Idle]
  /\ UNCHANGED <<started, completed>>

(* The storage answered get() with write w, which is on its way to the     *)
(* caller.                                                                 *)
Answer(c, w) ==
  /\ call' = [call EXCEPT ![c].kind = "hit", ![c].write = w]
  /\ UNCHANGED <<started, completed, superseded>>

(* The only answers the contract allows.                                   *)
Allowed(c, w) ==
  /\ call[c].kind = "get"
  /\ w \in started
  /\ w.key = call[c].key
  /\ w.tags = call[c].tags
  /\ w \notin call[c].past

(* A get() that misses, a get() that has handed over its value, and any    *)
(* call that gives up with a cache exception.                              *)
Drop(c) ==
  /\ call[c].kind # "idle"
  /\ call' = [call EXCEPT ![c] = Idle]
  /\ UNCHANGED <<started, completed, superseded>>

(* An invalidation that returns True supersedes, at one instant, every     *)
(* completed write that carries one of the tags.                           *)
Supersede(W) ==
  /\ superseded' = superseded \cup W
  /\ UNCHANGED <<call, started, completed>>

Tagged(T) == {w \in completed : w.tags \cap T # {}}

ContractNext ==
  \/ \E c \in Client :
       \/ \E w \in Write : BeginSet(c, w)
       \/ \E k \in Key, T \in SUBSET Tag : BeginGet(c, k, T) \/ BeginDelete(c, k, T)
       \/ FinishSet(c)
       \/ FinishDelete(c)
       \/ \E w \in started : Allowed(c, w) /\ Answer(c, w)
       \/ Drop(c)
  \/ \E T \in SUBSET Tag : Supersede(Tagged(T))
  \/ Supersede(completed)

ContractSpec == ContractInit /\ [][ContractNext]_contractVars
=============================================================================
