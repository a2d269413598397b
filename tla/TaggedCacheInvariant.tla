------------------------ MODULE TaggedCacheInvariant ------------------------
(***************************************************************************)
(* The inductive invariant of TaggedCache: why a superseded value is never *)
(* returned.  Each part is used by the step that the comment names.        *)
(***************************************************************************)
EXTENDS TaggedCache

LatePuts == {l \in late : l.cmd = "put"}

(* Entries that are in Redis or may still arrive.                          *)
Entries == storage \cup {l.entry : l \in LatePuts}

(* A set() that is under way carries a write that no other call, and no    *)
(* abandoned command, carries, and that has not returned yet.  Its entry   *)
(* therefore supersedes others and is superseded by none.                  *)
WritesInFlight ==
  /\ \A c \in Client : call[c].kind = "set" =>
       /\ call[c].key \in Key
       /\ call[c].write \in started \ completed
       /\ call[c].write.key = call[c].key
       /\ call[c].write.tags = call[c].tags
       /\ \A d \in Client \ {c} : call[d].kind = "set" => call[d].write # call[c].write
       /\ \A l \in LatePuts : l.entry.write # call[c].write
  /\ \A l \in LatePuts : l.entry.write \notin completed

(* The other calls have a key too.                                         *)
CallsHaveKeys ==
  \A c \in Client : call[c].kind \in {"get", "delete"} => call[c].key \in Key

(* What a call has noted about the past is about completed writes; for a   *)
(* set() or a delete(), of its own key and tags.                           *)
PastIsPast ==
  \A c \in Client :
    /\ call[c].past \subseteq completed
    /\ call[c].kind \in {"set", "delete"} =>
         \A w \in call[c].past : w.key = call[c].key /\ w.tags = call[c].tags

(* An entry is stored under the key of its write.                          *)
EntriesKeepTheirWrite ==
  \A e \in Entries : e.write \in started /\ e.write.key = e.key

(* Every value in circulation was drawn for one tag, and the values in the *)
(* hash of an entry were drawn for exactly the tags of its write: from an  *)
(* equal hash follow equal tags (StorageGet).                              *)
ValuesAreOwned ==
  \E owner \in [Rand -> AllTag] :
    /\ \A t \in AllTag : tagValue[t] # Nil => owner[tagValue[t]] = t
    /\ \A c \in Client, t \in AllTag : vals[c][t] # Nil => owner[vals[c][t]] = t
    /\ \A e \in Entries : {owner[r] : r \in e.hash} = FullTags(e.write.tags)

(* InvalidateTags, InvalidateAll, StorageSet, StorageDelete: what they     *)
(* supersede is out of reach, for good (NeverReachableAgain).              *)
SupersededOutOfReach ==
  \A e \in storage : e.write \in superseded => ~Reachable(e)

(* GetBytes, SetMissingTags: the hash a get() works with is not the hash   *)
(* of any entry that was superseded when the get() began.                  *)
GetsAvoidThePast ==
  \A c \in Client : call[c].kind = "get" /\ HasHash(c) =>
    \A e \in storage : e.write \in call[c].past => e.hash # CallHash(c)

(* SetBytes, Delete, SetMissingTags: an earlier entry that is still within *)
(* reach is the very one that the set() or delete() is about to replace.   *)
OverwritesHitThePast ==
  \A c \in Client : call[c].kind \in {"set", "delete"} =>
    \A e \in storage : e.write \in call[c].past /\ Reachable(e) =>
      HasHash(c) /\ e.hash = CallHash(c)

(* The inductive invariant: each part is preserved by every step, given    *)
(* the others.                                                             *)
IInv ==
  /\ TypeOK
  /\ WritesInFlight
  /\ CallsHaveKeys
  /\ PastIsPast
  /\ EntriesKeepTheirWrite
  /\ ValuesAreOwned
  /\ SupersededOutOfReach
  /\ GetsAvoidThePast
  /\ OverwritesHitThePast
  /\ NoSupersededHit
=============================================================================
