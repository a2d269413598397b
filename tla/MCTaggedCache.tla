--------------------------- MODULE MCTaggedCache ---------------------------
(* Instances of TaggedCache for TLC. *)
EXTENDS TaggedCacheInvariant, TLC

(* Clients, tags, writes and random values are interchangeable. *)
Symmetry ==
  Permutations(Client) \cup Permutations(Tag) \cup
  Permutations(WriteId) \cup Permutations(Rand)
=============================================================================
