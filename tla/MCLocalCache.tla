---------------------------- MODULE MCLocalCache ----------------------------
(* Instances of LocalCache for TLC. *)
EXTENDS LocalCache, TLC

CONSTANT a

(* "@@@all@@@" comes before the names that begin with a letter. *)
RankOfNames == All :> 0 @@ a :> 1

(* Threads, writes and random values are interchangeable. *)
Symmetry ==
  Permutations(Thread) \cup Permutations(WriteId) \cup Permutations(Rand)
=============================================================================
