----------------------------- MODULE MCDecorator -----------------------------
(* Instances of Decorator for TLC. *)
EXTENDS Decorator, TLC

(* The data change once, without lock=True, or never. *)
OneChange == [lock \in BOOLEAN |-> IF lock THEN 0 ELSE 1]
NoChange == [lock \in BOOLEAN |-> 0]

(* Processes and hashes are interchangeable. *)
Symmetry == Permutations(Proc) \cup Permutations(Hash)
=============================================================================
