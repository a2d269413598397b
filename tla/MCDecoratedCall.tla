--------------------------- MODULE MCDecoratedCall ---------------------------
(* Instances of DecoratedCall for TLC. *)
EXTENDS DecoratedCall, TLC

Symmetry == Permutations(Proc)
=============================================================================
