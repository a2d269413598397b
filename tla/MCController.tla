---------------------------- MODULE MCController ----------------------------
(* Instances of Controller for TLC. *)
EXTENDS Controller, TLC

CONSTANTS here, there

Redis(l, t) ==
  [where |-> here, disabled |-> FALSE, local |-> FALSE, badMeta |-> FALSE, badStorage |-> FALSE,
   life |-> l, tagLife |-> t]

SomeSettings ==
  {Redis(1, 1), [Redis(1, 1) EXCEPT !.where = there], Redis(Nil, 1), Redis(0, Nil), Redis(-1, 0), Redis(1, -1),
   [Redis(1, Nil) EXCEPT !.local = TRUE],
   [Redis(-1, 1) EXCEPT !.local = TRUE],
   [Redis(1, 1) EXCEPT !.disabled = TRUE],
   [Redis(1, 1) EXCEPT !.badMeta = TRUE],
   [Redis(1, 1) EXCEPT !.badStorage = TRUE]}

(* Entries may be told not to expire by a lifetime, and tags are. *)
NoExpiration == {Redis(1, 1), Redis(1, Nil)}

SomeLifetimes == {Nil, -1, 0, 1}

Symmetry == Permutations(Thread)
=============================================================================
