----------------------------- MODULE MCDictLock -----------------------------
(* Instances of DictLock for TLC. *)
EXTENDS DictLock
=============================================================================
