--------------------------- MODULE MCGlobalState ----------------------------
(* Small instances of GlobalState. *)
EXTENDS GlobalState, TLC

Symm == Permutations(Worker)
=============================================================================
