--------------------------- MODULE MCPlayerStore ---------------------------
(***************************************************************************)
(* PlayerStore for TLC: two interchangeable scene nodes.                   *)
(***************************************************************************)
EXTENDS PlayerStore, TLC

Symmetric == Permutations(Nodes)
=============================================================================
