----------------------------- MODULE MCAssetOp -----------------------------
(***************************************************************************)
(* AssetOp for TLC: workers and scene nodes are interchangeable.           *)
(***************************************************************************)
EXTENDS AssetOp, TLC

Symmetric == Permutations(Workers) \cup Permutations(Nodes)
=============================================================================
