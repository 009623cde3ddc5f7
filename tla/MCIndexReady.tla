---------------------------- MODULE MCIndexReady ----------------------------
(* Instances of IndexReady for TLC.                                        *)
EXTENDS IndexReady, TLC

\* Leaders, players and gates are interchangeable.
Symmetric == Permutations(Leaders) \cup Permutations(Players) \cup Permutations(Gates)
=============================================================================
