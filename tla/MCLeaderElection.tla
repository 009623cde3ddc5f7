-------------------------- MODULE MCLeaderElection --------------------------
(* Instances of LeaderElection for TLC.                                    *)
EXTENDS LeaderElection, TLC

\* Replicas and lock values are interchangeable.
Symmetry == Permutations(Replicas) \cup Permutations(Tokens)
=============================================================================
