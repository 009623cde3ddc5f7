-------------------------- MODULE MCPlayerSession --------------------------
(***************************************************************************)
(* Instances of PlayerSession for TLC.                                     *)
(***************************************************************************)
EXTENDS PlayerSession, TLC

CONSTANTS g1, g2

\* Two gate instances that handed out the same session id.
TwoGatesOneId == {<<1, g1>>, <<1, g2>>}

\* No action and no safety property tells apart two players, gate instances,
\* calls, workers or tokens.
Symmetry == Permutations(Players) \cup Permutations(Gates) \cup Permutations(Calls)
              \cup Permutations(Workers) \cup Permutations(Tokens)

\* One connection: the shape of the liveness runs.
OneConn == {<<1, g1>>}
=============================================================================
