-------------------------- MODULE SessionLifecycle --------------------------
(***************************************************************************)
(* What player_locator promises its callers about a player's session,      *)
(* without Redis, leases, claims or retries:                               *)
(*                                                                         *)
(*   absent ---login---> online ---reported lost---> away                  *)
(*   away ---reconnect or login---> online                                 *)
(*   away ---lease expires---> cleaning ---cleanup done---> absent         *)
(*   online, away ---log out---> absent ---cleanup queued---> cleaning     *)
(*                                                                         *)
(* A login never overtakes the cleanup of the session before it, only a    *)
(* session that was reported lost is expired, and a login only replaces    *)
(* a session of an older login generation.                                 *)
(***************************************************************************)
EXTENDS Naturals

CONSTANT Players

VARIABLES
  phase,   \* per player: "absent", "online", "away" or "cleaning"
  gen      \* per player: generation of its session, 0 without one

vars == <<phase, gen>>

TypeOK ==
  /\ phase \in [Players -> {"absent", "online", "away", "cleaning"}]
  /\ gen \in [Players -> Nat]

Init ==
  /\ phase = [p \in Players |-> "absent"]
  /\ gen = [p \in Players |-> 0]

Move(p, to, g) ==
  /\ phase' = [phase EXCEPT ![p] = to]
  /\ gen' = [gen EXCEPT ![p] = g]

Login(p) ==
  /\ phase[p] # "cleaning"
  /\ gen'[p] > gen[p]
  /\ Move(p, "online", gen'[p])

Lose(p) == phase[p] = "online" /\ Move(p, "away", gen[p])

LogOut(p) == phase[p] \in {"online", "away"} /\ Move(p, "absent", 0)

Expire(p) == phase[p] = "away" /\ Move(p, "cleaning", 0)

QueueCleanup(p) == phase[p] = "absent" /\ Move(p, "cleaning", 0)

CleanupDone(p) == phase[p] = "cleaning" /\ Move(p, "absent", 0)

Next ==
  \E p \in Players :
    \/ Login(p) \/ Lose(p) \/ LogOut(p)
    \/ Expire(p) \/ QueueCleanup(p) \/ CleanupDone(p)

Spec == Init /\ [][Next]_vars
=============================================================================
