--------------------------- MODULE AssetTransfer ---------------------------
(***************************************************************************)
(* What the asset channel promises for one operation between a service and *)
(* a player.  The player's side is settled once, in stored data; the       *)
(* service's side is booked once.  A booked operation was carried out for  *)
(* the player, a refunded one never was and never will be.                 *)
(***************************************************************************)
VARIABLES
  player,   \* "open", "moved" (assets changed hands) or "refused"
  service   \* "open", "booked" or "refunded"

vars == <<player, service>>

Init == player = "open" /\ service = "open"

Settle ==
  /\ player = "open"
  /\ \/ player' = "moved" /\ service # "refunded"
     \/ player' = "refused"
  /\ UNCHANGED service

Book ==
  /\ service = "open"
  /\ \/ service' = "booked" /\ player = "moved"
     \/ service' = "refunded" /\ player # "moved"
  /\ UNCHANGED player

Next == Settle \/ Book

Spec == Init /\ [][Next]_vars
=============================================================================
