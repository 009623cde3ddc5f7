------------------------- MODULE PlacementIdentity -------------------------
(***************************************************************************)
(* The pure decisions scene_manager takes about who owns a player's        *)
(* location: whether an EnterScene may write it, whether a LeaveScene may  *)
(* delete it, and whether the node holding the player has released it.     *)
(* An identity is the pair (session id, login generation); zero in both    *)
(* fields means "no identity" and generation zero means a login or a       *)
(* location written by a version that did not know generations.            *)
(***************************************************************************)
EXTENDS Integers

CONSTANT unboundSessionID  \* the reserved "no session bound" id of the C++ nodes

ASSUME UnboundSessionAssumption == unboundSessionID \in Nat \ {0}

Identity == [sid : Nat, gen : Nat]

NoIdentity == [sid |-> 0, gen |-> 0]

validSession(sid) == sid # 0 /\ sid # unboundSessionID

Verdict(name, id) == [verdict |-> name, identity |-> id]

(***************************************************************************)
(* EnterScene: cur is the identity recorded in the location, curExists     *)
(* whether there is a location at all, req the identity of the request.    *)
(* The result carries the identity to be written when it admits.           *)
(***************************************************************************)
decidePlacementIdentity(cur, curExists, req) ==
  IF ~curExists \/ cur = NoIdentity THEN Verdict("fresh", req)
  ELSE IF validSession(req.sid) /\ req.sid = cur.sid THEN
    Verdict("same_session", [cur EXCEPT !.gen = IF req.gen > @ THEN req.gen ELSE @])
  ELSE IF req.gen = 0 THEN
    Verdict("legacy", IF cur.gen # 0 THEN cur ELSE req)
  ELSE IF cur.gen = 0 \/ req.gen > cur.gen THEN Verdict("newer", req)
  ELSE IF req.gen < cur.gen THEN Verdict("stale", NoIdentity)
  ELSE IF validSession(cur.sid) THEN Verdict("conflict", NoIdentity)
  ELSE Verdict("same_session", req)

PlacementAdmits(v) == v.verdict \notin {"stale", "conflict"}

\* Mutant: a location of a newer login is deleted too.
LeaveIgnoresAge(loc, req) ==
  IF req.gen = 0 \/ loc.gen = 0 THEN "legacy" ELSE "deleted"

(***************************************************************************)
(* LeaveScene: loc is the identity recorded in the location, req that of   *)
(* the deleted session the request was sent for.                           *)
(***************************************************************************)
decideLeaveIdentity(loc, req) ==
  IF req.gen = 0 \/ loc.gen = 0 THEN "legacy"
  ELSE IF loc.gen > req.gen THEN "keep_newer"
  ELSE IF /\ loc.gen = req.gen
          /\ validSession(loc.sid) /\ validSession(req.sid)
          /\ loc.sid # req.sid THEN "keep_conflict"
  ELSE "deleted"

LeaveDeletes(v) == v \in {"legacy", "deleted"}

(***************************************************************************)
(* Positive evidence that nobody holds unsaved state of the player: no     *)
(* holder, a holder that is dead, or a handoff marker of the current epoch.*)
(***************************************************************************)
HolderReleaseFacts ==
  [noHolder : BOOLEAN, ownerDead : BOOLEAN, markerReleased : BOOLEAN,
   epoch : Nat, identityProven : BOOLEAN]

decideHolderRelease(f) ==
  IF f.noHolder THEN "no_holder"
  ELSE IF f.ownerDead THEN "owner_dead"
  ELSE IF f.markerReleased /\ f.epoch # 0 THEN "released"
  ELSE IF f.epoch # 0 /\ f.identityProven THEN "pending"
  ELSE "pending_unproven"

ReleaseDeletes(v) == v \in {"no_holder", "owner_dead", "released"}
=============================================================================
