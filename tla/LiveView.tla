------------------------------ MODULE LiveView ------------------------------
(***************************************************************************)
(* One live-view gate under arbitrary observations at arbitrary times, as  *)
(* the dead-gate sweep of player_locator and the node sync of              *)
(* scene_manager use it.  steady and sinceRelease are history variables    *)
(* kept apart from the gate's own state.                                   *)
(***************************************************************************)
EXTENDS LiveViewGate

CONSTANTS MaxKnown   \* bound: known members

ASSUME MaxKnownAssumption == MaxKnown \in Nat

VARIABLES
  rule,          \* its recovery rule, fixed when it is made
  gate,          \* the state of the gate
  obs,           \* the last view of known members
  verdict,       \* and what the gate said of it (of known members)
  steady,        \* history: how long the missing count has been the same in
                 \* every non-empty view of known members
  sinceRelease   \* history: time since the last release, Hold if none is recent

vars == <<rule, gate, obs, verdict, steady, sinceRelease>>

\* A view: some members are known, some of them missing; an empty view misses
\* all of them.
Views == {o \in [known : 0 .. MaxKnown, missing : 0 .. MaxKnown, empty : BOOLEAN] :
            o.missing <= o.known /\ (o.empty => o.missing = o.known)}

Init ==
  /\ rule \in Recovery
  /\ gate = Fresh
  /\ obs = [known |-> 0, missing |-> 0, empty |-> FALSE]
  /\ verdict = "accept"
  /\ steady = 0
  /\ sinceRelease = Hold

\* A round reads a view and asks the gate.  A view without known members is
\* no evidence of anything: history is left alone as well.
Look(o) ==
  LET r == Observe(rule, gate, o) IN
  /\ gate' = r.gate
  /\ verdict' = IF o.known = 0 THEN verdict ELSE r.verdict
  /\ obs' = IF o.known = 0 THEN obs ELSE o
  /\ steady' = IF o.known = 0 \/ (o.missing = obs.missing /\ ~o.empty)
                 THEN steady ELSE 0
  /\ sinceRelease' = IF r.verdict = "released" THEN 0 ELSE sinceRelease
  /\ UNCHANGED rule

Tick ==
  /\ gate' = Aged(gate)
  /\ steady' = Age(steady)
  /\ sinceRelease' = Age(sinceRelease)
  /\ UNCHANGED <<rule, obs, verdict>>

Next == Tick \/ \E o \in Views : Look(o)

Spec == Init /\ [][Next]_vars

\* The round ticker keeps looking and time passes.
FairSpec == Spec /\ WF_vars(Tick) /\ WF_vars(Look(obs))

-----------------------------------------------------------------------------
\* The gate's state and history keep their types.
TypeOK ==
  /\ rule \in Recovery
  /\ gate \in GateStates
  /\ obs \in Views
  /\ verdict \in Verdicts
  /\ steady \in 0 .. Hold
  /\ sinceRelease \in 0 .. Hold

\* A hold is only released after Hold during which every view of known
\* members missed the same number of them and none was empty, however rounds
\* without known members and recoveries are mixed in.
ReleaseWhenSteady ==
  [][\A o \in Views : (Look(o) /\ o.known > 0 /\ verdict' = "released")
       => steady' >= Hold]_vars

\* A view that lost more than half of the known members is acted on only
\* within Hold of a release.
DropNeedsRelease ==
  [][\A o \in Views : (Look(o) /\ Dropped(o) /\ o.known > 0 /\ verdict' = "accept")
       => sinceRelease < Hold]_vars

\* An empty view is never acted on while members are known, not even in the
\* window after a release.
EmptyHeld ==
  [][\A o \in Views : (Look(o) /\ o.empty /\ o.known > 0) => verdict' = "held_empty"]_vars

\* With the recovery rule of scene_manager a held view is not acted on until
\* nobody is missing or the hold is released: half of the members coming back
\* does not make the others dead.
HoldUntilClear ==
  [][\A o \in Views :
       (Look(o) /\ rule = "clear" /\ gate.holding /\ o.missing > 0) => verdict' # "accept"]_vars

\* A drop that persists unchanged is not held for ever: missing members that
\* really died are handled in the end.
DropReleased ==
  \A o \in Views :
    <>[](obs = o /\ ~o.empty) => []<>(verdict \in {"accept", "released"})
=============================================================================
