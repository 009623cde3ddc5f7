---------------------------- MODULE LiveViewGate ----------------------------
(***************************************************************************)
(* The rule of shared/liveview: whether a view of the live members of a    *)
(* cluster, read from etcd, may be acted on.  An empty view is always      *)
(* held; a view that lost more than half of the known members is held      *)
(* until the number of missing members has not changed for Hold.           *)
(*                                                                         *)
(* Times are ages, capped at Hold: the code only compares them with Hold.  *)
(***************************************************************************)
EXTENDS Naturals

CONSTANTS
  Hold,      \* how long the missing count must stay unchanged
  MinKnown   \* below this many known members no drop is judged

ASSUME GateAssumption == Hold \in Nat /\ MinKnown \in Nat \ {0}

\* What counts as a recovered view, chosen by the gate's user: nobody is
\* missing (scene_manager), or no more than half are (player_locator).
Recovery == {"clear", "below"}

GateStates == [holding : BOOLEAN, missing : Nat, calm : Nat,
               open : BOOLEAN, openFor : Nat]

Observations == [known : Nat, missing : Nat, empty : BOOLEAN]

Verdicts == {"accept", "held_empty", "held_drop", "released"}

\* reset: neither holding nor in the window after a release.
Fresh == [holding |-> FALSE, missing |-> 0, calm |-> 0, open |-> FALSE, openFor |-> 0]

\* Mutant: calmSince is not set when the hold starts (the zero time).
RestartWithoutClock(o) == [holding |-> TRUE, missing |-> o.missing, calm |-> Hold,
                           open |-> FALSE, openFor |-> 0]

\* restart: hold from now on.
Restart(o) == [holding |-> TRUE, missing |-> o.missing, calm |-> 0,
               open |-> FALSE, openFor |-> 0]

Opened(g) == [holding |-> FALSE, missing |-> g.missing, calm |-> g.calm,
              open |-> TRUE, openFor |-> 0]

Dropped(o) == o.known >= MinKnown /\ 2 * o.missing > o.known

Result(g, v) == [gate |-> g, verdict |-> v]

\* Mutant: the window also accepts an empty view.
InWindowEvenEmpty(g, o) == g.open /\ g.openFor < Hold

\* Mutant: the window after a release never closes.
InWindowForEver(g, o) == g.open /\ ~o.empty

\* Within Hold of a release every view that is not empty is accepted.
InWindow(g, o) == g.open /\ ~o.empty /\ g.openFor < Hold

\* Mutant: the recovery rule is the same for all users.
JudgeRecoversBelow(rule, g, o) ==
  CASE o.empty -> Result(Restart(o), "held_empty")
    [] ~o.empty /\ ~g.holding /\ ~Dropped(o) -> Result(g, "accept")
    [] ~o.empty /\ ~g.holding /\ Dropped(o) -> Result(Restart(o), "held_drop")
    [] ~o.empty /\ g.holding /\ ~Dropped(o) -> Result(Fresh, "accept")
    [] ~o.empty /\ g.holding /\ Dropped(o)
         /\ o.missing # g.missing -> Result(Restart(o), "held_drop")
    [] ~o.empty /\ g.holding /\ Dropped(o)
         /\ o.missing = g.missing /\ g.calm < Hold -> Result(g, "held_drop")
    [] OTHER -> Result(Opened(g), "released")

\* Outside the window.
Judge(rule, g, o) ==
  CASE o.empty -> Result(Restart(o), "held_empty")
    [] ~o.empty /\ ~g.holding /\ ~Dropped(o) -> Result(g, "accept")
    [] ~o.empty /\ ~g.holding /\ Dropped(o) -> Result(Restart(o), "held_drop")
    [] ~o.empty /\ g.holding /\ ~Dropped(o) /\ rule = "below" ->
         Result(Fresh, "accept")
    [] ~o.empty /\ g.holding /\ (Dropped(o) \/ rule # "below")
         /\ o.missing # g.missing -> Result(Restart(o), "held_drop")
    [] ~o.empty /\ g.holding /\ (Dropped(o) \/ rule # "below")
         /\ o.missing = g.missing /\ g.calm < Hold -> Result(g, "held_drop")
    [] OTHER -> Result(Opened(g), "released")

\* A view of known members.
ObserveKnown(rule, g, o) ==
  CASE o.missing = 0 -> Result(Fresh, "accept")
    [] o.missing > 0 /\ InWindow(g, o) -> Result(g, "accept")
    [] OTHER -> Judge(rule, IF g.open THEN Fresh ELSE g, o)

\* Mutant: an observation without known members counts as recovery.
ObserveNothingResets(rule, g, o) ==
  IF o.known = 0 THEN Result(Fresh, "accept") ELSE ObserveKnown(rule, g, o)

\* Without known members there is nothing to compare: the gate stays as it is.
Observe(rule, g, o) ==
  IF o.known = 0 THEN Result(g, "accept") ELSE ObserveKnown(rule, g, o)

Age(n) == IF n < Hold THEN n + 1 ELSE n

\* One tick passes.
Aged(g) == [holding |-> g.holding, missing |-> g.missing, calm |-> Age(g.calm),
            open |-> g.open, openFor |-> Age(g.openFor)]
=============================================================================
