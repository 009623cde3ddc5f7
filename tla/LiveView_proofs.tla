--------------------------- MODULE LiveView_proofs --------------------------
(***************************************************************************)
(* Proofs about LiveView for every hold time, threshold, recovery rule and *)
(* number of members.                                                      *)
(***************************************************************************)
EXTENDS LiveView, TLAPS

\* How the gate's own clocks relate to history: while it holds, it knows the
\* last missing count and has been calm no longer than that count is steady;
\* while its window is open, the window is as old as the last release.
ClocksAgree ==
  /\ gate.holding => gate.missing = obs.missing /\ gate.calm <= steady /\ ~gate.open
  /\ gate.open => gate.openFor = sinceRelease

IInv == TypeOK /\ ClocksAgree

\* The four states an observation can leave the gate in, with the verdict.
LEMMA ObserveCases ==
  ASSUME NEW rl \in Recovery, NEW g \in GateStates, NEW o \in Views, g.holding => ~g.open
  PROVE  LET r == Observe(rl, g, o) IN
         \/ r.gate = g /\ r.verdict = "accept" /\ o.known = 0
         \/ r.gate = g /\ r.verdict = "accept" /\ g.open /\ ~o.empty /\ g.openFor < Hold
         \/ r.gate = g /\ r.verdict = "accept" /\ ~g.holding /\ ~g.open /\ ~o.empty /\ ~Dropped(o)
         \/ r.gate = Fresh /\ r.verdict = "accept" /\ (~o.empty \/ o.known = 0) /\ ~Dropped(o)
         \/ /\ r.gate = Restart(o)
            /\ \/ o.empty /\ r.verdict = "held_empty"
               \/ ~o.empty /\ r.verdict = "held_drop"
         \/ /\ r.gate = g /\ r.verdict = "held_drop"
            /\ ~o.empty /\ g.holding /\ o.missing = g.missing
         \/ /\ r.gate = Opened(g) /\ r.verdict = "released"
            /\ ~o.empty /\ g.holding /\ o.missing = g.missing /\ g.calm >= Hold
<1> DEFINE r == Observe(rl, g, o)
<1>0. /\ o.known \in Nat /\ o.missing \in Nat /\ o.empty \in BOOLEAN
      /\ o.missing <= o.known /\ (o.empty => o.missing = o.known)
      /\ Hold \in Nat /\ MinKnown \in Nat \ {0}
      /\ g.calm \in Nat /\ g.openFor \in Nat
      /\ g.holding \in BOOLEAN /\ g.open \in BOOLEAN
  BY GateAssumption, MaxKnownAssumption DEF Views, GateStates
<1>1. CASE o.known = 0
  BY <1>1 DEF Observe, Result
<1>2. CASE o.known > 0 /\ o.missing = 0
  <2>1. r.gate = Fresh /\ r.verdict = "accept"
    BY <1>0, <1>2 DEF Observe, ObserveKnown, Result
  <2>2. ~o.empty /\ ~Dropped(o)
    BY <1>0, <1>2 DEF Dropped
  <2> QED BY <2>1, <2>2
<1>3. CASE o.known > 0 /\ o.missing > 0 /\ InWindow(g, o)
  <2>1. r.gate = g /\ r.verdict = "accept"
    BY <1>0, <1>3 DEF Observe, ObserveKnown, Result
  <2> QED BY <2>1, <1>3 DEF InWindow
<1>4. CASE o.known > 0 /\ o.missing > 0 /\ ~InWindow(g, o)
  <2> DEFINE b == IF g.open THEN Fresh ELSE g
  <2>1. r = Judge(rl, b, o)
    BY <1>0, <1>4 DEF Observe, ObserveKnown
  <2>2. /\ b.holding => b = g
        /\ ~b.holding => b = Fresh \/ (b = g /\ ~g.open)
        /\ b.holding \in BOOLEAN /\ b.calm \in Nat
    BY <1>0 DEF Fresh
  <2>3. CASE o.empty
    BY <2>1, <2>3 DEF Judge, Result
  <2>4. CASE ~o.empty /\ ~b.holding /\ ~Dropped(o)
    BY <1>0, <2>1, <2>2, <2>4 DEF Judge, Result
  <2>5. CASE ~o.empty /\ ~b.holding /\ Dropped(o)
    BY <1>0, <2>1, <2>5 DEF Judge, Result
  <2>6. CASE ~o.empty /\ b.holding /\ ~Dropped(o) /\ rl = "below"
    BY <1>0, <2>1, <2>6 DEF Judge, Result
  <2>7. CASE ~o.empty /\ b.holding /\ (Dropped(o) \/ rl # "below")
    <3>1. b = g BY <2>2, <2>7
    <3>2. CASE o.missing # g.missing
      BY <1>0, <2>1, <2>7, <3>1, <3>2 DEF Judge, Result
    <3>3. CASE o.missing = g.missing /\ g.calm < Hold
      BY <1>0, <2>1, <2>7, <3>1, <3>3 DEF Judge, Result
    <3>4. CASE o.missing = g.missing /\ ~(g.calm < Hold)
      BY <1>0, <2>1, <2>7, <3>1, <3>4 DEF Judge, Result
    <3> QED BY <3>2, <3>3, <3>4
  <2> QED BY <1>0, <2>2, <2>3, <2>4, <2>5, <2>6, <2>7
<1> QED BY <1>0, <1>1, <1>2, <1>3, <1>4

\* Capped ages keep their order.
LEMMA AgeFacts ==
  ASSUME NEW n \in Nat
  PROVE  /\ Age(n) \in Nat /\ (n <= Hold => Age(n) <= Hold)
         /\ \A k \in Nat : (n <= k /\ k <= Hold) => Age(n) <= Age(k)
BY GateAssumption DEF Age

\* The states built by the gate's rule are well typed.
LEMMA GateTypes ==
  /\ Fresh \in GateStates
  /\ \A o \in Views : Restart(o) \in GateStates
  /\ \A g \in GateStates : Opened(g) \in GateStates /\ Aged(g) \in GateStates
<1>1. Fresh \in GateStates BY DEF Fresh, GateStates
<1>2. ASSUME NEW o \in Views PROVE Restart(o) \in GateStates
  <2>1. o.missing \in Nat BY MaxKnownAssumption DEF Views
  <2> QED BY <2>1 DEF Restart, GateStates
<1>3. ASSUME NEW g \in GateStates PROVE Opened(g) \in GateStates /\ Aged(g) \in GateStates
  BY AgeFacts DEF Opened, Aged, GateStates
<1> QED BY <1>1, <1>2, <1>3

\* IInv is inductive.
LEMMA IInvStep == IInv /\ [Next]_vars => IInv'
<1> SUFFICES ASSUME IInv, [Next]_vars PROVE IInv'
  OBVIOUS
<1>0. /\ Hold \in Nat /\ rule \in Recovery /\ gate \in GateStates /\ gate.calm \in Nat /\ gate.openFor \in Nat
      /\ steady \in Nat /\ steady <= Hold /\ sinceRelease \in Nat /\ sinceRelease <= Hold
      /\ gate.holding \in BOOLEAN /\ gate.open \in BOOLEAN /\ gate.missing \in Nat
  BY GateAssumption DEF IInv, TypeOK, GateStates
<1>1. CASE Tick
  <2>1. /\ gate'.holding = gate.holding /\ gate'.missing = gate.missing
        /\ gate'.calm = Age(gate.calm) /\ gate'.open = gate.open
        /\ gate'.openFor = Age(gate.openFor)
    BY <1>1 DEF Tick, Aged
  <2>2. TypeOK'
    BY <1>0, <1>1, AgeFacts, GateTypes DEF Tick, IInv, TypeOK
  <2>3. ClocksAgree'
    BY <1>0, <1>1, <2>1, AgeFacts DEF Tick, IInv, ClocksAgree
  <2> QED BY <2>2, <2>3 DEF IInv
<1>2. ASSUME NEW o \in Views, Look(o) PROVE IInv'
  <2> DEFINE r == Observe(rule, gate, o)
  <2>1. /\ gate' = r.gate
        /\ verdict' = (IF o.known = 0 THEN verdict ELSE r.verdict)
        /\ obs' = (IF o.known = 0 THEN obs ELSE o)
        /\ steady' = (IF o.known = 0 \/ (o.missing = obs.missing /\ ~o.empty) THEN steady ELSE 0)
        /\ sinceRelease' = (IF r.verdict = "released" THEN 0 ELSE sinceRelease)
        /\ rule' = rule
    BY <1>2 DEF Look
  <2>2. gate.holding => gate.missing = obs.missing /\ gate.calm <= steady /\ ~gate.open
    BY DEF IInv, ClocksAgree
  <2>3. gate.open => gate.openFor = sinceRelease
    BY DEF IInv, ClocksAgree
  <2>4. /\ Fresh.holding = FALSE /\ Fresh.open = FALSE
        /\ Restart(o).holding = TRUE /\ Restart(o).missing = o.missing
        /\ Restart(o).calm = 0 /\ Restart(o).open = FALSE
        /\ Opened(gate).holding = FALSE /\ Opened(gate).open = TRUE
        /\ Opened(gate).openFor = 0
    BY DEF Fresh, Restart, Opened
  <2>5. r.gate \in GateStates /\ r.verdict \in Verdicts
    BY <1>0, <2>2, ObserveCases, GateTypes DEF Verdicts
  <2>6. TypeOK'
    BY <1>0, <2>1, <2>5 DEF IInv, TypeOK
  <2>7. ClocksAgree'
    <3>1. CASE o.known = 0
      <4>1. r.gate = gate /\ r.verdict = "accept" BY <3>1 DEF Observe, Result
      <4> QED BY <2>1, <2>2, <2>3, <3>1, <4>1 DEF ClocksAgree
    <3>2. CASE o.known # 0
      <4>1. CASE r.gate = gate
        <5>1. gate' = gate /\ obs' = o BY <2>1, <3>2, <4>1
        <5>2. CASE gate.holding
          <6>1. CASE Restart(o) = gate
            BY <1>0, <2>1, <2>4, <5>1, <5>2, <6>1 DEF ClocksAgree
          <6>2. CASE Restart(o) # gate
            <7>1. r.verdict # "released" /\ ~o.empty /\ o.missing = gate.missing
              BY <1>0, <2>2, <2>4, <3>2, <4>1, <5>2, <6>2, ObserveCases
            <7> QED BY <2>1, <2>2, <5>1, <5>2, <7>1 DEF ClocksAgree
          <6> QED BY <6>1, <6>2
        <5>3. CASE ~gate.holding
          <6>1. r.verdict # "released" BY <1>0, <2>2, <5>3, ObserveCases
          <6> QED BY <2>1, <2>3, <5>1, <5>3, <6>1 DEF ClocksAgree
        <5> QED BY <1>0, <5>2, <5>3
      <4>2. CASE r.gate = Fresh
        BY <2>1, <2>4, <4>2 DEF ClocksAgree
      <4>3. CASE r.gate = Restart(o)
        BY <1>0, <2>1, <2>4, <3>2, <4>3 DEF ClocksAgree
      <4>4. CASE r.gate = Opened(gate) /\ r.verdict = "released"
        BY <2>1, <2>4, <4>4 DEF ClocksAgree
      <4> QED BY <1>0, <2>2, <4>1, <4>2, <4>3, <4>4, ObserveCases
    <3> QED BY <3>1, <3>2
  <2> QED BY <2>6, <2>7 DEF IInv
<1>3. CASE UNCHANGED vars
  BY <1>3 DEF vars, IInv, TypeOK, ClocksAgree
<1> QED BY <1>1, <1>2, <1>3 DEF Next

\* IInv holds initially.
LEMMA IInvInit == Init => IInv
<1> SUFFICES ASSUME Init PROVE IInv
  OBVIOUS
<1>1. gate.holding = FALSE /\ gate.open = FALSE BY DEF Init, Fresh
<1>2. obs \in Views BY MaxKnownAssumption DEF Init, Views
<1> QED BY <1>1, <1>2, GateTypes, GateAssumption DEF Init, IInv, TypeOK, ClocksAgree, Verdicts

\* The gate keeps its types.
THEOREM TypeCorrect == Spec => []TypeOK
<1>1. IInv => TypeOK BY DEF IInv
<1> QED BY <1>1, IInvInit, IInvStep, PTL DEF Spec

\* A hold is released only after the missing count was steady for Hold, for
\* every pace and order of views.
THEOREM ReleaseSafe == Spec => ReleaseWhenSteady
<1>1. IInv /\ [Next]_vars =>
        [\A o \in Views : (Look(o) /\ o.known > 0 /\ verdict' = "released")
           => steady' >= Hold]_vars
  <2> SUFFICES ASSUME IInv, NEW o \in Views, Look(o), o.known > 0, verdict' = "released"
               PROVE  steady' >= Hold
    OBVIOUS
  <2>1. rule \in Recovery /\ gate \in GateStates /\ (gate.holding => ~gate.open)
    BY DEF IInv, TypeOK, ClocksAgree
  <2>2. Observe(rule, gate, o).verdict = "released"
    BY MaxKnownAssumption DEF Look, Views
  <2>3. ~o.empty /\ gate.holding /\ o.missing = gate.missing /\ gate.calm >= Hold
    BY <2>1, <2>2, ObserveCases
  <2>4. steady' = steady
    BY <2>3 DEF Look, IInv, ClocksAgree
  <2> QED
    BY <2>3, <2>4, GateAssumption DEF IInv, TypeOK, ClocksAgree, GateStates
<1> QED BY <1>1, IInvInit, IInvStep, PTL DEF Spec, ReleaseWhenSteady

\* A mass drop is acted on only within Hold of a release.
THEOREM DropSafe == Spec => DropNeedsRelease
<1>1. IInv /\ [Next]_vars =>
        [\A o \in Views : (Look(o) /\ Dropped(o) /\ o.known > 0 /\ verdict' = "accept")
           => sinceRelease < Hold]_vars
  <2> SUFFICES ASSUME IInv, NEW o \in Views, Look(o), Dropped(o), o.known > 0,
                      verdict' = "accept"
               PROVE  sinceRelease < Hold
    OBVIOUS
  <2>1. rule \in Recovery /\ gate \in GateStates /\ (gate.holding => ~gate.open)
    BY DEF IInv, TypeOK, ClocksAgree
  <2>2. Observe(rule, gate, o).verdict = "accept"
    BY MaxKnownAssumption DEF Look, Views
  <2>3. gate.open /\ gate.openFor < Hold
    BY <2>1, <2>2, ObserveCases
  <2> QED BY <2>3 DEF IInv, ClocksAgree
<1> QED BY <1>1, IInvInit, IInvStep, PTL DEF Spec, DropNeedsRelease

\* An empty view is held, whatever happened before.
THEOREM EmptySafe == Spec => EmptyHeld
<1>1. IInv /\ [Next]_vars =>
        [\A o \in Views : (Look(o) /\ o.empty /\ o.known > 0) => verdict' = "held_empty"]_vars
  <2> SUFFICES ASSUME IInv, NEW o \in Views, Look(o), o.empty, o.known > 0
               PROVE  verdict' = "held_empty"
    OBVIOUS
  <2>1. rule \in Recovery /\ gate \in GateStates /\ (gate.holding => ~gate.open)
    BY DEF IInv, TypeOK, ClocksAgree
  <2>2. Observe(rule, gate, o).verdict = "held_empty"
    BY <2>1, ObserveCases, MaxKnownAssumption DEF Views
  <2> QED BY <2>2, MaxKnownAssumption DEF Look, Views
<1> QED BY <1>1, IInvInit, IInvStep, PTL DEF Spec, EmptyHeld

\* With the recovery rule of scene_manager the gate that holds accepts no view
\* that still misses somebody, however many have come back.
THEOREM HoldSafe == Spec => HoldUntilClear
<1>1. IInv /\ [Next]_vars =>
        [\A o \in Views :
           (Look(o) /\ rule = "clear" /\ gate.holding /\ o.missing > 0)
             => verdict' # "accept"]_vars
  <2> SUFFICES ASSUME IInv, NEW o \in Views, Look(o), rule = "clear", gate.holding,
                      o.missing > 0
               PROVE  verdict' # "accept"
    OBVIOUS
  <2>1. o.known \in Nat /\ o.missing \in Nat /\ o.known > 0 /\ o.empty \in BOOLEAN
    BY MaxKnownAssumption DEF Views
  <2>2. ~gate.open /\ ~InWindow(gate, o)
    BY DEF IInv, ClocksAgree, InWindow
  <2>3. Observe(rule, gate, o) = Judge("clear", gate, o)
    BY <2>1, <2>2 DEF Observe, ObserveKnown
  <2>4. Judge("clear", gate, o).verdict # "accept"
    BY <2>1 DEF Judge, Result
  <2> QED BY <2>1, <2>3, <2>4 DEF Look
<1> QED BY <1>1, IInvInit, IInvStep, PTL DEF Spec, HoldUntilClear
=============================================================================
