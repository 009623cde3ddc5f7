----------------------------- MODULE GateSweep -----------------------------
(***************************************************************************)
(* The dead-gate sweep of player_locator.  Every replica that holds the    *)
(* slot reads, round by round, the slot's gate registry and then etcd's    *)
(* live gates; a gate missing twice is dead, and the sessions still ONLINE *)
(* on it are turned DISCONNECTING page by page.  Slot segments only share  *)
(* the load: two replicas may sweep the slot at once.                      *)
(***************************************************************************)
EXTENDS GateIndex

CONSTANTS
  Replicas,    \* locator replicas that sweep
  MinKnown,    \* below this many known gates no drop of the view is judged
  MaxFailures, \* maxConsecutiveRoundFailures
  Legacy,      \* TRUE: locators that do not keep the index are running
  Overlap,     \* TRUE: several replicas may believe that they own the slot
  Broken,      \* replicas whose reads always fail
  MaxFaults,   \* bound: other failed rounds, restarts, rebalances, and registrations
               \* that a live gate loses
  NoGate

ASSUME SweepAssumption ==
  /\ MinKnown \in Nat /\ MaxFailures \in Nat /\ MaxFaults \in Nat
  /\ Legacy \in BOOLEAN /\ Overlap \in BOOLEAN
  /\ Broken \subseteq Replicas /\ NoGate \notin Gates

VARIABLES
  owned,       \* OwnedSlots is not empty
  eligible,    \* the replica takes part in the slot shard
  failures,    \* consecutive failed rounds
  pc,          \* where the round is
  pairs,       \* the registry snapshot of the round
  live,        \* the live gates read in the round
  suspects,    \* per gate: rounds missing, capped at 2
  todo,        \* dead gates whose keys are still to be swept in the round
  gate,        \* the key being swept
  members,     \* the page being swept
  raws,        \* the sessions of the page as MGET returned them
  cursors,     \* per gate: SSCAN cursor, the members returned so far
  next,        \* the cursor after the page; {} is cursor 0
  faults,
  left         \* history: gates that have been missing from etcd since they started

sweepVars == <<owned, eligible, failures, pc, pairs, live, suspects, todo, gate,
               members, raws, cursors, next, faults, left>>
vars == <<session, writes, index, registry, started, dead, etcd,
          owned, eligible, failures, pc, pairs, live, suspects, todo, gate,
          members, raws, cursors, next, faults, left>>

NoCursors == [g \in Gates |-> {}]
NoRaws == [p \in Players |-> NoSession]
NoCounts == [g \in Gates |-> 0]

TypeOK ==
  /\ IndexTypeOK
  /\ owned \in [Replicas -> BOOLEAN]
  /\ eligible \in [Replicas -> BOOLEAN]
  /\ failures \in [Replicas -> Nat]
  /\ pc \in [Replicas -> {"wait", "view", "judge", "sweep", "mget", "act", "release"}]
  /\ pairs \in [Replicas -> SUBSET Gates]
  /\ live \in [Replicas -> SUBSET Gates]
  /\ suspects \in [Replicas -> [Gates -> 0..2]]
  /\ todo \in [Replicas -> SUBSET Gates]
  /\ gate \in [Replicas -> Gates \cup {NoGate}]
  /\ members \in [Replicas -> SUBSET Players]
  /\ raws \in [Replicas -> [Players -> Session \cup {NoSession}]]
  /\ cursors \in [Replicas -> [Gates -> SUBSET Players]]
  /\ next \in [Replicas -> SUBSET Players]
  /\ faults \in 0..MaxFaults
  /\ left \in SUBSET started

Init ==
  /\ IndexInit
  /\ owned = [r \in Replicas |-> FALSE]
  /\ eligible = [r \in Replicas |-> TRUE]
  /\ failures = [r \in Replicas |-> 0]
  /\ pc = [r \in Replicas |-> "wait"]
  /\ pairs = [r \in Replicas |-> {}]
  /\ live = [r \in Replicas |-> {}]
  /\ suspects = [r \in Replicas |-> NoCounts]
  /\ todo = [r \in Replicas |-> {}]
  /\ gate = [r \in Replicas |-> NoGate]
  /\ members = [r \in Replicas |-> {}]
  /\ raws = [r \in Replicas |-> NoRaws]
  /\ cursors = [r \in Replicas |-> NoCursors]
  /\ next = [r \in Replicas |-> {}]
  /\ faults = 0
  /\ left = {}

-----------------------------------------------------------------------------
(* The end of a round.                                                     *)

\* What the round held is dropped; suspects and cursors outlive it.
Forget(r) ==
  /\ pc' = [pc EXCEPT ![r] = "wait"]
  /\ pairs' = [pairs EXCEPT ![r] = {}]
  /\ live' = [live EXCEPT ![r] = {}]
  /\ todo' = [todo EXCEPT ![r] = {}]
  /\ gate' = [gate EXCEPT ![r] = NoGate]
  /\ members' = [members EXCEPT ![r] = {}]
  /\ raws' = [raws EXCEPT ![r] = NoRaws]
  /\ next' = [next EXCEPT ![r] = {}]

RoundSucceeds(r) ==
  /\ failures' = [failures EXCEPT ![r] = 0]
  /\ eligible' = [eligible EXCEPT ![r] = TRUE]
  /\ Forget(r)

\* Mutant: a replica whose rounds fail keeps its slots.
FailureCountedOnly(r) ==
  /\ failures' = [failures EXCEPT ![r] = IF @ < MaxFailures THEN @ + 1 ELSE @]
  /\ UNCHANGED eligible

\* The third failure in a row takes the replica out of the shard.
CountFailure(r) ==
  /\ failures' = [failures EXCEPT ![r] = IF @ < MaxFailures THEN @ + 1 ELSE @]
  /\ eligible' = [eligible EXCEPT ![r] = @ /\ failures[r] + 1 < MaxFailures]

Fault == faults < MaxFaults /\ faults' = faults + 1

RoundFails(r) ==
  /\ \/ r \in Broken /\ pc[r] = "view" /\ UNCHANGED faults
     \/ pc[r] # "wait" /\ Fault
  /\ CountFailure(r)
  /\ Forget(r)
  /\ UNCHANGED <<indexVars, owned, suspects, cursors, left>>

\* Without slots a replica that is in the shard reads nothing.
RoundSkipped(r) ==
  /\ pc[r] = "wait" /\ ~owned[r] /\ eligible[r]
  /\ RoundSucceeds(r)
  /\ UNCHANGED <<indexVars, owned, suspects, cursors, faults, left>>

-----------------------------------------------------------------------------
(* The round.                                                              *)

\* a) The registry snapshot.
ReadRegistries(r) ==
  /\ pc[r] = "wait" /\ (owned[r] \/ ~eligible[r])
  /\ pairs' = [pairs EXCEPT ![r] = IF owned[r] THEN registry ELSE {}]
  /\ pc' = [pc EXCEPT ![r] = "view"]
  /\ UNCHANGED <<indexVars, owned, eligible, failures, live, suspects, todo, gate,
                 members, raws, cursors, next, faults, left>>

\* b) The live gates of etcd.
LiveGateInstances(r) ==
  /\ pc[r] = "view" /\ r \notin Broken
  /\ live' = [live EXCEPT ![r] = etcd]
  /\ pc' = [pc EXCEPT ![r] = "judge"]
  /\ UNCHANGED <<indexVars, owned, eligible, failures, pairs, suspects, todo, gate,
                 members, raws, cursors, next, faults, left>>

HeldEmpty(r) == pairs[r] # {} /\ live[r] = {}

Dropped(r) ==
  /\ Cardinality(pairs[r]) >= MinKnown
  /\ 2 * Cardinality(pairs[r] \ live[r]) > Cardinality(pairs[r])

\* checkLiveView holds the view.  A drop is held for a time that LiveView
\* models; here it may be held or released.
ViewHeld(r) ==
  /\ pc[r] = "judge" /\ (HeldEmpty(r) \/ Dropped(r))
  /\ RoundSucceeds(r)
  /\ UNCHANGED <<indexVars, owned, suspects, cursors, faults, left>>

\* Mutant: the registry is read after etcd.
KnownLate(r) == registry

Known(r) == pairs[r]

\* One more missing round; a live gate and one that left the registries are
\* forgotten.
advance(r) ==
  [g \in Gates |->
     IF g \in Known(r) \ live[r]
     THEN IF suspects[r][g] < 2 THEN suspects[r][g] + 1 ELSE 2
     ELSE 0]

\* c) advanceSuspects.
AdvanceSuspects(r) ==
  LET new == advance(r)
      deadGates == {g \in Known(r) : new[g] = 2}
  IN
  /\ pc[r] = "judge" /\ ~HeldEmpty(r)
  /\ suspects' = [suspects EXCEPT ![r] = new]
  /\ cursors' = [cursors EXCEPT ![r] =
                   [g \in Gates |-> IF g \in deadGates THEN cursors[r][g] ELSE {}]]
  /\ todo' = [todo EXCEPT ![r] = deadGates]
  /\ pc' = [pc EXCEPT ![r] = "sweep"]
  /\ UNCHANGED <<indexVars, owned, eligible, failures, pairs, live, gate, members,
                 raws, next, faults, left>>

\* d) processDeadGates: SSCAN of one page.  It returns some of the members
\* that the cursor has not passed, at least one if there is any.
SScan(r, g) ==
  LET rest == index[g] \ cursors[r][g] IN
  /\ pc[r] = "sweep" /\ g \in todo[r] /\ gate[r] \in {g, NoGate}
  /\ \E page \in SUBSET rest :
       /\ rest # {} => page # {}
       /\ members' = [members EXCEPT ![r] = page]
       /\ next' = [next EXCEPT ![r] =
                     IF page = rest THEN {} ELSE cursors[r][g] \cup page]
  /\ gate' = [gate EXCEPT ![r] = g]
  /\ pc' = [pc EXCEPT ![r] = "mget"]
  /\ UNCHANGED <<indexVars, owned, eligible, failures, pairs, live, suspects, todo,
                 raws, cursors, faults, left>>

\* sweepIndexPage reads the sessions of the page at once.
MGet(r) ==
  /\ pc[r] = "mget"
  /\ raws' = [raws EXCEPT ![r] =
                [p \in Players |-> IF p \in members[r] THEN session[p] ELSE NoSession]]
  /\ pc' = [pc EXCEPT ![r] = "act"]
  /\ UNCHANGED <<indexVars, owned, eligible, failures, pairs, live, suspects, todo,
                 gate, members, cursors, next, faults, left>>

\* Mutant: the transition is decided on the session as it is now.
SweepMemberUnchecked(r, p) ==
  IF indexedGate(raws[r][p]) = {gate[r]} /\ session[p] # NoSession
  THEN transitionToDisconnecting(p, session[p])
  ELSE pruneGateIndexMember(gate[r], p, raws[r][p])

\* A member ONLINE on the dead gate is turned DISCONNECTING, any other is
\* pruned; both only if the session has not changed since MGET.
SweepMember(r, p) ==
  IF indexedGate(raws[r][p]) = {gate[r]}
  THEN transitionToDisconnecting(p, raws[r][p])
  ELSE pruneGateIndexMember(gate[r], p, raws[r][p])

SweepIndexPage(r, p) ==
  /\ pc[r] = "act" /\ p \in members[r]
  /\ SweepMember(r, p)
  /\ members' = [members EXCEPT ![r] = @ \ {p}]
  /\ UNCHANGED <<clusterVars, owned, eligible, failures, pc, pairs, live, suspects,
                 todo, gate, raws, cursors, next, faults, left>>

\* A member whose keys have the wrong type is skipped and stays.
MemberSkipped(r, p) ==
  /\ pc[r] = "act" /\ p \in members[r] /\ Fault
  /\ members' = [members EXCEPT ![r] = @ \ {p}]
  /\ UNCHANGED <<indexVars, owned, eligible, failures, pc, pairs, live, suspects,
                 todo, gate, raws, cursors, next, left>>

\* The page is done: the cursor moves on.  After the last page the key is
\* released if it is empty.
PageDone(r) ==
  /\ pc[r] = "act" /\ members[r] = {}
  /\ cursors' = [cursors EXCEPT ![r][gate[r]] = next[r]]
  /\ pc' = [pc EXCEPT ![r] = IF next[r] = {} THEN "release" ELSE "sweep"]
  /\ raws' = [raws EXCEPT ![r] = NoRaws]
  /\ next' = [next EXCEPT ![r] = {}]
  /\ UNCHANGED <<indexVars, owned, eligible, failures, pairs, live, suspects, todo,
                 gate, members, faults, left>>

ReleaseIndex(r) ==
  /\ pc[r] = "release"
  /\ releaseGateIndexIfEmpty(gate[r])
  /\ todo' = [todo EXCEPT ![r] = @ \ {gate[r]}]
  /\ gate' = [gate EXCEPT ![r] = NoGate]
  /\ pc' = [pc EXCEPT ![r] = "sweep"]
  /\ UNCHANGED <<clusterVars, owned, eligible, failures, pairs, live, suspects,
                 members, raws, cursors, next, faults, left>>

\* SSCAN or the release of a key of the wrong type fails: the key is skipped
\* until the next round, its scan starts again.
KeySkipped(r, g) ==
  /\ g \in todo[r] /\ Fault
  /\ \/ pc[r] = "sweep" /\ gate[r] \in {g, NoGate}
     \/ pc[r] = "release" /\ gate[r] = g
  /\ cursors' = [cursors EXCEPT ![r][g] = {}]
  /\ todo' = [todo EXCEPT ![r] = @ \ {g}]
  /\ gate' = [gate EXCEPT ![r] = NoGate]
  /\ pc' = [pc EXCEPT ![r] = "sweep"]
  /\ UNCHANGED <<indexVars, owned, eligible, failures, pairs, live, suspects, members,
                 raws, next, left>>

\* Everything is swept, or the budget of the round is used up: at least one
\* page of it (the rest follows in the next round, from the cursor).
RoundEnds(r) ==
  /\ pc[r] = "sweep"
  /\ \/ todo[r] = {}
     \/ gate[r] # NoGate
     \/ \E g \in pairs[r] : suspects[r][g] = 2 /\ g \notin todo[r]
  /\ RoundSucceeds(r)
  /\ UNCHANGED <<indexVars, owned, suspects, cursors, faults, left>>

-----------------------------------------------------------------------------
(* The slot shard, restarts, and the rest of the system.                   *)

AcquireSlot(r) ==
  /\ eligible[r] /\ ~owned[r]
  /\ Overlap \/ \A q \in Replicas : ~owned[q]
  /\ owned' = [owned EXCEPT ![r] = TRUE]
  /\ UNCHANGED <<indexVars, eligible, failures, pc, pairs, live, suspects, todo, gate,
                 members, raws, cursors, next, faults, left>>

\* An ineligible replica leaves the shard; a healthy one gives up what is
\* more than its share.  A round under way goes on.
LeaveSlot(r) ==
  /\ owned[r]
  /\ \/ ~eligible[r] /\ UNCHANGED faults
     \/ eligible[r] /\ Fault
  /\ owned' = [owned EXCEPT ![r] = FALSE]
  /\ UNCHANGED <<indexVars, eligible, failures, pc, pairs, live, suspects, todo, gate,
                 members, raws, cursors, next, left>>

\* A new process starts without suspects and cursors.
Restart(r) ==
  /\ Fault
  /\ owned' = [owned EXCEPT ![r] = FALSE]
  /\ eligible' = [eligible EXCEPT ![r] = TRUE]
  /\ failures' = [failures EXCEPT ![r] = 0]
  /\ suspects' = [suspects EXCEPT ![r] = NoCounts]
  /\ cursors' = [cursors EXCEPT ![r] = NoCursors]
  /\ Forget(r)
  /\ UNCHANGED <<indexVars, left>>

Writer ==
  /\ \E p \in Players :
       \/ \E g \in Gates : SetSession(p, g)
       \/ SetDisconnecting(p)
       \/ DeleteSession(p)
       \/ Legacy /\ LegacyWrite(p)
  /\ UNCHANGED <<clusterVars, sweepVars>>

Cluster ==
  /\ \E g \in Gates :
       \/ (GateStarts(g) \/ GateDies(g) \/ Reregisters(g)) /\ UNCHANGED <<left, faults>>
       \/ /\ RegistrationEnds(g) /\ left' = left \cup {g}
          /\ IF g \in dead THEN UNCHANGED faults ELSE Fault
  /\ UNCHANGED <<storeVars, owned, eligible, failures, pc, pairs, live, suspects, todo,
                 gate, members, raws, cursors, next>>

\* What the goroutine of a replica does.
Round(r) ==
  \/ RoundSkipped(r) \/ ReadRegistries(r) \/ LiveGateInstances(r) \/ ViewHeld(r)
  \/ AdvanceSuspects(r) \/ MGet(r) \/ PageDone(r) \/ ReleaseIndex(r) \/ RoundEnds(r)
  \/ \E g \in Gates : SScan(r, g)
  \/ \E p \in Players : SweepIndexPage(r, p)

Next ==
  \/ Writer
  \/ Cluster
  \/ \E r \in Replicas :
       \/ Round(r)
       \/ RoundFails(r)
       \/ AcquireSlot(r)
       \/ LeaveSlot(r)
       \/ Restart(r)
       \/ \E p \in Players : MemberSkipped(r, p)
       \/ \E g \in Gates : KeySkipped(r, g)

Spec == Init /\ [][Next]_vars

\* The ticker of every replica runs and its shard cycles.
RoundRuns(r) == Round(r) \/ (r \in Broken /\ RoundFails(r))
ShardCycles(r) == AcquireSlot(r) \/ (~eligible[r] /\ LeaveSlot(r))

\* The registration of a dead gate ends with its lease.
DeadGateExpires ==
  /\ \E g \in dead : RegistrationEnds(g) /\ left' = left \cup {g}
  /\ UNCHANGED <<storeVars, owned, eligible, failures, pc, pairs, live, suspects, todo,
                 gate, members, raws, cursors, next, faults>>

Fairness ==
  /\ \A r \in Replicas : WF_vars(RoundRuns(r)) /\ WF_vars(ShardCycles(r))
  /\ WF_vars(DeadGateExpires)

LiveSpec == Spec /\ Fairness

-----------------------------------------------------------------------------
(* Properties.                                                             *)

\* A gate that has been registered without interruption is never suspected:
\* the registry is read before etcd, and login hands out a gate only after it
\* registered, so every gate of the snapshot is older than the view.
SteadyGateNotSuspected ==
  \A r \in Replicas, g \in Gates : suspects[r][g] > 0 => g \in left

\* The sweep only disconnects a player who is ONLINE on a gate that it found
\* dead, even if the player moves while the round runs.
SweepOnlyDead ==
  [][\A r \in Replicas : \A p \in members[r] \ members'[r] :
       session'[p] # session[p] =>
         indexedGate(session[p]) = {gate[r]} /\ suspects[r][gate[r]] = 2]_vars

\* An indexed session on a gate that died does not stay ONLINE: some replica
\* sweeps it, also when one that cannot read etcd held the slot.  (With no gate
\* at all in etcd the view is held, so some gate must be registered.)
DeadGateSwept ==
  <>[](etcd # {}) =>
    \A p \in Players, g \in Gates :
      (indexedGate(session[p]) = {g} /\ p \in index[g] /\ g \in dead)
        ~> (indexedGate(session[p]) # {g})
=============================================================================
