----------------------------- MODULE IndexReady -----------------------------
(***************************************************************************)
(* The control plane of the gate index: the session reconciler's leader    *)
(* compares the registered locators with the capable ones, keeps the ready *)
(* marker, and rebuilds the index with passes over all sessions (backfill  *)
(* while the marker is missing, audit while it is there).  Leadership only *)
(* saves load: two leaders may overlap.                                    *)
(*                                                                         *)
(* The generation counter is only ever compared with the value a pass has  *)
(* read: outdated is the set of leaders whose value has changed since.  A  *)
(* page is one key: what a larger page does is done key by key, with any   *)
(* delay between reading a session and acting on it.                       *)
(***************************************************************************)
EXTENDS GateIndex

CONSTANTS
  Leaders,     \* locator replicas that act as leader
  Audits,      \* TRUE: AuditIntervalSeconds is not negative
  ShortLived,  \* TRUE: a legacy locator may come and go unobserved
  MaxLegacy,   \* bound: times a legacy locator appears
  MaxFaults,   \* bound: failed passes and skipped candidates
  NoPlayer, NoGate

ASSUME ReadyAssumption ==
  /\ Audits \in BOOLEAN /\ ShortLived \in BOOLEAN
  /\ MaxLegacy \in Nat /\ MaxFaults \in Nat
  /\ NoPlayer \notin Players /\ NoGate \notin Gates

VARIABLES
  ready,       \* the ready marker exists
  outdated,    \* leaders for whose pass the generation has changed
  legacy,      \* a legacy locator is registered
  arrivals,    \* how often one has appeared
  observed,    \* history: the generation was bumped since it appeared
  writers,     \* per leader: what the writer round has read from etcd
  pc,          \* per leader: where the repair loop is
  audit,       \* the pass is an audit
  saw,         \* the writer check of the pass saw a legacy locator
  scan,        \* sessions still to visit
  keys,        \* index keys still to prune
  key,         \* the index key in hand
  page,        \* its members still to judge
  player,      \* the player in hand
  raw,         \* the player's session as read
  indexed,     \* the player was a member of the index key
  skipped,     \* a candidate could not be indexed
  faults

passVars == <<audit, saw, scan, keys, key, page, player, raw, indexed, skipped>>
markVars == <<ready, outdated, observed>>
legacyVars == <<legacy, arrivals>>
vars == <<session, writes, index, registry, started, dead, etcd,
          ready, outdated, legacy, arrivals, observed, writers, pc, audit, saw,
          scan, keys, key, page, player, raw, indexed, skipped, faults>>

TypeOK ==
  /\ IndexTypeOK
  /\ ready \in BOOLEAN
  /\ outdated \in SUBSET Leaders
  /\ legacy \in BOOLEAN
  /\ arrivals \in 0..MaxLegacy
  /\ observed \in BOOLEAN
  /\ writers \in [Leaders -> {"unread", "legacy", "clear"}]
  /\ pc \in [Leaders -> {"wait", "gen", "writers", "apply", "scan", "check", "write",
                         "keys", "page", "guard", "release", "mark"}]
  /\ audit \in [Leaders -> BOOLEAN]
  /\ saw \in [Leaders -> BOOLEAN]
  /\ scan \in [Leaders -> SUBSET Players]
  /\ keys \in [Leaders -> SUBSET Gates]
  /\ key \in [Leaders -> Gates \cup {NoGate}]
  /\ page \in [Leaders -> SUBSET Players]
  /\ player \in [Leaders -> Players \cup {NoPlayer}]
  /\ raw \in [Leaders -> Session \cup {NoSession}]
  /\ indexed \in [Leaders -> BOOLEAN]
  /\ skipped \in [Leaders -> BOOLEAN]
  /\ faults \in 0..MaxFaults
  /\ \A l \in Leaders : pc[l] \in {"check", "write"} => indexedGate(raw[l]) # {}

Init ==
  /\ IndexInit
  /\ ready = FALSE
  /\ outdated = {}
  /\ legacy = FALSE
  /\ arrivals = 0
  /\ observed = FALSE
  /\ writers = [l \in Leaders |-> "unread"]
  /\ pc = [l \in Leaders |-> "wait"]
  /\ audit = [l \in Leaders |-> FALSE]
  /\ saw = [l \in Leaders |-> FALSE]
  /\ scan = [l \in Leaders |-> {}]
  /\ keys = [l \in Leaders |-> {}]
  /\ key = [l \in Leaders |-> NoGate]
  /\ page = [l \in Leaders |-> {}]
  /\ player = [l \in Leaders |-> NoPlayer]
  /\ raw = [l \in Leaders |-> NoSession]
  /\ indexed = [l \in Leaders |-> FALSE]
  /\ skipped = [l \in Leaders |-> FALSE]
  /\ faults = 0

Fault == faults < MaxFaults /\ faults' = faults + 1

Goto(l, there) == pc' = [pc EXCEPT ![l] = there]

-----------------------------------------------------------------------------
(* The writer check.                                                       *)

\* checkSessionWriters after the read: a legacy locator bumps the generation
\* and deletes the marker; otherwise an existing marker is renewed.
ApplyWriters(seen) ==
  IF seen
  THEN ready' = FALSE /\ outdated' = Leaders /\ observed' = TRUE
  ELSE UNCHANGED markVars

\* The writer round of the leader: read etcd, then apply.
WriterRoundReads(l) ==
  /\ writers[l] = "unread"
  /\ writers' = [writers EXCEPT ![l] = IF legacy THEN "legacy" ELSE "clear"]
  /\ UNCHANGED <<indexVars, markVars, legacyVars, pc, passVars, faults>>

WriterRoundApplies(l) ==
  /\ writers[l] # "unread"
  /\ ApplyWriters(writers[l] = "legacy")
  /\ writers' = [writers EXCEPT ![l] = "unread"]
  /\ UNCHANGED <<indexVars, legacyVars, pc, passVars, faults>>

\* The round fails after the read, or the term ends.
WriterRoundFails(l) ==
  /\ writers[l] # "unread" /\ Fault
  /\ writers' = [writers EXCEPT ![l] = "unread"]
  /\ UNCHANGED <<indexVars, markVars, legacyVars, pc, passVars>>

\* Its lease runs out when no leader renews the marker.
ReadyExpires ==
  /\ ready /\ ready' = FALSE
  /\ UNCHANGED <<indexVars, outdated, observed, legacyVars, writers, pc, passVars, faults>>

-----------------------------------------------------------------------------
(* A pass.                                                                 *)

\* What a pass holds is dropped when it ends.
EndPass(l) ==
  /\ Goto(l, "wait")
  /\ audit' = [audit EXCEPT ![l] = FALSE]
  /\ saw' = [saw EXCEPT ![l] = FALSE]
  /\ scan' = [scan EXCEPT ![l] = {}]
  /\ keys' = [keys EXCEPT ![l] = {}]
  /\ key' = [key EXCEPT ![l] = NoGate]
  /\ page' = [page EXCEPT ![l] = {}]
  /\ player' = [player EXCEPT ![l] = NoPlayer]
  /\ raw' = [raw EXCEPT ![l] = NoSession]
  /\ indexed' = [indexed EXCEPT ![l] = FALSE]
  /\ skipped' = [skipped EXCEPT ![l] = FALSE]

PassAborts(l) ==
  /\ pc[l] # "wait" /\ Fault
  /\ EndPass(l)
  /\ UNCHANGED <<indexVars, markVars, legacyVars, writers>>

\* SCAN visits at least the keys that are there when it starts.
StartScan(l) ==
  /\ scan' = [scan EXCEPT ![l] = {p \in Players : session[p] # NoSession}]
  /\ Goto(l, "scan")

\* Backfill while the marker is missing, else the audit when it is due.
RepairStep(l) ==
  /\ pc[l] = "wait"
  /\ \/ /\ ~ready /\ Goto(l, "gen") /\ UNCHANGED <<audit, scan>>
     \/ /\ ready /\ Audits
        /\ audit' = [audit EXCEPT ![l] = TRUE]
        /\ StartScan(l)
  /\ UNCHANGED <<indexVars, markVars, legacyVars, writers, saw, keys, key, page, player,
                 raw, indexed, skipped, faults>>

\* Mutant: the generation read by the last pass is used again.
ReadGenCached(l) ==
  /\ pc[l] = "gen"
  /\ Goto(l, "writers")
  /\ UNCHANGED <<indexVars, markVars, legacyVars, writers, passVars, faults>>

ReadGen(l) ==
  /\ pc[l] = "gen"
  /\ outdated' = outdated \ {l}
  /\ Goto(l, "writers")
  /\ UNCHANGED <<indexVars, ready, observed, legacyVars, writers, passVars, faults>>

\* The pass checks the writers itself, after it has read the generation.
PassReadsWriters(l) ==
  /\ pc[l] = "writers"
  /\ saw' = [saw EXCEPT ![l] = legacy]
  /\ Goto(l, "apply")
  /\ UNCHANGED <<indexVars, markVars, legacyVars, writers, audit, scan, keys, key, page,
                 player, raw, indexed, skipped, faults>>

\* Mutant: the generation is read after the writers were checked.
PassAppliesThenGen(l) ==
  /\ pc[l] = "apply"
  /\ IF saw[l] THEN ready' = FALSE /\ outdated' = Leaders \ {l} /\ observed' = TRUE
               ELSE outdated' = outdated \ {l} /\ UNCHANGED <<ready, observed>>
  /\ StartScan(l)
  /\ UNCHANGED <<indexVars, legacyVars, writers, audit, saw, keys, key, page, player, raw,
                 indexed, skipped, faults>>

PassAppliesWriters(l) ==
  /\ pc[l] = "apply"
  /\ ApplyWriters(saw[l])
  /\ StartScan(l)
  /\ UNCHANGED <<indexVars, legacyVars, writers, audit, saw, keys, key, page, player, raw,
                 indexed, skipped, faults>>

\* Mutant: only sessions on gates of the registry are candidates.
CandidateRegistered(s) == indexedGate(s) \cap registry # {}

Candidate(s) == indexedGate(s) # {}

\* backfillPage: MGET of a session; only ONLINE ones are candidates.
ReadSession(l, p) ==
  /\ pc[l] = "scan" /\ p \in scan[l]
  /\ IF Candidate(session[p])
     THEN /\ player' = [player EXCEPT ![l] = p]
          /\ raw' = [raw EXCEPT ![l] = session[p]]
          /\ Goto(l, "check") /\ UNCHANGED scan
     ELSE /\ scan' = [scan EXCEPT ![l] = @ \ {p}]
          /\ UNCHANGED <<pc, player, raw>>
  /\ UNCHANGED <<indexVars, markVars, legacyVars, writers, audit, saw, keys, key, page,
                 indexed, skipped, faults>>

\* SISMEMBER.
CheckIndex(l) ==
  /\ pc[l] = "check"
  /\ indexed' = [indexed EXCEPT ![l] = player[l] \in index[raw[l].gate]]
  /\ Goto(l, "write")
  /\ UNCHANGED <<indexVars, markVars, legacyVars, writers, audit, saw, scan, keys, key,
                 page, player, raw, skipped, faults>>

VisitDone(l) ==
  /\ scan' = [scan EXCEPT ![l] = @ \ {player[l]}]
  /\ player' = [player EXCEPT ![l] = NoPlayer]
  /\ raw' = [raw EXCEPT ![l] = NoSession]
  /\ indexed' = [indexed EXCEPT ![l] = FALSE]
  /\ Goto(l, "scan")

\* A member: its gate must be in the registry (ensureRegistered).  Not a
\* member: the guarded repair.
BackfillPlayer(l) ==
  /\ pc[l] = "write"
  /\ IF indexed[l]
     THEN registry' = registry \cup {raw[l].gate} /\ UNCHANGED <<session, writes, index>>
     ELSE repairGateIndexMember(player[l], raw[l])
  /\ VisitDone(l)
  /\ UNCHANGED <<clusterVars, markVars, legacyVars, writers, audit, saw, keys, key, page,
                 skipped, faults>>

\* A key of the candidate has the wrong type.
CandidateSkipped(l) ==
  /\ pc[l] \in {"check", "write"} /\ Fault
  /\ skipped' = [skipped EXCEPT ![l] = TRUE]
  /\ VisitDone(l)
  /\ UNCHANGED <<indexVars, markVars, legacyVars, writers, audit, saw, keys, key, page>>

\* pruneAllGateIndexes.
ReadKeys(l) ==
  /\ pc[l] = "scan" /\ scan[l] = {}
  /\ keys' = [keys EXCEPT ![l] = registry]
  /\ Goto(l, "keys")
  /\ UNCHANGED <<indexVars, markVars, legacyVars, writers, audit, saw, scan, key, page,
                 player, raw, indexed, skipped, faults>>

ScanKey(l, g) ==
  /\ pc[l] = "keys" /\ g \in keys[l]
  /\ key' = [key EXCEPT ![l] = g]
  /\ page' = [page EXCEPT ![l] = index[g]]
  /\ Goto(l, IF index[g] = {} THEN "release" ELSE "page")
  /\ UNCHANGED <<indexVars, markVars, legacyVars, writers, audit, saw, scan, keys, player,
                 raw, indexed, skipped, faults>>

ReadMember(l, p) ==
  /\ pc[l] = "page" /\ p \in page[l]
  /\ player' = [player EXCEPT ![l] = p]
  /\ raw' = [raw EXCEPT ![l] = session[p]]
  /\ Goto(l, "guard")
  /\ UNCHANGED <<indexVars, markVars, legacyVars, writers, audit, saw, scan, keys, key,
                 page, indexed, skipped, faults>>

\* A member ONLINE on this gate stays, any other is pruned.
PruneMember(l) ==
  /\ pc[l] = "guard"
  /\ IF indexedGate(raw[l]) = {key[l]}
     THEN UNCHANGED storeVars
     ELSE pruneGateIndexMember(key[l], player[l], raw[l])
  /\ page' = [page EXCEPT ![l] = @ \ {player[l]}]
  /\ player' = [player EXCEPT ![l] = NoPlayer]
  /\ raw' = [raw EXCEPT ![l] = NoSession]
  /\ Goto(l, "page")
  /\ UNCHANGED <<clusterVars, markVars, legacyVars, writers, audit, saw, scan, keys, key,
                 indexed, skipped, faults>>

\* The key is done; one that was empty when it was scanned is released.
KeyDone(l) ==
  /\ \/ pc[l] = "page" /\ page[l] = {} /\ UNCHANGED storeVars
     \/ pc[l] = "release" /\ releaseGateIndexIfEmpty(key[l])
  /\ keys' = [keys EXCEPT ![l] = @ \ {key[l]}]
  /\ key' = [key EXCEPT ![l] = NoGate]
  /\ Goto(l, "keys")
  /\ UNCHANGED <<clusterVars, markVars, legacyVars, writers, audit, saw, scan, page, player,
                 raw, indexed, skipped, faults>>

\* An audit, and a backfill that skipped a candidate, end here.
PassDone(l) ==
  /\ pc[l] = "keys" /\ keys[l] = {}
  /\ IF audit[l] \/ skipped[l]
     THEN EndPass(l)
     ELSE Goto(l, "mark") /\ UNCHANGED passVars
  /\ UNCHANGED <<indexVars, markVars, legacyVars, writers, faults>>

\* setGateIndexReadyIfGenScript.
SetReady(l) ==
  /\ pc[l] = "mark"
  /\ ready' = (ready \/ l \notin outdated)
  /\ EndPass(l)
  /\ UNCHANGED <<indexVars, outdated, observed, legacyVars, writers, faults>>

-----------------------------------------------------------------------------
(* The locators.                                                           *)

LegacyArrives ==
  /\ ~legacy /\ arrivals < MaxLegacy
  /\ legacy' = TRUE /\ arrivals' = arrivals + 1 /\ observed' = FALSE
  /\ UNCHANGED <<indexVars, ready, outdated, writers, pc, passVars, faults>>

\* The premise of the marker: a legacy locator lives until a leader has seen
\* it, longer than a round.
LegacyLeaves ==
  /\ legacy /\ (observed \/ ShortLived)
  /\ legacy' = FALSE
  /\ UNCHANGED <<indexVars, markVars, arrivals, writers, pc, passVars, faults>>

Locator ==
  /\ \E p \in Players :
       \/ \E g \in Gates : SetSession(p, g)
       \/ SetDisconnecting(p)
       \/ DeleteSession(p)
       \/ legacy /\ LegacyWrite(p)
  /\ UNCHANGED <<clusterVars, markVars, legacyVars, writers, pc, passVars, faults>>

GateRegisters ==
  /\ \E g \in Gates : GateStarts(g)
  /\ UNCHANGED <<storeVars, markVars, legacyVars, writers, pc, passVars, faults>>

\* The repair loop of a leader.
Repair(l) ==
  \/ RepairStep(l) \/ ReadGen(l) \/ PassReadsWriters(l) \/ PassAppliesWriters(l)
  \/ CheckIndex(l) \/ BackfillPlayer(l) \/ ReadKeys(l) \/ PruneMember(l) \/ KeyDone(l)
  \/ PassDone(l) \/ SetReady(l)
  \/ \E p \in Players : ReadSession(l, p) \/ ReadMember(l, p)
  \/ \E g \in Gates : ScanKey(l, g)

Next ==
  \/ Locator \/ LegacyArrives \/ LegacyLeaves \/ GateRegisters \/ ReadyExpires
  \/ \E l \in Leaders :
       \/ Repair(l)
       \/ WriterRoundReads(l) \/ WriterRoundApplies(l) \/ WriterRoundFails(l)
       \/ PassAborts(l) \/ CandidateSkipped(l)

Spec == Init /\ [][Next]_vars

\* The repair loop and the writer rounds of a leader keep running.
Fairness ==
  \A l \in Leaders :
    WF_vars(Repair(l)) /\ WF_vars(WriterRoundReads(l) \/ WriterRoundApplies(l))

LiveSpec == Spec /\ Fairness

-----------------------------------------------------------------------------
(* Properties.                                                             *)

\* While the marker is set and no legacy locator is registered, every session
\* ONLINE on a gate is in the index: no pass declares the index complete that
\* a legacy locator has written past, whichever leader saw that locator.
ReadyMeansIndexed ==
  ready /\ ~legacy =>
    \A p \in Players : \A g \in indexedGate(session[p]) :
      p \in index[g] /\ g \in registry

\* A session that a legacy locator wrote, and that no leader noticed, is still
\* brought into the index by a backfill or an audit.
MissingIndexed ==
  \A p \in Players, g \in Gates :
    (indexedGate(session[p]) = {g} /\ p \notin index[g])
      ~> (indexedGate(session[p]) # {g} \/ p \in index[g])

\* When the legacy locators are gone the marker comes back.
ReadyReturns == <>[](~legacy) => []<>ready
=============================================================================
