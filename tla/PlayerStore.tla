--------------------------- MODULE PlayerStore ---------------------------
(***************************************************************************)
(* How the character of one player is stored.  A scene node claims the     *)
(* player's owner row together with the data rows (go/db LoadAndClaim),    *)
(* plays in memory, and commits the dirty rows together with the owner row *)
(* (go/db Save).  The client of the scene (player_store_client.cpp) keeps  *)
(* one request in flight and one queued, retries a request whose answer is *)
(* lost, and remembers which rows it cannot be sure of.  scene_manager     *)
(* moves players between nodes by raising the owner epoch, and takes the   *)
(* row from a holder that is gone (dead_holder_release.go).                *)
(*                                                                         *)
(* Memory is a version number: version v has the row payloads Payload(v),  *)
(* where the bag row goes back to an earlier value with every second step  *)
(* and the log row never does.  A row set is one that some memory had iff  *)
(* it is Payload(v) for some v.                                            *)
(***************************************************************************)
EXTENDS Integers, FiniteSetsExt

CONSTANTS
  Nodes,       \* scene processes (an instance id is never used again)
  NoNode,
  FirstSeq,    \* number of the player's last save before (0: a new character)
  TooLarge,    \* versions whose rows exceed the size limits of go/db
  ClocksAhead, \* TRUE: the clock of a process may be more than the bound ahead
  MaxResave,   \* kMaxExitResaveRounds
  MaxEpoch,    \* bound: owner epochs minted
  MaxVersion,  \* bound: changes of the character
  MaxOps,      \* bound: routes, changes, saves and exits in a behaviour
  MaxFaults    \* bound: lost answers, crashes, lapsed registrations, refusals, revocations

ASSUME PlayerStoreAssumption ==
  /\ NoNode \notin Nodes /\ FirstSeq \in Nat
  /\ TooLarge \subseteq 1..MaxVersion /\ ClocksAhead \in BOOLEAN
  /\ MaxResave \in Nat /\ MaxEpoch \in Nat /\ MaxVersion \in Nat
  /\ MaxOps \in Nat /\ MaxFaults \in Nat

VARIABLES
  owner,    \* the owner row (kind 0) of the player
  rows,     \* the data rows
  node,     \* per node: entity, client, claim and allocator
  up,       \* nodes whose process runs
  etcd,     \* nodes registered in etcd
  gone,     \* nodes whose registration has ended at some time
  lapsed,   \* history: nodes that were not registered at some time since their last claim
  loc,      \* the location record of scene_manager and its epoch
  route,    \* per node: epoch of the newest undelivered enter route, or 0
  late,     \* saves given up by their sender that may still be executed
  round,    \* the dead-holder release in progress
  ops,      \* operations so far
  faults    \* disturbances so far

storeVars == <<owner, rows, late>>
placeVars == <<up, etcd, gone, lapsed, loc, route, round>>
vars == <<storeVars, node, placeVars, ops, faults>>

-----------------------------------------------------------------------------
(* Records.                                                                *)

Kinds == {"bag", "log"}
Payload(v) == [k \in Kinds |-> IF k = "log" THEN v ELSE v % 2]

NoRequest == [node |-> NoNode, epoch |-> 0, seq |-> 0, ver |-> 0, kinds |-> {},
              release |-> FALSE]
NoPending == [queued |-> FALSE, ver |-> 0, force |-> FALSE, release |-> FALSE]
NoClient  == [epoch |-> 0, confirmed |-> Payload(0), uncertain |-> {},
              releaseCommitted |-> FALSE, committedEpoch |-> 0,
              inflight |-> NoRequest, phase |-> "idle",
              answer |-> "none", rowSeq |-> 0, pending |-> NoPending]
NoEntity  == [ver |-> 0, epoch |-> 0, exiting |-> FALSE, rounds |-> 0, snapEpoch |-> 0]
NoClaim   == [phase |-> "none", epoch |-> 0, answer |-> "none", rows |-> Payload(0),
              seq |-> 0]

\* What a scene process keeps about the player.  lastSeq is the larger of the
\* process allocator's level and the personal floor of the entity; behind: the
\* allocator refused the row's number (Observe, kBeyondBound) and its own numbers
\* are still below it, so that only the floor is above.  published is a history:
\* the newest version whose transaction log has left the node.
NewNode(n) == [id |-> n, ent |-> NoEntity, client |-> NoClient, claim |-> NoClaim,
               enter |-> 0, lastSeq |-> 0, behind |-> FALSE, published |-> 0]

NoRound == [phase |-> "idle", epoch |-> 0, seen |-> NoNode, seenEpoch |-> 0]

HasEntity(s) == s.ent # NoEntity

Init ==
  /\ owner = [epoch |-> 0, seq |-> FirstSeq, holder |-> NoNode, released |-> TRUE,
              claimed |-> FALSE]
  /\ rows = Payload(0)
  /\ node = [n \in Nodes |-> NewNode(n)]
  /\ up = Nodes /\ etcd = Nodes /\ gone = {} /\ lapsed = {}
  /\ loc = [node |-> NoNode, epoch |-> 0]
  /\ route = [n \in Nodes |-> 0]
  /\ late = {}
  /\ round = NoRound
  /\ ops = 0 /\ faults = 0

-----------------------------------------------------------------------------
(* The store: go/db internal/playerstore.                                  *)

\* Mutant: the epoch and the holder are not compared.
UnfencedSave(o, r) ==
  IF r.seq = o.seq THEN "EQUAL" ELSE IF r.seq < o.seq THEN "OLDER_SEQ" ELSE "COMMITTED"

\* validateSave and decideSave.
decideSave(o, r) ==
  IF r.ver \in TooLarge /\ r.kinds # {} THEN "TOO_LARGE"
  ELSE IF r.epoch < o.epoch THEN "STALE_OWNER"
  ELSE IF o.holder # r.node
       THEN IF r.epoch = o.epoch THEN "NOT_HOLDER" ELSE "UNCLAIMED"
  ELSE IF r.seq = o.seq THEN "EQUAL"
  ELSE IF r.seq < o.seq THEN "OLDER_SEQ"
  ELSE "COMMITTED"

decideClaim(o, epoch, n) ==
  IF epoch < o.epoch THEN "STALE_OWNER"
  ELSE IF epoch = o.epoch /\ o.holder \notin {NoNode, n} THEN "NOT_HOLDER"
  ELSE "CLAIMED"

\* A save given up by its sender may still be executed, but only before the
\* next request of that node is: the deadline of a call cancels its transaction.
\* A request below the epoch or the sequence number of the row is refused for
\* ever and one too large always was: such late requests are forgotten (number 0
\* stands for any below the row's, see IssueSaveSeq).
Outlived(n, seq) == {r \in late : r.node # n \/ r.seq = seq}

StillOpen(o, requests) ==
  {r \in requests : /\ r.seq # 0
                    /\ decideSave(o, r) \in {"COMMITTED", "NOT_HOLDER", "UNCLAIMED"}}

\* The transaction of Save: owner row and dirty rows together.
Save(r, requests) ==
  IF decideSave(owner, r) = "COMMITTED"
  THEN /\ owner' = [owner EXCEPT !.epoch = r.epoch, !.seq = r.seq, !.released = r.release]
       /\ rows' = [k \in Kinds |-> IF k \in r.kinds THEN Payload(r.ver)[k] ELSE rows[k]]
       /\ late' = StillOpen(owner', requests)
  ELSE /\ UNCHANGED <<owner, rows>>
       /\ late' = requests

\* The transaction of LoadAndClaim.  Of claim_seq the model keeps whether it
\* grew since the release round in progress read the row.
LoadAndClaim(n, epoch) ==
  IF decideClaim(owner, epoch, n) = "CLAIMED"
  THEN /\ owner' = [owner EXCEPT !.epoch = epoch, !.holder = n,
                                 !.released = FALSE, !.claimed = TRUE]
       /\ late' = StillOpen(owner', Outlived(n, 0))
       /\ lapsed' = IF n \in etcd THEN lapsed \ {n} ELSE lapsed \cup {n}
  ELSE UNCHANGED <<owner, late, lapsed>>

-----------------------------------------------------------------------------
(* The client of a scene node: player_store_client.cpp.  Operators map the *)
(* state s of a node to its next state.                                    *)

Busy(c) == c.phase # "idle" \/ c.pending.queued

HasUnsettled(s) == Busy(s.client)

DirtyKinds(c, ver) ==
  c.uncertain \cup {k \in Kinds : Payload(ver)[k] # c.confirmed[k]}

NothingToWrite(c, o) ==
  /\ DirtyKinds(c, o.ver) = {}
  /\ ~o.release /\ ~o.force
  /\ ~c.releaseCommitted
  /\ c.committedEpoch = c.epoch

\* NotifyCommittedThrough: the log entries up to the commit mark of the
\* snapshot, which are those of its version, leave the node.
Publish(s, ver) == [s EXCEPT !.published = Max({@, ver})]

\* Mutant: the personal floor is not applied.
IssueProcessSeq(s) == IF s.behind THEN 0 ELSE s.lastSeq + 1

\* The next number of the process, raised above the personal floor.  The floor
\* goes with the entity: a queued snapshot that outlived it gets the bare number
\* of the process, and 0 is that number when it is below the row's.
IssueSaveSeq(s) == IF s.behind /\ ~HasEntity(s) THEN 0 ELSE s.lastSeq + 1

StartSave(s, o) ==
  LET c == s.client
      r == [node |-> s.id, epoch |-> c.epoch, seq |-> IssueSaveSeq(s), ver |-> o.ver,
            kinds |-> DirtyKinds(c, o.ver), release |-> o.release]
  IN [s EXCEPT !.lastSeq = Max({@, r.seq}),
               !.client = [c EXCEPT !.inflight = r, !.phase = "ready"]]

\* The newest snapshot replaces the queued one; force is sticky,
\* release is not.
Queue(c, o) ==
  [c EXCEPT !.pending = [queued |-> TRUE, ver |-> o.ver,
                         force |-> @.force \/ o.force, release |-> o.release]]

\* Mutant: the log leaves the node when its save is submitted.
SubmitAndPublish(s, o) ==
  IF Busy(s.client) THEN [s EXCEPT !.client = Queue(@, o)]
  ELSE Publish(IF NothingToWrite(s.client, o) THEN s ELSE StartSave(s, o), o.ver)

Submit(s, o) ==
  IF Busy(s.client) THEN [s EXCEPT !.client = Queue(@, o)]
  ELSE IF NothingToWrite(s.client, o) THEN Publish(s, o.ver)
  ELSE StartSave(s, o)

\* SavePlayerImpl and SubmitPlayerSave: the snapshot of the entity, which
\* must be written when nothing was committed in its epoch yet.
SavePlayer(s, skip) ==
  Submit([s EXCEPT !.client.epoch = s.ent.epoch],
         [ver |-> s.ent.ver, release |-> s.ent.exiting,
          force |-> ~skip \/ s.ent.snapEpoch # s.ent.epoch])

Forget(s) ==
  IF HasUnsettled(s) THEN s
  ELSE [s EXCEPT !.client = NoClient]

DestroyPlayer(s) == Forget([s EXCEPT !.ent = NoEntity])

NotifySettled(s) ==
  LET t == IF HasEntity(s) THEN s ELSE Forget(s) IN
  IF t.claim.phase = "wait" /\ ~HasUnsettled(t)
  THEN [t EXCEPT !.claim.phase = "ready"] ELSE t

\* Mutant: any committed save ends an exit.
SavedAnyVersion(s, ver) == IF s.ent.exiting THEN DestroyPlayer(s) ELSE s

\* HandlePlayerAsyncSaved for a snapshot known to be stored.
Saved(s, ver) ==
  IF ~s.ent.exiting THEN s
  ELSE IF ver = s.ent.ver THEN DestroyPlayer(s)
  ELSE IF s.ent.rounds < MaxResave
       THEN SavePlayer([s EXCEPT !.ent.rounds = @ + 1], TRUE)
  ELSE s

\* OnPlayerStoreSaveDone: only the last snapshot may finish an exit.
SaveDone(s, ver, epoch) ==
  IF ~HasEntity(s) THEN s
  ELSE LET t == [s EXCEPT !.ent.snapEpoch = epoch] IN
       IF HasUnsettled(t) THEN t ELSE Saved(t, ver)

Advance(s) ==
  IF s.client.phase # "idle" THEN s
  ELSE IF ~s.client.pending.queued THEN NotifySettled(s)
  ELSE LET p == s.client.pending
           t == [s EXCEPT !.client.pending = NoPending]
       IN IF NothingToWrite(t.client, p)
          THEN NotifySettled(SaveDone(Publish(t, p.ver), p.ver, t.client.committedEpoch))
          ELSE StartSave(t, p)

\* The client after its request ended.
Ended(c) == [c EXCEPT !.inflight = NoRequest, !.phase = "idle",
                      !.answer = "none", !.rowSeq = 0]

\* Mutant: the rows of the save are not taken as the stored ones.
CommittedUnrecorded(s) ==
  LET c == s.client
      r == c.inflight
      d == [Ended(c) EXCEPT !.uncertain = @ \ r.kinds, !.releaseCommitted = r.release,
                            !.committedEpoch = r.epoch]
  IN Advance(SaveDone(Publish([s EXCEPT !.client = d], r.ver), r.ver, r.epoch))

Committed(s) ==
  LET c == s.client
      r == c.inflight
      d == [Ended(c) EXCEPT
              !.confirmed = [k \in Kinds |-> IF k \in r.kinds THEN Payload(r.ver)[k] ELSE @[k]],
              !.uncertain = @ \ r.kinds,
              !.releaseCommitted = r.release,
              !.committedEpoch = r.epoch]
  IN Advance(SaveDone(Publish([s EXCEPT !.client = d], r.ver), r.ver, r.epoch))

\* The row belongs to someone else: what is queued for the same epoch is
\* dropped; HandlePlayerSaveRejected saves again if the entity has a newer
\* epoch, otherwise the node was deposed.
OwnerRejected(s) ==
  LET c == s.client
      r == c.inflight
      d == [Ended(c) EXCEPT !.uncertain = @ \cup r.kinds,
                            !.pending = IF c.epoch = r.epoch THEN NoPending ELSE @]
      t == [s EXCEPT !.client = d]
  IN Advance(IF ~HasEntity(t) THEN t
             ELSE IF t.ent.epoch # r.epoch THEN SavePlayer(t, TRUE)
             ELSE DestroyPlayer(t))

\* A snapshot the store will never take: an online entity is kept.
Refused(s) ==
  LET c == s.client
      t == [s EXCEPT !.client = [Ended(c) EXCEPT !.uncertain = @ \cup c.inflight.kinds]]
  IN Advance(IF t.ent.exiting /\ ~HasUnsettled(t) THEN DestroyPlayer(t) ELSE t)

\* The row is held and its number is larger: the allocator, or the floor of the
\* entity, is raised above it and the entity is saved again, whether or not a
\* snapshot is queued.  Without an entity only the queued snapshot goes on.
OlderSeq(s) ==
  LET c == s.client
      t == [s EXCEPT !.client = [Ended(c) EXCEPT !.uncertain = @ \cup c.inflight.kinds]]
  IN Advance(IF ~HasEntity(t) THEN t
             ELSE SavePlayer([t EXCEPT !.lastSeq = Max({@, c.rowSeq})], FALSE))

HandleSaveResponse(s) ==
  CASE s.client.answer \in {"COMMITTED", "EQUAL"} -> Committed(s)
    [] s.client.answer \in {"STALE_OWNER", "NOT_HOLDER", "UNCLAIMED"} -> OwnerRejected(s)
    [] s.client.answer = "OLDER_SEQ" -> OlderSeq(s)
    [] OTHER -> Refused(s)

RequestClaim(s) ==
  IF s.claim.phase \notin {"none", "loaded"} THEN s
  ELSE [s EXCEPT !.claim = [NoClaim EXCEPT !.phase = IF HasUnsettled(s) THEN "wait" ELSE "ready"]]

LoadFailed(s) ==
  LET t == [s EXCEPT !.enter = 0, !.claim = NoClaim] IN
  IF HasEntity(t) THEN t ELSE Forget(t)

\* Seed after a granted claim; the entity waits for the inherited marks to be
\* cleared ("loaded").
Claimed(s) ==
  LET c == [NoClient EXCEPT !.epoch = s.claim.epoch, !.confirmed = s.claim.rows,
                            !.committedEpoch = s.claim.epoch]
      t == [s EXCEPT !.client = c]
  IN IF t.enter = 0 THEN LoadFailed(t) ELSE [t EXCEPT !.claim.phase = "loaded"]

\* The epoch next to the cached one was minted for this very enter; two or
\* more above it someone else has held the player.
IsDeposedOnReentry(cached, incoming) == cached # 0 /\ incoming >= cached + 2

DiscardDeposedEntityOnReentry(s, epoch) ==
  IF HasEntity(s) /\ IsDeposedOnReentry(s.ent.epoch, epoch) THEN DestroyPlayer(s) ELSE s

\* EnterScene: the entity adopts the epoch and, if it was leaving
\* (CancelExitOnReconnect), saves again so that the row is not left released.
EnterScene(s, epoch) ==
  LET t == [s EXCEPT !.ent.exiting = FALSE, !.ent.rounds = 0, !.ent.epoch = Max({@, epoch})]
  IN IF s.ent.exiting THEN SavePlayer(t, TRUE) ELSE t

HandleEnterGameNode(s, epoch) ==
  LET t == DiscardDeposedEntityOnReentry(s, epoch) IN
  IF HasEntity(t) THEN EnterScene(t, epoch)
  ELSE RequestClaim([t EXCEPT !.enter = epoch])

-----------------------------------------------------------------------------
(* Actions of a scene node.                                                *)

Operate == ops < MaxOps /\ ops' = ops + 1 /\ UNCHANGED faults
Disturb == UNCHANGED ops /\ faults < MaxFaults /\ faults' = faults + 1

NodeStep(n, s) == node' = [node EXCEPT ![n] = s]

Enter(n) ==
  /\ n \in up /\ route[n] # 0
  /\ NodeStep(n, HandleEnterGameNode(node[n], route[n]))
  /\ route' = [route EXCEPT ![n] = 0]
  /\ UNCHANGED <<storeVars, up, etcd, gone, lapsed, loc, round, ops, faults>>

Play(n) ==
  /\ HasEntity(node[n]) /\ node[n].ent.ver < MaxVersion /\ Operate
  /\ NodeStep(n, [node[n] EXCEPT !.ent.ver = @ + 1])
  /\ UNCHANGED <<storeVars, placeVars>>

PeriodicSave(n) ==
  /\ HasEntity(node[n]) /\ Operate
  /\ NodeStep(n, SavePlayer(node[n], TRUE))
  /\ UNCHANGED <<storeVars, placeVars>>

ExitGameNode(n) ==
  /\ HasEntity(node[n]) /\ Operate
  /\ \/ ~node[n].ent.exiting
     \/ node[n].ent.rounds >= MaxResave /\ ~HasUnsettled(node[n])
  /\ NodeStep(n, SavePlayer([node[n] EXCEPT !.ent.exiting = TRUE, !.ent.rounds = 0], TRUE))
  /\ UNCHANGED <<storeVars, placeVars>>

\* A load is given up: the session ended or the inherited marks were not
\* cleared.
RefuseEntry(n) ==
  /\ node[n].enter # 0 /\ Disturb
  /\ NodeStep(n, IF node[n].claim.phase = "loaded" THEN LoadFailed(node[n])
                 ELSE [node[n] EXCEPT !.enter = 0])
  /\ UNCHANGED <<storeVars, placeVars>>

ExecuteSave(n) ==
  /\ node[n].client.phase = "ready"
  /\ Save(node[n].client.inflight, Outlived(n, node[n].client.inflight.seq))
  /\ NodeStep(n, [node[n] EXCEPT !.client.phase = "answered",
                                 !.client.answer = decideSave(owner, node[n].client.inflight),
                                 !.client.rowSeq = owner.seq])
  /\ UNCHANGED <<placeVars, ops, faults>>

DeliverSave(n) ==
  /\ node[n].client.phase = "answered"
  /\ NodeStep(n, HandleSaveResponse(node[n]))
  /\ UNCHANGED <<storeVars, placeVars, ops, faults>>

\* No answer: the rows sent are uncertain, and the request may still be
\* executed.  The same request is sent again.
SaveTimesOut(n) ==
  LET c == node[n].client IN
  /\ c.phase # "idle" /\ Disturb
  /\ NodeStep(n, [node[n] EXCEPT !.client.phase = "ready", !.client.answer = "none",
                                 !.client.rowSeq = 0,
                                 !.client.uncertain = @ \cup c.inflight.kinds])
  /\ late' = IF c.phase = "ready" THEN StillOpen(owner, late \cup {c.inflight}) ELSE late
  /\ UNCHANGED <<owner, rows, placeVars>>

ExecuteLate(r) ==
  /\ Save(r, late \ {r})
  /\ UNCHANGED <<node, placeVars, ops, faults>>

AttemptClaim(n) ==
  LET s == node[n] IN
  /\ s.claim.phase = "ready"
  /\ IF s.enter = 0
     THEN NodeStep(n, LoadFailed(s)) /\ UNCHANGED <<owner, late, lapsed>>
     ELSE /\ LoadAndClaim(n, s.enter)
          /\ NodeStep(n, [s EXCEPT !.claim = [phase |-> "answered", epoch |-> s.enter, rows |-> rows,
                              seq |-> owner.seq, answer |-> decideClaim(owner, s.enter, n)]])
  /\ UNCHANGED <<rows, up, etcd, gone, loc, route, round, ops, faults>>

DeliverClaim(n) ==
  LET s == node[n] IN
  /\ s.claim.phase = "answered"
  /\ NodeStep(n, IF s.claim.answer = "CLAIMED" /\ ~HasUnsettled(s) THEN Claimed(s)
                 ELSE LoadFailed(s))
  /\ UNCHANGED <<storeVars, placeVars, ops, faults>>

\* No answer: the claim is retried until its budget is spent.
ClaimTimesOut(n) ==
  /\ node[n].claim.phase \in {"ready", "answered"} /\ Disturb
  /\ \/ NodeStep(n, [node[n] EXCEPT !.claim = [NoClaim EXCEPT !.phase = "ready"]])
     \/ NodeStep(n, LoadFailed(node[n]))
  /\ UNCHANGED <<storeVars, placeVars>>

\* Observe refuses a number more than the bound ahead of this process's clock;
\* one the process has itself passed it never needs to adopt.
ObserveRefuses(s) ==
  ClocksAhead /\ s.claim.seq > 0 /\ (s.behind \/ s.claim.seq > s.lastSeq)

\* HandlePlayerAsyncLoaded and InitPlayerFromAllData: the row's number is adopted
\* by the process, or becomes the personal floor of the entity.  Where both may
\* be, the model takes the second and leaves the first to CatchUp.
Load(n) ==
  LET s == node[n] IN
  /\ s.claim.phase = "loaded"
  /\ NodeStep(n, [s EXCEPT !.ent = [NoEntity EXCEPT !.ver = s.claim.rows["log"],
                                                    !.epoch = s.enter],
                           !.lastSeq = Max({@, s.claim.seq}), !.behind = ObserveRefuses(s),
                           !.enter = 0, !.claim = NoClaim])
  /\ UNCHANGED <<storeVars, placeVars, ops, faults>>

\* The row's number was adopted after all, or time has passed until the process's
\* own numbers are above it.  While the entity lives its floor hides the difference.
CatchUp(n) ==
  /\ node[n].behind /\ ~HasEntity(node[n])
  /\ NodeStep(n, [node[n] EXCEPT !.behind = FALSE])
  /\ UNCHANGED <<storeVars, placeVars, ops, faults>>

Crash(n) ==
  LET c == node[n].client IN
  /\ n \in up /\ Disturb
  /\ up' = up \ {n}
  /\ NodeStep(n, [NewNode(n) EXCEPT !.published = node[n].published])
  /\ route' = [route EXCEPT ![n] = 0]
  /\ late' \in {late} \cup (IF c.phase = "ready" THEN {StillOpen(owner, late \cup {c.inflight})} ELSE {})
  /\ UNCHANGED <<owner, rows, etcd, gone, lapsed, loc, round>>

-----------------------------------------------------------------------------
(* scene_manager and etcd.                                                 *)

\* A new epoch is one more than the old, or the clock's milliseconds.
mintTargetEpoch(observed) == (observed + 1)..MaxEpoch

\* An enter route.  A placement on the node of the location keeps its epoch,
\* any other mints a new one.
Route(n) ==
  /\ n \in up \cap etcd /\ Operate
  /\ \E e \in IF loc.node = n THEN {loc.epoch} ELSE mintTargetEpoch(loc.epoch) :
       /\ loc' = [node |-> n, epoch |-> e]
       /\ route' = [route EXCEPT ![n] = e]
  /\ UNCHANGED <<storeVars, node, up, etcd, gone, lapsed, round>>

LocationRemoved ==
  /\ loc.node # NoNode /\ Disturb
  /\ loc' = [loc EXCEPT !.node = NoNode]
  /\ UNCHANGED <<storeVars, node, up, etcd, gone, lapsed, route, round>>

RegistrationEnds(n) ==
  /\ n \in etcd /\ Disturb
  /\ etcd' = etcd \ {n} /\ lapsed' = lapsed \cup {n} /\ gone' = gone \cup {n}
  /\ UNCHANGED <<storeVars, node, up, loc, route, round>>

Reregisters(n) ==
  /\ n \in up \ etcd
  /\ etcd' = etcd \cup {n}
  /\ UNCHANGED <<storeVars, node, up, gone, lapsed, loc, route, round, ops, faults>>

\* releaseDeadPlayerStoreHolderOnce, called for a location whose node is gone
\* (or was, in the cache of scene_manager): read the row ...
ReadHolder ==
  /\ round.phase = "idle"
  /\ loc.node \in gone
  /\ owner.epoch <= loc.epoch
  /\ round' = [phase |-> "read", epoch |-> loc.epoch, seen |-> owner.holder,
               seenEpoch |-> owner.epoch]
  /\ owner' = [owner EXCEPT !.claimed = FALSE]
  /\ UNCHANGED <<rows, late, node, up, etcd, gone, lapsed, loc, route, ops, faults>>

\* ... look the holder up in etcd ...
CheckRegistry ==
  /\ round.phase = "read"
  /\ round' = IF round.seen \in etcd THEN NoRound ELSE [round EXCEPT !.phase = "checked"]
  /\ UNCHANGED <<storeVars, node, up, etcd, gone, lapsed, loc, route, ops, faults>>

\* Mutant: a claim since the row was read is not noticed.
ReleaseByHolder(o, r) ==
  o.epoch <= r.epoch /\ o.epoch = r.seenEpoch /\ o.holder = r.seen

\* decideDeadHolderRelease.
decideDeadHolderRelease(o, r) ==
  o.epoch <= r.epoch /\ o.epoch = r.seenEpoch /\ o.holder = r.seen /\ ~o.claimed

\* ... and take the row if it is the one that was read.
ReleaseDeadHolder ==
  /\ round.phase = "checked"
  /\ IF decideDeadHolderRelease(owner, round)
     THEN /\ owner' = [owner EXCEPT !.epoch = round.epoch + 1, !.holder = NoNode,
                                    !.released = TRUE]
          /\ late' = StillOpen(owner', late)
          /\ loc' = IF loc.epoch = round.epoch THEN [loc EXCEPT !.node = NoNode] ELSE loc
     ELSE UNCHANGED <<owner, late, loc>>
  /\ round' = NoRound
  /\ UNCHANGED <<rows, node, up, etcd, gone, lapsed, route, ops, faults>>

\* revokeUnqualifiedHolder: a leave or an enter finds that epoch e of the location
\* was never claimed.  fenceUnclaimedPlayerStore takes the row from whatever
\* earlier holder it still has, with no look at etcd; then the location is
\* deleted, unless it has changed or the script fails.  The location may have
\* moved on since e was read.
RevokeUnqualifiedHolder ==
  /\ Disturb
  /\ \E e \in (owner.epoch + 1)..loc.epoch :
       /\ owner' = [owner EXCEPT !.epoch = e, !.holder = NoNode, !.released = TRUE]
       /\ loc' \in {loc} \cup (IF e = loc.epoch THEN {[loc EXCEPT !.node = NoNode]} ELSE {})
  /\ late' = StillOpen(owner', late)
  /\ UNCHANGED <<rows, node, up, etcd, gone, lapsed, route, round>>

SceneNode(n) ==
  \/ Enter(n) \/ Play(n) \/ PeriodicSave(n) \/ ExitGameNode(n) \/ RefuseEntry(n)
  \/ ExecuteSave(n) \/ DeliverSave(n) \/ SaveTimesOut(n)
  \/ AttemptClaim(n) \/ DeliverClaim(n) \/ ClaimTimesOut(n) \/ Load(n)
  \/ CatchUp(n) \/ Crash(n)

SceneManager ==
  \/ \E n \in Nodes : Route(n) \/ RegistrationEnds(n) \/ Reregisters(n)
  \/ LocationRemoved \/ ReadHolder \/ CheckRegistry \/ ReleaseDeadHolder
  \/ RevokeUnqualifiedHolder

Next ==
  \/ \E n \in Nodes : SceneNode(n)
  \/ \E r \in late : ExecuteLate(r)
  \/ SceneManager

Spec == Init /\ [][Next]_vars

-----------------------------------------------------------------------------
(* Properties.                                                             *)

\* The entity of the holder never falls behind the stored rows: what a claim
\* loads is the last commit, and no save of an earlier holder, in flight or
\* given up when the row changed hands, is committed under the new one
\* (decideSave and the settle-before-claim rule of RequestClaim).
HolderUpToDate ==
  \A n \in Nodes : HasEntity(node[n]) /\ owner.holder = n => node[n].ent.ver >= rows["log"]

\* The stored rows are always those of one moment of the character, though a
\* save writes only the rows that differ from the client's idea of the store:
\* lost answers, late commits and reloads never leave that idea wrong
\* (DirtyKinds, uncertain and Committed of the client).
ConsistentRows == rows["bag"] = rows["log"] % 2

\* A transaction log leaves the node only when the change it tells of is
\* stored for good, also if the node is deposed or dies a moment later
\* (NotifyCommittedThrough).
PublishedDurable == \A n \in Nodes : node[n].published <= rows["log"]

\* A save is refused as older than the row only when it is a snapshot that
\* outlived its entity, on a process that refused the row's number: for a live
\* entity the allocator or its personal floor has seen the number of every claim,
\* and no new request is overtaken by one the client gave up (Observe,
\* IssueSaveSeq).  The player is not saved again and again in vain.
LiveSaveNeverOlder ==
  \A n \in Nodes :
    node[n].client.answer = "OLDER_SEQ" => ClocksAhead /\ ~HasEntity(node[n])

\* A holder that came back and was given the player again between the reads and
\* the commit of a dead-holder release keeps him (decideDeadHolderRelease): a row
\* is taken only from a node whose registration had ended at some time since it
\* claimed the row, or from one that an epoch minted since has replaced, which
\* the revocation of an unqualified holder fences without a look at etcd.
ReleaseSparesReclaimed ==
  [][owner'.holder = NoNode /\ owner.holder # NoNode
       => owner.holder \in lapsed \/ owner.epoch < loc.epoch]_vars

\* An exit that ends with a committed save loses nothing of what happened
\* while the save was under way (HandlePlayerAsyncSaved compares the snapshot
\* with the entity and saves again).
ExitKeepsProgress ==
  [][\A n \in Nodes :
       /\ DeliverSave(n) /\ node[n].client.answer \in {"COMMITTED", "EQUAL"}
       /\ node[n].ent.exiting /\ node'[n].ent = NoEntity
       => rows["log"] >= node[n].ent.ver]_vars
=============================================================================
