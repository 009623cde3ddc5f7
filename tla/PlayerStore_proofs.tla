-------------------------- MODULE PlayerStore_proofs ------------------------
(***************************************************************************)
(* Proofs about the player store, for any number of scene nodes, versions, *)
(* epochs, lost answers, late commits, crashes and release rounds: first   *)
(* how scene_manager takes the row, then the stored rows and what each     *)
(* node knows of them.                                                     *)
(***************************************************************************)
EXTENDS PlayerStore, TLAPS

USE PlayerStoreAssumption

(* Types.                                                                  *)

Rows == [Kinds -> Nat]

Answers == {"none", "TOO_LARGE", "STALE_OWNER", "NOT_HOLDER", "UNCLAIMED", "EQUAL",
            "OLDER_SEQ", "COMMITTED", "CLAIMED"}

Owner == [epoch : Nat, seq : Nat, holder : Nodes \cup {NoNode}, released : BOOLEAN,
          claimed : BOOLEAN]

Request == [node : Nodes \cup {NoNode}, epoch : Nat, seq : Nat, ver : Nat,
            kinds : SUBSET Kinds, release : BOOLEAN]

Pending == [queued : BOOLEAN, ver : Nat, force : BOOLEAN, release : BOOLEAN]

Client == [epoch : Nat, confirmed : Rows, uncertain : SUBSET Kinds,
           releaseCommitted : BOOLEAN, committedEpoch : Nat, inflight : Request,
           phase : {"idle", "ready", "answered"}, answer : Answers, rowSeq : Nat,
           pending : Pending]

Entity == [ver : Nat, epoch : Nat, exiting : BOOLEAN, rounds : Nat, snapEpoch : Nat]

Claim == [phase : {"none", "wait", "ready", "answered", "loaded"}, epoch : Nat,
          answer : Answers, rows : Rows, seq : Nat]

NodeState == [id : Nodes, ent : Entity, client : Client, claim : Claim, enter : Nat,
              lastSeq : Nat, behind : BOOLEAN, published : Nat]

StoreTypes ==
  /\ owner \in Owner /\ rows \in Rows
  /\ node \in [Nodes -> NodeState] /\ \A n \in Nodes : node[n].id = n
  /\ late \subseteq Request
  /\ route \in [Nodes -> Nat]
  /\ loc \in [node : Nodes \cup {NoNode}, epoch : Nat]
  /\ round \in [phase : {"idle", "read", "checked"}, epoch : Nat, seen : Nodes \cup {NoNode},
                seenEpoch : Nat]

-----------------------------------------------------------------------------
(* How scene_manager takes the row.                                        *)

OwnerShape ==
  owner = [epoch |-> owner.epoch, seq |-> owner.seq, holder |-> owner.holder,
           released |-> owner.released, claimed |-> owner.claimed]

RoundShape ==
  round = [phase |-> round.phase, epoch |-> round.epoch, seen |-> round.seen,
           seenEpoch |-> round.seenEpoch]

\* A node that is not registered has lapsed since its last claim, and one that
\* a release round found missing is still so unless it has claimed again.
ReleaseInv ==
  /\ OwnerShape /\ RoundShape
  /\ owner.claimed \in BOOLEAN
  /\ owner.holder \in Nodes \cup {NoNode}
  /\ round.phase \in {"idle", "read", "checked"}
  /\ Nodes \ etcd \subseteq lapsed
  /\ round.phase = "checked" /\ round.seen \in Nodes /\ ~owner.claimed
       /\ owner.holder = round.seen => round.seen \in lapsed

\* Only a release or a revocation leaves the row without a holder.
SparesReclaimed ==
  owner'.holder = NoNode /\ owner.holder # NoNode
    => owner.holder \in lapsed \/ owner.epoch < loc.epoch

-----------------------------------------------------------------------------
\* A save changes neither the holder nor the mark of the last claim.
LEMMA SaveStep ==
  ASSUME ReleaseInv, NEW r, NEW requests, Save(r, requests),
         UNCHANGED <<etcd, lapsed, round>>
  PROVE  ReleaseInv' /\ SparesReclaimed
<1>1. OwnerShape' /\ owner'.holder = owner.holder /\ owner'.claimed = owner.claimed
  <2>1. CASE decideSave(owner, r) = "COMMITTED"
    <3>1. owner' = [owner EXCEPT !.epoch = r.epoch, !.seq = r.seq, !.released = r.release]
      BY <2>1 DEF Save
    <3>2. owner' = [epoch |-> r.epoch, seq |-> r.seq, holder |-> owner.holder,
                    released |-> r.release, claimed |-> owner.claimed]
      BY <3>1 DEF ReleaseInv, OwnerShape
    <3> QED BY <3>2 DEF OwnerShape
  <2>2. CASE decideSave(owner, r) # "COMMITTED"
    BY <2>2 DEF Save, ReleaseInv, OwnerShape
  <2> QED BY <2>1, <2>2
<1> QED BY <1>1 DEF ReleaseInv, RoundShape, SparesReclaimed

\* A claim that is granted is seen by the release round in progress.
LEMMA ClaimStep ==
  ASSUME ReleaseInv, NEW n \in Nodes, NEW e, LoadAndClaim(n, e), UNCHANGED <<etcd, round>>
  PROVE  ReleaseInv' /\ SparesReclaimed
<1>1. CASE decideClaim(owner, e, n) = "CLAIMED"
  <2>1. /\ owner' = [owner EXCEPT !.epoch = e, !.holder = n, !.released = FALSE,
                                  !.claimed = TRUE]
        /\ lapsed' = IF n \in etcd THEN lapsed \ {n} ELSE lapsed \cup {n}
    BY <1>1 DEF LoadAndClaim
  <2>2. owner' = [epoch |-> e, seq |-> owner.seq, holder |-> n, released |-> FALSE,
                  claimed |-> TRUE]
    BY <2>1 DEF ReleaseInv, OwnerShape
  <2>3. OwnerShape' /\ owner'.holder = n /\ owner'.claimed = TRUE
    BY <2>2 DEF OwnerShape
  <2>4. Nodes \ etcd' \subseteq lapsed'
    BY <2>1 DEF ReleaseInv
  <2> QED BY <2>3, <2>4 DEF ReleaseInv, RoundShape, SparesReclaimed
<1>2. CASE decideClaim(owner, e, n) # "CLAIMED"
  BY <1>2 DEF LoadAndClaim, ReleaseInv, OwnerShape, RoundShape, SparesReclaimed
<1> QED BY <1>1, <1>2

\* Steps that touch neither the row, nor the round, nor registrations.
LEMMA OtherStep ==
  ASSUME ReleaseInv, UNCHANGED <<owner, etcd, lapsed, round>>
  PROVE  ReleaseInv' /\ SparesReclaimed
BY DEF ReleaseInv, OwnerShape, RoundShape, SparesReclaimed

LEMMA NodeSteps ==
  ASSUME ReleaseInv, NEW n \in Nodes, SceneNode(n)
  PROVE  ReleaseInv' /\ SparesReclaimed
<1>1. CASE ExecuteSave(n)
  BY <1>1, SaveStep DEF ExecuteSave, placeVars
<1>2. CASE AttemptClaim(n)
  <2>1. CASE node[n].enter = 0
    BY <1>2, <2>1, OtherStep DEF AttemptClaim
  <2>2. CASE node[n].enter # 0
    BY <1>2, <2>2, ClaimStep DEF AttemptClaim
  <2> QED BY <2>1, <2>2
<1>3. CASE Enter(n) \/ Crash(n)
  BY <1>3, OtherStep DEF Enter, Crash, storeVars
<1>4. CASE \/ Play(n) \/ PeriodicSave(n) \/ ExitGameNode(n) \/ RefuseEntry(n)
           \/ DeliverSave(n) \/ DeliverClaim(n) \/ ClaimTimesOut(n) \/ Load(n)
           \/ CatchUp(n)
  BY <1>4, OtherStep DEF Play, PeriodicSave, ExitGameNode, RefuseEntry, DeliverSave,
                         DeliverClaim, ClaimTimesOut, Load, CatchUp, storeVars, placeVars
<1>5. CASE SaveTimesOut(n)
  BY <1>5, OtherStep DEF SaveTimesOut, placeVars
<1> QED BY <1>1, <1>2, <1>3, <1>4, <1>5 DEF SceneNode

LEMMA ManagerSteps ==
  ASSUME ReleaseInv, StoreTypes, SceneManager
  PROVE  ReleaseInv' /\ SparesReclaimed
<1>1. ASSUME NEW n \in Nodes, Route(n)
      PROVE  ReleaseInv' /\ SparesReclaimed
  BY <1>1, OtherStep DEF Route, storeVars
<1>2. CASE LocationRemoved
  BY <1>2, OtherStep DEF LocationRemoved, storeVars
<1>3. ASSUME NEW n \in Nodes, RegistrationEnds(n) \/ Reregisters(n)
      PROVE  ReleaseInv' /\ SparesReclaimed
  <2>1. UNCHANGED <<owner, round>>
    BY <1>3 DEF RegistrationEnds, Reregisters, storeVars
  <2>2. lapsed \subseteq lapsed' /\ Nodes \ etcd' \subseteq lapsed'
    BY <1>3 DEF RegistrationEnds, Reregisters, ReleaseInv
  <2> QED BY <2>1, <2>2 DEF ReleaseInv, OwnerShape, RoundShape, SparesReclaimed
<1>4. CASE ReadHolder
  <2>1. /\ round' = [phase |-> "read", epoch |-> loc.epoch, seen |-> owner.holder,
                     seenEpoch |-> owner.epoch]
        /\ owner' = [owner EXCEPT !.claimed = FALSE]
        /\ UNCHANGED <<etcd, lapsed>>
    BY <1>4 DEF ReadHolder
  <2>2. owner' = [epoch |-> owner.epoch, seq |-> owner.seq, holder |-> owner.holder,
                  released |-> owner.released, claimed |-> FALSE]
    BY <2>1 DEF ReleaseInv, OwnerShape
  <2>3. /\ OwnerShape' /\ RoundShape' /\ owner'.holder = owner.holder
        /\ owner'.claimed = FALSE /\ round'.phase = "read"
    BY <2>1, <2>2 DEF OwnerShape, RoundShape
  <2> QED BY <2>1, <2>3 DEF ReleaseInv, SparesReclaimed
<1>5. CASE CheckRegistry
  <2>1. /\ round' = IF round.seen \in etcd THEN NoRound ELSE [round EXCEPT !.phase = "checked"]
        /\ UNCHANGED <<owner, etcd, lapsed>>
    BY <1>5 DEF CheckRegistry, storeVars
  <2>2. /\ RoundShape' /\ (round.seen \in etcd => round'.phase = "idle")
        /\ round.seen \notin etcd => round'.seen = round.seen /\ round'.phase = "checked"
    BY <2>1 DEF ReleaseInv, RoundShape, NoRound
  <2> QED BY <2>1, <2>2 DEF ReleaseInv, OwnerShape, SparesReclaimed
<1>6. CASE ReleaseDeadHolder
  <2>1. /\ round.phase = "checked" /\ round' = NoRound
        /\ UNCHANGED <<etcd, lapsed>>
    BY <1>6 DEF ReleaseDeadHolder
  <2>2. RoundShape' /\ round'.phase = "idle"
    BY <2>1 DEF RoundShape, NoRound
  <2>3. CASE decideDeadHolderRelease(owner, round)
    <3>1. owner' = [owner EXCEPT !.epoch = round.epoch + 1, !.holder = NoNode,
                                 !.released = TRUE]
      BY <1>6, <2>3 DEF ReleaseDeadHolder
    <3>2. owner' = [epoch |-> round.epoch + 1, seq |-> owner.seq, holder |-> NoNode,
                    released |-> TRUE, claimed |-> owner.claimed]
      BY <3>1 DEF ReleaseInv, OwnerShape
    <3>3. OwnerShape' /\ owner'.holder = NoNode /\ owner'.claimed = owner.claimed
      BY <3>2 DEF OwnerShape
    <3>4. owner.holder = round.seen /\ ~owner.claimed
      BY <2>3 DEF decideDeadHolderRelease
    <3>5. SparesReclaimed
      BY <2>1, <3>4 DEF ReleaseInv, SparesReclaimed
    <3> QED BY <2>1, <2>2, <3>3, <3>5 DEF ReleaseInv
  <2>4. CASE ~decideDeadHolderRelease(owner, round)
    <3>1. owner' = owner
      BY <1>6, <2>4 DEF ReleaseDeadHolder
    <3> QED BY <2>1, <2>2, <3>1 DEF ReleaseInv, OwnerShape, SparesReclaimed
  <2> QED BY <2>3, <2>4
<1>7. CASE RevokeUnqualifiedHolder
  <2>1. PICK e \in (owner.epoch + 1)..loc.epoch :
          owner' = [owner EXCEPT !.epoch = e, !.holder = NoNode, !.released = TRUE]
    BY <1>7 DEF RevokeUnqualifiedHolder
  <2>2. owner' = [epoch |-> e, seq |-> owner.seq, holder |-> NoNode, released |-> TRUE,
                  claimed |-> owner.claimed]
    BY <2>1 DEF ReleaseInv, OwnerShape
  <2>3. OwnerShape' /\ owner'.holder = NoNode /\ owner'.claimed = owner.claimed
    BY <2>2 DEF OwnerShape
  <2>4. owner.epoch < loc.epoch
    <3>1. owner.epoch \in Nat /\ loc.epoch \in Nat
      BY DEF StoreTypes, Owner
    <3> QED BY <2>1, <3>1
  <2>5. UNCHANGED <<etcd, lapsed, round>>
    BY <1>7 DEF RevokeUnqualifiedHolder
  <2> QED BY <2>3, <2>4, <2>5 DEF ReleaseInv, RoundShape, SparesReclaimed
<1> QED BY <1>1, <1>2, <1>3, <1>4, <1>5, <1>6, <1>7 DEF SceneManager

LEMMA ReleaseStep ==
  ASSUME ReleaseInv, StoreTypes, [Next]_vars
  PROVE  ReleaseInv' /\ SparesReclaimed
<1>1. ASSUME NEW r \in late, ExecuteLate(r)
      PROVE  ReleaseInv' /\ SparesReclaimed
  BY <1>1, SaveStep DEF ExecuteLate, placeVars
<1>2. CASE UNCHANGED vars
  BY <1>2, OtherStep DEF vars, storeVars, placeVars
<1> QED BY <1>1, <1>2, NodeSteps, ManagerSteps DEF Next

LEMMA ReleaseInit == Init => ReleaseInv
BY DEF Init, ReleaseInv, OwnerShape, RoundShape, NoRound

-----------------------------------------------------------------------------
(* What a node in state s knows of the store, whose owner row is o and     *)
(* whose data rows are d.                                                  *)

Open == {"COMMITTED", "NOT_HOLDER", "UNCLAIMED"}
Done == {"COMMITTED", "EQUAL"}

\* What the client takes for stored is stored, but for the rows it is not
\* sure of and those of its request.
Fits(c, d) ==
  \A k \in Kinds \ (c.uncertain \cup IF c.phase = "idle" THEN {} ELSE c.inflight.kinds) :
    d[k] = c.confirmed[k]

\* A request that is not executed yet makes the rows those of its version
\* and does not take them back; one that is executed has done so; one numbered
\* below the row never will be.
Sound(r, o, d) ==
  \/ /\ o.seq < r.seq
     /\ \A k \in Kinds \ r.kinds : d[k] = Payload(r.ver)[k]
     /\ d["log"] <= r.ver
  \/ o.seq = r.seq /\ d = Payload(r.ver)
  \/ r.seq = 0 /\ o.seq > 0

\* The client of this node is used without another claim.
InUse(s) == HasEntity(s) \/ Busy(s.client)

\* The allocator or the floor is not behind the row, the row has a number if the
\* allocator is, and the client's idea of the rows fits.
Seeded(s, o, d) ==
  o.seq <= s.lastSeq /\ (s.behind => o.seq > 0) /\ Fits(s.client, d)

\* What is known of the holder of the row: its client, ...
ClientHolds(s, o, d) ==
  /\ InUse(s) => Seeded(s, o, d)
  /\ s.client.phase # "idle" => Sound(s.client.inflight, o, d)
  /\ s.client.phase = "answered" => decideSave(o, s.client.inflight) \notin Open
  /\ s.client.phase = "answered" /\ s.client.answer \in Done => o.seq = s.client.inflight.seq

\* ... its snapshots and what it loads.
MemoryHolds(s, o, d) ==
  /\ s.client.pending.queued => d["log"] <= s.client.pending.ver
  /\ HasEntity(s) => d["log"] <= s.ent.ver
  /\ s.claim.phase = "answered" /\ s.claim.answer = "CLAIMED" =>
       s.claim.rows = d /\ s.claim.seq = o.seq
  /\ s.claim.phase = "loaded" => s.claim.rows = d /\ s.claim.seq = o.seq /\ Fits(s.client, d)

\* The order of the snapshots: request, queue, entity.  Only a process whose clock
\* is behind numbers a request below the row, and only once the entity is gone.
Ordered(s) ==
  /\ s.behind => ClocksAhead
  /\ s.client.phase # "idle" =>
       /\ s.client.inflight.node = s.id
       /\ \/ s.client.inflight.seq = s.lastSeq /\ s.lastSeq > 0
          \/ s.client.inflight.seq = 0 /\ ~HasEntity(s) /\ ClocksAhead
       /\ s.client.pending.queued => s.client.inflight.ver <= s.client.pending.ver
       /\ HasEntity(s) => s.client.inflight.ver <= s.ent.ver
  /\ s.client.pending.queued /\ HasEntity(s) => s.client.pending.ver <= s.ent.ver

\* A claim waits until the client has settled, and an entity needs no claim.
Settles(s) ==
  /\ s.claim.phase # "none" => ~HasEntity(s)
  /\ s.claim.phase \in {"ready", "answered", "loaded"} => ~Busy(s.client)

\* What a node has been told is stored has not been taken back.
Durable(s, d) ==
  /\ s.published <= d["log"]
  /\ s.client.confirmed["log"] <= d["log"]
  /\ s.claim.rows["log"] <= d["log"]
  /\ s.client.phase = "answered" /\ s.client.answer \in Done =>
       s.client.inflight.ver <= d["log"]

\* The state of a node before and after each call of the client.
Good(s, o, d) ==
  /\ s \in NodeState
  /\ Ordered(s) /\ Settles(s) /\ Durable(s, d)
  /\ o.holder = s.id => ClientHolds(s, o, d) /\ MemoryHolds(s, o, d)

\* Between two handlers nothing is queued behind an idle client, and only a request
\* numbered below the row was answered as older than it.
Rests(s) ==
  /\ s.client.pending.queued => s.client.phase # "idle"
  /\ s.client.answer = "OLDER_SEQ" =>
       s.client.phase = "answered" /\ s.client.inflight.seq = 0

\* A node whose process is gone does nothing.
Quiet(s) == ~InUse(s) /\ s.claim.phase = "none" /\ s.enter = 0 /\ ~s.behind

NodesInv ==
  /\ \A n \in Nodes : Good(node[n], owner, rows) /\ Rests(node[n])
  /\ \A n \in Nodes \ up : Quiet(node[n])

\* A save its sender gave up: while its sender holds the row it is the request
\* that is sent again, or the last one of a process that is gone.
LateInv ==
  /\ \A r \in late : r.node \in Nodes /\ r.seq > 0 /\ decideSave(owner, r) \in Open
  /\ \A r \in late : r.node = owner.holder =>
       /\ Sound(r, owner, rows)
       /\ r.node \in up => node[r.node].client.phase = "ready" /\ r = node[r.node].client.inflight
  /\ \A q, r \in late : q.node = owner.holder /\ r.node = owner.holder => q = r

StoreInv == StoreTypes /\ ConsistentRows /\ NodesInv /\ LateInv

-----------------------------------------------------------------------------
(* Records and rows.                                                       *)

\* The larger of two numbers, as FiniteSetsExt defines it.
LEMMA Larger ==
  ASSUME NEW a \in Nat, NEW b \in Nat
  PROVE  /\ Max({a, b}) \in Nat /\ Max({a, b}) \in {a, b}
         /\ Max({a, b}) >= a /\ Max({a, b}) >= b
<1>1. PICK x \in {a, b} : \A y \in {a, b} : x >= y
  <2>1. CASE a >= b
    BY <2>1
  <2>2. CASE b >= a
    BY <2>2
  <2> QED BY <2>1, <2>2
<1>2. Max({a, b}) \in {a, b} /\ \A y \in {a, b} : Max({a, b}) >= y
  BY <1>1 DEF Max
<1> QED BY <1>2

\* The rows of a version.
LEMMA PayloadRows ==
  ASSUME NEW v \in Nat
  PROVE  /\ Payload(v) \in Rows
         /\ Payload(v)["log"] = v /\ Payload(v)["bag"] = v % 2
BY DEF Payload, Rows, Kinds

\* What a node has before it is used.
LEMMA Blanks ==
  /\ NoRequest \in Request /\ NoPending \in Pending
  /\ NoClient \in Client /\ NoEntity \in Entity /\ NoClaim \in Claim
<1>1. NoRequest \in Request /\ NoPending \in Pending /\ NoEntity \in Entity
  BY DEF NoRequest, Request, NoPending, Pending, NoEntity, Entity
<1>2. Payload(0) \in Rows
  BY PayloadRows
<1>3. NoClient \in Client
  BY <1>1, <1>2 DEF NoClient, Client, Answers
<1>4. NoClaim \in Claim
  BY <1>2 DEF NoClaim, Claim, Answers
<1> QED BY <1>1, <1>3, <1>4

LEMMA BlankClient ==
  /\ NoClient.phase = "idle" /\ NoClient.pending.queued = FALSE /\ NoClient.answer = "none"
  /\ NoClient.confirmed["log"] = 0 /\ ~Busy(NoClient)
  /\ NoClaim.phase = "none" /\ NoClaim.rows["log"] = 0
  /\ NoEntity.exiting = FALSE
<1>1. Payload(0)["log"] = 0
  BY PayloadRows
<1> QED BY <1>1 DEF NoClient, NoPending, NoClaim, NoEntity, Busy

\* Updates of one part of a node.
LEMMA SetClient ==
  ASSUME NEW s \in NodeState, NEW c \in Client
  PROVE  LET t == [s EXCEPT !.client = c] IN
         /\ t \in NodeState /\ t.client = c
         /\ t.id = s.id /\ t.ent = s.ent /\ t.claim = s.claim /\ t.enter = s.enter
         /\ t.lastSeq = s.lastSeq /\ t.behind = s.behind /\ t.published = s.published
BY DEF NodeState

LEMMA SetEnt ==
  ASSUME NEW s \in NodeState, NEW e \in Entity
  PROVE  LET t == [s EXCEPT !.ent = e] IN
         /\ t \in NodeState /\ t.ent = e
         /\ t.id = s.id /\ t.client = s.client /\ t.claim = s.claim /\ t.enter = s.enter
         /\ t.lastSeq = s.lastSeq /\ t.behind = s.behind /\ t.published = s.published
BY DEF NodeState

LEMMA SetClaim ==
  ASSUME NEW s \in NodeState, NEW c \in Claim
  PROVE  LET t == [s EXCEPT !.claim = c] IN
         /\ t \in NodeState /\ t.claim = c
         /\ t.id = s.id /\ t.ent = s.ent /\ t.client = s.client /\ t.enter = s.enter
         /\ t.lastSeq = s.lastSeq /\ t.behind = s.behind /\ t.published = s.published
BY DEF NodeState

LEMMA SetPublished ==
  ASSUME NEW s \in NodeState, NEW v \in Nat
  PROVE  LET t == [s EXCEPT !.published = v] IN
         /\ t \in NodeState /\ t.published = v
         /\ t.id = s.id /\ t.ent = s.ent /\ t.client = s.client /\ t.claim = s.claim
         /\ t.enter = s.enter /\ t.lastSeq = s.lastSeq /\ t.behind = s.behind
BY DEF NodeState

LEMMA SetEnter ==
  ASSUME NEW s \in NodeState, NEW v \in Nat
  PROVE  LET t == [s EXCEPT !.enter = v] IN
         /\ t \in NodeState /\ t.enter = v
         /\ t.id = s.id /\ t.ent = s.ent /\ t.client = s.client /\ t.claim = s.claim
         /\ t.published = s.published /\ t.lastSeq = s.lastSeq /\ t.behind = s.behind
BY DEF NodeState

\* The parts of a node.
LEMMA Parts ==
  ASSUME NEW s \in NodeState
  PROVE  /\ s.id \in Nodes /\ s.ent \in Entity /\ s.client \in Client /\ s.claim \in Claim
         /\ s.enter \in Nat /\ s.lastSeq \in Nat /\ s.behind \in BOOLEAN
         /\ s.published \in Nat
BY DEF NodeState

LEMMA ClientParts ==
  ASSUME NEW c \in Client
  PROVE  /\ c.epoch \in Nat /\ c.confirmed \in Rows /\ c.uncertain \in SUBSET Kinds
         /\ c.releaseCommitted \in BOOLEAN /\ c.committedEpoch \in Nat
         /\ c.inflight \in Request /\ c.phase \in {"idle", "ready", "answered"}
         /\ c.answer \in Answers /\ c.rowSeq \in Nat /\ c.pending \in Pending
         /\ c.pending.queued \in BOOLEAN /\ c.pending.ver \in Nat
         /\ c.pending.force \in BOOLEAN /\ c.pending.release \in BOOLEAN
BY DEF Client, Pending

LEMMA RequestParts ==
  ASSUME NEW r \in Request
  PROVE  /\ r.node \in Nodes \cup {NoNode} /\ r.epoch \in Nat /\ r.seq \in Nat
         /\ r.ver \in Nat /\ r.kinds \in SUBSET Kinds /\ r.release \in BOOLEAN
BY DEF Request

LEMMA EntityParts ==
  ASSUME NEW e \in Entity
  PROVE  /\ e.ver \in Nat /\ e.epoch \in Nat /\ e.exiting \in BOOLEAN /\ e.rounds \in Nat
         /\ e.snapEpoch \in Nat
BY DEF Entity

LEMMA ClaimParts ==
  ASSUME NEW c \in Claim
  PROVE  /\ c.phase \in {"none", "wait", "ready", "answered", "loaded"} /\ c.epoch \in Nat
         /\ c.answer \in Answers /\ c.rows \in Rows /\ c.seq \in Nat
BY DEF Claim

LEMMA RowParts ==
  ASSUME NEW d \in Rows
  PROVE  d["log"] \in Nat /\ d["bag"] \in Nat
BY DEF Rows, Kinds

-----------------------------------------------------------------------------
(* Operators of the client.                                                *)

\* A request that is under way is not touched.
Keeps(s, t) ==
  /\ s.client.phase # "idle" =>
       /\ t.client.phase = s.client.phase /\ t.client.inflight = s.client.inflight
       /\ t.client.answer = s.client.answer
  /\ t.client.answer \in {s.client.answer, "none"}

\* What every operator of the client makes of a good state.
Step(s, t, o, d) ==
  /\ Good(t, o, d) /\ t.id = s.id
  /\ Keeps(s, t)
  /\ Rests(s) => Rests(t)

\* The entity is as it was, or all of it is stored.
Kept(s, t, d) ==
  \/ t.ent.exiting = s.ent.exiting /\ t.ent.ver = s.ent.ver
  \/ s.ent.ver <= d["log"]

LEMMA Stays ==
  ASSUME NEW s, NEW o, NEW d, Good(s, o, d)
  PROVE  Step(s, s, o, d) /\ Kept(s, s, d)
BY DEF Step, Keeps, Kept

LEMMA Composes ==
  ASSUME NEW s, NEW t, NEW u, NEW o, NEW d, Step(s, t, o, d), Step(t, u, o, d)
  PROVE  Step(s, u, o, d)
BY DEF Step, Keeps

\* A state that differs in what no condition speaks of.
LEMMA SameMemory ==
  ASSUME NEW s, NEW t, NEW o \in Owner, NEW d \in Rows, Good(s, o, d),
         t \in NodeState, t.id = s.id,
         t.client = s.client, t.claim = s.claim, t.lastSeq = s.lastSeq /\ t.behind = s.behind, Durable(t, d),
         HasEntity(t) => HasEntity(s) /\ s.ent.ver <= t.ent.ver
  PROVE  Step(s, t, o, d)
<1> USE DEF Good
<1>0. /\ s.ent.ver \in Nat /\ t.ent.ver \in Nat /\ s.client.inflight.ver \in Nat
      /\ s.client.pending.ver \in Nat /\ d["log"] \in Nat
  BY Parts, EntityParts, ClientParts, RequestParts, RowParts
<1>1. Ordered(t)
  BY <1>0 DEF Ordered
<1>2. Settles(t)
  BY DEF Settles
<1>3. ASSUME o.holder = t.id
      PROVE  ClientHolds(t, o, d) /\ MemoryHolds(t, o, d)
  <2>1. ClientHolds(s, o, d) /\ MemoryHolds(s, o, d)
    BY <1>3
  <2>2. InUse(t) => InUse(s)
    BY DEF InUse
  <2>3. ClientHolds(t, o, d)
    BY <2>1, <2>2 DEF ClientHolds, Seeded
  <2>4. MemoryHolds(t, o, d)
    BY <2>1, <1>0, <1>3 DEF MemoryHolds
  <2> QED BY <2>3, <2>4
<1> QED BY <1>1, <1>2, <1>3 DEF Step, Keeps, Rests

LEMMA Publishes ==
  ASSUME NEW s, NEW o \in Owner, NEW d \in Rows, Good(s, o, d), NEW v \in Nat, v <= d["log"]
  PROVE  LET t == Publish(s, v) IN
         /\ Step(s, t, o, d)
         /\ t.client = s.client /\ t.ent = s.ent /\ t.claim = s.claim
<1> DEFINE t == Publish(s, v)
<1>0. s \in NodeState /\ s.published \in Nat /\ d["log"] \in Nat
  BY Parts, RowParts DEF Good
<1>1. Max({s.published, v}) \in Nat /\ Max({s.published, v}) \in {s.published, v}
  BY <1>0, Larger
<1>2. t = [s EXCEPT !.published = Max({s.published, v})]
  BY DEF Publish
<1>3. /\ t \in NodeState /\ t.published \in {s.published, v}
      /\ t.id = s.id /\ t.ent = s.ent /\ t.client = s.client /\ t.claim = s.claim
      /\ t.enter = s.enter /\ t.lastSeq = s.lastSeq /\ t.behind = s.behind
  BY <1>0, <1>1, <1>2, SetPublished
<1> HIDE DEF t
<1>4. Durable(t, d)
  BY <1>0, <1>3 DEF Durable, Good
<1>5. HasEntity(t) => HasEntity(s) /\ s.ent.ver <= t.ent.ver
  BY <1>0, <1>3, Parts, EntityParts DEF HasEntity
<1> QED BY <1>3, <1>4, <1>5, SameMemory DEF t

\* A new request: it follows the row, and with the rows it leaves out it is
\* the whole of its version.
LEMMA Starts ==
  ASSUME NEW s, NEW o \in Owner, NEW d \in Rows, Good(s, o, d), ~Busy(s.client),
         s.claim.phase \in {"none", "wait"}, NEW p, p.ver \in Nat, p.release \in BOOLEAN,
         o.holder = s.id => Seeded(s, o, d) /\ d["log"] <= p.ver,
         HasEntity(s) => p.ver <= s.ent.ver
  PROVE  LET t == StartSave(s, p) IN
         /\ Step(s, t, o, d)
         /\ t.ent = s.ent /\ t.claim = s.claim
         /\ t.client.phase = "ready" /\ t.client.answer = s.client.answer
         /\ t.client.pending = s.client.pending
<1> DEFINE c == s.client
           q == IssueSaveSeq(s)
           l == Max({s.lastSeq, q})
           r == [node |-> s.id, epoch |-> c.epoch, seq |-> q, ver |-> p.ver,
                 kinds |-> DirtyKinds(c, p.ver), release |-> p.release]
           e == [c EXCEPT !.inflight = r, !.phase = "ready"]
           t == StartSave(s, p)
<1>0. s \in NodeState /\ c \in Client /\ s.lastSeq \in Nat /\ s.id \in Nodes
      /\ p.ver \in Nat /\ p.release \in BOOLEAN /\ d["log"] \in Nat /\ o.seq \in Nat
  BY Parts, RowParts DEF Good, Owner
<1>1. c.phase = "idle" /\ c.pending.queued = FALSE
  BY <1>0, ClientParts DEF Busy
<1>2. DirtyKinds(c, p.ver) \subseteq Kinds
  BY <1>0, ClientParts DEF DirtyKinds
<1>a. /\ q \in Nat /\ l \in Nat
      /\ \/ q = s.lastSeq + 1 /\ l = q
         \/ q = 0 /\ l = s.lastSeq /\ s.behind /\ ~HasEntity(s)
  <2>1. \/ q = s.lastSeq + 1
        \/ q = 0 /\ s.behind /\ ~HasEntity(s)
    BY DEF IssueSaveSeq
  <2>2. q \in Nat
    BY <2>1, <1>0
  <2> HIDE DEF q
  <2>3. l \in Nat /\ l \in {s.lastSeq, q} /\ l >= s.lastSeq /\ l >= q
    BY <2>2, <1>0, Larger
  <2> QED BY <2>1, <2>2, <2>3, <1>0
<1> HIDE DEF q, l
<1>3. /\ r \in Request /\ r.node = s.id /\ r.seq = q /\ r.ver = p.ver
      /\ r.kinds = DirtyKinds(c, p.ver)
  BY <1>0, <1>a, <1>2, ClientParts DEF Request
<1> HIDE DEF r
<1>4. /\ e \in Client /\ e.inflight = r /\ e.phase = "ready" /\ e.pending = c.pending
      /\ e.confirmed = c.confirmed /\ e.uncertain = c.uncertain /\ e.answer = c.answer
  BY <1>0, <1>3 DEF Client
<1>5. t = [s EXCEPT !.lastSeq = l, !.client = e]
  BY <1>3 DEF StartSave, r, q, l
<1> HIDE DEF c, e, t
<1>6. /\ t \in NodeState /\ t.client = e /\ t.lastSeq = l /\ t.behind = s.behind
      /\ t.id = s.id /\ t.ent = s.ent /\ t.claim = s.claim /\ t.enter = s.enter
      /\ t.published = s.published
  BY <1>0, <1>a, <1>4, <1>5 DEF NodeState
<1>7. Ordered(t)
  BY <1>0, <1>a, <1>1, <1>3, <1>4, <1>6 DEF Ordered, HasEntity, Good
<1>8. Settles(t)
  BY <1>6 DEF Good, Settles, HasEntity
<1>9. Durable(t, d)
  BY <1>4, <1>6 DEF Good, Durable, c
<1>10. ASSUME o.holder = t.id
       PROVE  ClientHolds(t, o, d) /\ MemoryHolds(t, o, d)
  <2>1. /\ o.seq <= s.lastSeq /\ (s.behind => o.seq > 0) /\ d["log"] <= p.ver
        /\ \A k \in Kinds \ c.uncertain : d[k] = c.confirmed[k]
    BY <1>10, <1>6, <1>1 DEF Seeded, Fits, c
  <2>2. c.uncertain \subseteq r.kinds
    BY <1>3 DEF DirtyKinds
  <2>3. Seeded(t, o, d)
    BY <2>1, <1>0, <1>a, <1>4, <1>6 DEF Seeded, Fits
  <2>4. \A k \in Kinds \ r.kinds : d[k] = Payload(r.ver)[k]
    BY <2>1, <1>3 DEF DirtyKinds
  <2>5. Sound(r, o, d)
    BY <2>1, <2>4, <1>0, <1>a, <1>3 DEF Sound
  <2>6. ClientHolds(t, o, d)
    BY <2>3, <2>5, <1>4, <1>6 DEF ClientHolds
  <2>7. MemoryHolds(s, o, d)
    BY <1>10, <1>6 DEF Good
  <2>8. MemoryHolds(t, o, d)
    BY <2>7, <1>1, <1>4, <1>6 DEF MemoryHolds, HasEntity
  <2> QED BY <2>6, <2>8
<1>11. Step(s, t, o, d)
  BY <1>1, <1>4, <1>6, <1>7, <1>8, <1>9, <1>10 DEF Step, Good, Keeps, Rests, c
<1>12. /\ t.client.phase = "ready" /\ t.client.answer = s.client.answer
       /\ t.client.pending = s.client.pending
  BY <1>4, <1>6 DEF c
<1> QED BY <1>6, <1>11, <1>12 DEF t, Step

\* The epoch of the client is that of the entity.
LEMMA Adopts ==
  ASSUME NEW s, NEW o \in Owner, NEW d \in Rows, Good(s, o, d)
  PROVE  LET t == [s EXCEPT !.client.epoch = s.ent.epoch] IN
         /\ Step(s, t, o, d) /\ t.ent = s.ent /\ t.claim = s.claim
         /\ t.client.confirmed = s.client.confirmed /\ t.client.phase = s.client.phase
         /\ t.client.pending = s.client.pending
<1> DEFINE c == s.client
           e == [c EXCEPT !.epoch = s.ent.epoch]
           t == [s EXCEPT !.client = e]
<1>0. s \in NodeState /\ c \in Client /\ s.ent.epoch \in Nat
  BY Parts, EntityParts DEF Good
<1>1. /\ e \in Client /\ e.inflight = c.inflight /\ e.phase = c.phase /\ e.pending = c.pending
      /\ e.confirmed = c.confirmed /\ e.uncertain = c.uncertain /\ e.answer = c.answer
  BY <1>0 DEF Client
<1> HIDE DEF e
<1>2. /\ t \in NodeState /\ t.client = e
      /\ t.id = s.id /\ t.ent = s.ent /\ t.claim = s.claim /\ t.enter = s.enter
      /\ t.lastSeq = s.lastSeq /\ t.behind = s.behind /\ t.published = s.published
  BY <1>0, <1>1, SetClient
<1> HIDE DEF t
<1>3. Busy(t.client) <=> Busy(s.client)
  BY <1>1, <1>2 DEF Busy
<1>4. Ordered(t) /\ Settles(t) /\ Durable(t, d)
  BY <1>1, <1>2, <1>3 DEF Good, Ordered, Settles, Durable, HasEntity
<1>5. ASSUME o.holder = t.id
      PROVE  ClientHolds(t, o, d) /\ MemoryHolds(t, o, d)
  <2>1. ClientHolds(s, o, d) /\ MemoryHolds(s, o, d)
    BY <1>5, <1>2 DEF Good
  <2>2. (InUse(t) <=> InUse(s)) /\ (HasEntity(t) <=> HasEntity(s))
    BY <1>2, <1>3 DEF InUse, HasEntity
  <2>3. Fits(t.client, d) <=> Fits(s.client, d)
    BY <1>1, <1>2 DEF Fits
  <2>4. ClientHolds(t, o, d)
    BY <2>1, <2>2, <2>3, <1>1, <1>2 DEF ClientHolds, Seeded
  <2>5. MemoryHolds(t, o, d)
    BY <2>1, <2>2, <2>3, <1>1, <1>2 DEF MemoryHolds
  <2> QED BY <2>4, <2>5
<1>6. Step(s, t, o, d)
  BY <1>1, <1>2, <1>4, <1>5 DEF Step, Good, Keeps, Rests
<1> QED BY <1>1, <1>2, <1>6 DEF t, e

\* A snapshot of the entity waits for its turn.
LEMMA Queues ==
  ASSUME NEW s, NEW o \in Owner, NEW d \in Rows, Good(s, o, d), HasEntity(s), Busy(s.client),
         NEW p, p.ver = s.ent.ver, p.release \in BOOLEAN, p.force \in BOOLEAN
  PROVE  LET t == [s EXCEPT !.client = Queue(@, p)] IN
         Step(s, t, o, d) /\ t.ent = s.ent /\ t.claim = s.claim
<1> DEFINE c == s.client
           w == [queued |-> TRUE, ver |-> p.ver, force |-> c.pending.force \/ p.force,
                 release |-> p.release]
           e == [c EXCEPT !.pending = w]
           t == [s EXCEPT !.client = e]
<1>0. s \in NodeState /\ c \in Client /\ s.ent.ver \in Nat /\ d["log"] \in Nat
      /\ c.inflight.ver \in Nat
  BY Parts, EntityParts, RowParts, ClientParts, RequestParts DEF Good
<1>1. c.pending.force \/ p.force \in BOOLEAN
  OBVIOUS
<1>2. w \in Pending /\ w.queued = TRUE /\ w.ver = s.ent.ver
  BY <1>0, <1>1 DEF Pending
<1>3. [s EXCEPT !.client = Queue(@, p)] = t
  BY DEF Queue
<1> HIDE DEF w
<1>4. /\ e \in Client /\ e.inflight = c.inflight /\ e.phase = c.phase /\ e.pending = w
      /\ e.confirmed = c.confirmed /\ e.uncertain = c.uncertain /\ e.answer = c.answer
  BY <1>0, <1>2 DEF Client
<1> HIDE DEF e
<1>5. /\ t \in NodeState /\ t.client = e
      /\ t.id = s.id /\ t.ent = s.ent /\ t.claim = s.claim /\ t.enter = s.enter
      /\ t.lastSeq = s.lastSeq /\ t.behind = s.behind /\ t.published = s.published
  BY <1>0, <1>4, SetClient
<1> HIDE DEF t
<1>6. Ordered(t)
  BY <1>0, <1>2, <1>4, <1>5 DEF Good, Ordered, HasEntity
<1>7. Settles(t)
  BY <1>5 DEF Good, Settles, HasEntity
<1>8. Durable(t, d)
  BY <1>4, <1>5 DEF Good, Durable
<1>9. ASSUME o.holder = t.id
      PROVE  ClientHolds(t, o, d) /\ MemoryHolds(t, o, d)
  <2>1. ClientHolds(s, o, d) /\ MemoryHolds(s, o, d)
    BY <1>9, <1>5 DEF Good
  <2>2. InUse(s) /\ HasEntity(t)
    BY <1>5 DEF InUse, HasEntity
  <2>3. Fits(t.client, d) <=> Fits(s.client, d)
    BY <1>4, <1>5 DEF Fits
  <2>4. ClientHolds(t, o, d)
    BY <2>1, <2>2, <2>3, <1>4, <1>5 DEF ClientHolds, Seeded
  <2>5. MemoryHolds(t, o, d)
    BY <2>1, <2>2, <2>3, <1>2, <1>4, <1>5 DEF MemoryHolds
  <2> QED BY <2>4, <2>5
<1>10. Rests(s) => Rests(t)
  <2>1. Rests(s) => s.client.phase # "idle"
    BY DEF Rests, Busy
  <2> QED BY <2>1, <1>4, <1>5 DEF Rests
<1>11. Step(s, t, o, d)
  BY <1>4, <1>5, <1>6, <1>7, <1>8, <1>9, <1>10 DEF Step, Good, Keeps
<1> QED BY <1>3, <1>5, <1>11

\* A snapshot that needs no request is stored already.
LEMMA Stored ==
  ASSUME NEW s, NEW o \in Owner, NEW d \in Rows, Good(s, o, d), NEW p, p.ver \in Nat,
         NothingToWrite(s.client, p)
  PROVE  p.ver <= d["log"]
<1>1. DirtyKinds(s.client, p.ver) = {}
  BY DEF NothingToWrite
<1>2. Payload(p.ver)["log"] = s.client.confirmed["log"]
  BY <1>1 DEF DirtyKinds, Kinds
<1>3. p.ver = s.client.confirmed["log"]
  BY <1>2, PayloadRows
<1> QED BY <1>3 DEF Good, Durable

\* SavePlayer: the snapshot is queued, or sent, or stored already.
LEMMA Saves ==
  ASSUME NEW s, NEW o \in Owner, NEW d \in Rows, Good(s, o, d), HasEntity(s),
         NEW skip \in BOOLEAN
  PROVE  LET t == SavePlayer(s, skip) IN
         /\ Step(s, t, o, d) /\ t.ent = s.ent /\ t.claim = s.claim
         /\ ~Busy(s.client) => ~t.client.pending.queued
<1> DEFINE u == [s EXCEPT !.client.epoch = s.ent.epoch]
           f == ~skip \/ s.ent.snapEpoch # s.ent.epoch
           p == [ver |-> s.ent.ver, release |-> s.ent.exiting, force |-> f]
           t == SavePlayer(s, skip)
<1>1. /\ Step(s, u, o, d) /\ u.ent = s.ent /\ u.claim = s.claim
      /\ u.client.phase = s.client.phase /\ u.client.pending = s.client.pending
  BY Adopts
<1>2. t = Submit(u, p)
  BY DEF SavePlayer
<1>3. f \in BOOLEAN
  OBVIOUS
<1> HIDE DEF f
<1>4. /\ p.ver = s.ent.ver /\ p.release = s.ent.exiting /\ p.force = f
      /\ p.ver \in Nat /\ p.release \in BOOLEAN /\ p.force \in BOOLEAN
  BY <1>3, Parts, EntityParts DEF Good
<1>5. Good(u, o, d) /\ HasEntity(u)
  BY <1>1 DEF Step, HasEntity
<1>6. Busy(u.client) <=> Busy(s.client)
  BY <1>1 DEF Busy
<1> HIDE DEF u, p, t
<1>7. CASE Busy(u.client)
  <2>1. t = [u EXCEPT !.client = Queue(@, p)]
    BY <1>2, <1>7 DEF Submit
  <2>2. Step(u, t, o, d) /\ t.ent = u.ent /\ t.claim = u.claim
    BY <2>1, <1>1, <1>4, <1>5, <1>7, Queues
  <2> QED BY <2>2, <1>1, <1>6, <1>7, Composes DEF t
<1>8. CASE ~Busy(u.client) /\ NothingToWrite(u.client, p)
  <2>1. t = Publish(u, p.ver)
    BY <1>2, <1>8 DEF Submit
  <2>2. p.ver <= d["log"]
    BY <1>4, <1>5, <1>8, Stored
  <2>3. Step(u, t, o, d) /\ t.ent = u.ent /\ t.claim = u.claim /\ t.client = u.client
    BY <2>1, <2>2, <1>4, <1>5, Publishes
  <2>4. ~t.client.pending.queued
    BY <2>3, <1>8 DEF Busy
  <2> QED BY <2>3, <2>4, <1>1, Composes DEF t
<1>9. CASE ~Busy(u.client) /\ ~NothingToWrite(u.client, p)
  <2>1. t = StartSave(u, p)
    BY <1>2, <1>9 DEF Submit
  <2>2. u.claim.phase = "none"
    BY <1>5 DEF Good, Settles
  <2>3. o.holder = u.id => Seeded(u, o, d) /\ d["log"] <= p.ver
    BY <1>1, <1>4, <1>5 DEF Good, ClientHolds, MemoryHolds, InUse
  <2>4. p.ver <= u.ent.ver
    BY <1>1, <1>4
  <2>5. /\ Step(u, t, o, d) /\ t.ent = u.ent /\ t.claim = u.claim
        /\ t.client.phase = "ready" /\ t.client.pending = u.client.pending
    BY <2>1, <2>2, <2>3, <2>4, <1>4, <1>5, <1>9, Starts
  <2>6. u.client.pending.queued = FALSE
    BY <1>9, <1>5, Parts, ClientParts DEF Busy, Good
  <2> QED BY <2>5, <2>6, <1>1, Composes DEF t
<1> QED BY <1>7, <1>8, <1>9

\* A client that is not used any more is dropped.
LEMMA Forgets ==
  ASSUME NEW s, NEW o \in Owner, NEW d \in Rows, Good(s, o, d), ~HasEntity(s),
         s.claim.phase # "loaded"
  PROVE  LET t == Forget(s) IN
         /\ Step(s, t, o, d) /\ t.ent = s.ent /\ t.claim = s.claim /\ t.enter = s.enter
         /\ Busy(t.client) <=> Busy(s.client)
<1> DEFINE t == [s EXCEPT !.client = NoClient]
<1>1. CASE Busy(s.client)
  BY <1>1, Stays DEF Forget, HasUnsettled
<1>2. CASE ~Busy(s.client)
  <2>1. Forget(s) = t
    BY <1>2 DEF Forget, HasUnsettled
  <2>2. /\ t \in NodeState /\ t.client = NoClient
        /\ t.id = s.id /\ t.ent = s.ent /\ t.claim = s.claim /\ t.enter = s.enter
        /\ t.lastSeq = s.lastSeq /\ t.behind = s.behind /\ t.published = s.published
    BY Blanks, SetClient DEF Good
  <2> HIDE DEF t
  <2>3. ~InUse(t) /\ ~HasEntity(t)
    BY <2>2, BlankClient DEF InUse, HasEntity
  <2>4. Ordered(t) /\ Settles(t)
    BY <2>2, <2>3, BlankClient DEF Ordered, Settles, Good
  <2>5. Durable(t, d)
    BY <2>2, BlankClient, RowParts DEF Durable, Good
  <2>6. ASSUME o.holder = t.id
        PROVE  ClientHolds(t, o, d) /\ MemoryHolds(t, o, d)
    BY <2>2, <2>3, <2>6, BlankClient DEF ClientHolds, MemoryHolds, Good
  <2>7. Step(s, t, o, d)
    BY <1>2, <2>2, <2>4, <2>5, <2>6, BlankClient DEF Step, Good, Keeps, Rests, Busy
  <2> QED BY <1>2, <2>1, <2>2, <2>7, BlankClient
<1> QED BY <1>1, <1>2

LEMMA Destroys ==
  ASSUME NEW s, NEW o \in Owner, NEW d \in Rows, Good(s, o, d), s.claim.phase # "loaded"
  PROVE  LET t == DestroyPlayer(s) IN
         /\ Step(s, t, o, d) /\ t.ent = NoEntity /\ t.claim = s.claim /\ t.enter = s.enter
         /\ Busy(t.client) <=> Busy(s.client)
<1> DEFINE u == [s EXCEPT !.ent = NoEntity]
<1>1. /\ u \in NodeState /\ u.ent = NoEntity
      /\ u.id = s.id /\ u.client = s.client /\ u.claim = s.claim /\ u.enter = s.enter
      /\ u.lastSeq = s.lastSeq /\ u.behind = s.behind /\ u.published = s.published
  BY Blanks, SetEnt DEF Good
<1>2. DestroyPlayer(s) = Forget(u)
  BY DEF DestroyPlayer
<1> HIDE DEF u
<1>3. ~HasEntity(u)
  BY <1>1 DEF HasEntity
<1>4. Durable(u, d)
  BY <1>1 DEF Good, Durable
<1>5. Step(s, u, o, d)
  BY <1>1, <1>3, <1>4, SameMemory
<1>6. Good(u, o, d)
  BY <1>5 DEF Step
<1>7. /\ Step(u, Forget(u), o, d) /\ Forget(u).ent = u.ent /\ Forget(u).claim = u.claim
      /\ Forget(u).enter = u.enter /\ (Busy(Forget(u).client) <=> Busy(u.client))
  BY <1>1, <1>3, <1>6, Forgets
<1> QED BY <1>1, <1>2, <1>5, <1>7, Composes

\* The client has settled: a claim that waited for it may be sent.
LEMMA Notifies ==
  ASSUME NEW s, NEW o \in Owner, NEW d \in Rows, Good(s, o, d),
         s.claim.phase \in {"none", "wait"}
  PROVE  LET t == NotifySettled(s) IN
         /\ Step(s, t, o, d) /\ t.ent = s.ent
         /\ Busy(t.client) <=> Busy(s.client)
<1> DEFINE u == IF HasEntity(s) THEN s ELSE Forget(s)
           t == NotifySettled(s)
<1>1. /\ Step(s, u, o, d) /\ u.ent = s.ent /\ u.claim = s.claim
      /\ Busy(u.client) <=> Busy(s.client)
  BY Forgets, Stays
<1>2. t = IF u.claim.phase = "wait" /\ ~HasUnsettled(u)
          THEN [u EXCEPT !.claim.phase = "ready"] ELSE u
  BY DEF NotifySettled
<1> HIDE DEF t, u
<1>3. CASE ~(u.claim.phase = "wait" /\ ~HasUnsettled(u))
  BY <1>1, <1>2, <1>3 DEF t
<1>4. CASE u.claim.phase = "wait" /\ ~HasUnsettled(u)
  <2> DEFINE c == [u.claim EXCEPT !.phase = "ready"]
  <2>1. u \in NodeState /\ u.claim \in Claim
    BY <1>1, Parts DEF Step, Good
  <2>2. c \in Claim /\ c.phase = "ready" /\ c.rows = u.claim.rows
    BY <2>1 DEF Claim
  <2>3. t = [u EXCEPT !.claim = c]
    BY <1>2, <1>4
  <2> HIDE DEF c
  <2>4. /\ t \in NodeState /\ t.claim = c
        /\ t.id = u.id /\ t.ent = u.ent /\ t.client = u.client /\ t.enter = u.enter
        /\ t.lastSeq = u.lastSeq /\ t.behind = u.behind /\ t.published = u.published
    BY <2>1, <2>2, <2>3, SetClaim
  <2>5. ~HasEntity(u) /\ ~Busy(u.client)
    BY <1>1, <1>4 DEF Step, Good, Settles, HasUnsettled
  <2>6. ~HasEntity(t) /\ ~Busy(t.client) /\ ~InUse(t)
    BY <2>2, <2>4, <2>5 DEF HasEntity, InUse
  <2>7. Ordered(t) /\ Settles(t)
    BY <2>4, <2>6, <1>1 DEF Ordered, Settles, Busy, Step, Good
  <2>8. Durable(t, d)
    BY <2>2, <2>4, <1>1 DEF Durable, Step, Good
  <2>9. ASSUME o.holder = t.id
        PROVE  ClientHolds(t, o, d) /\ MemoryHolds(t, o, d)
    BY <2>2, <2>4, <2>6 DEF ClientHolds, MemoryHolds, Busy
  <2>10. Step(u, t, o, d)
    BY <2>4, <2>7, <2>8, <2>9 DEF Step, Good, Keeps, Rests
  <2> QED BY <1>1, <2>4, <2>10, Composes DEF t
<1> QED BY <1>3, <1>4

\* The end of a save that is stored.  An entity that is leaving goes only if
\* the save was of its present state.
LEMMA SavedKeeps ==
  ASSUME NEW s, NEW o \in Owner, NEW d \in Rows, Good(s, o, d),
         s.claim.phase \in {"none", "wait"}, NEW v \in Nat, v <= d["log"]
  PROVE  LET t == Saved(s, v) IN
         /\ Step(s, t, o, d) /\ Kept(s, t, d) /\ t.claim = s.claim
         /\ ~Busy(s.client) => ~t.client.pending.queued
<1> DEFINE t == Saved(s, v)
<1>0. s \in NodeState /\ s.ent \in Entity /\ s.ent.exiting \in BOOLEAN /\ s.ent.rounds \in Nat
  BY Parts, EntityParts DEF Good
<1>1. CASE ~s.ent.exiting
  BY <1>1, Stays DEF Saved, Busy
<1>2. CASE s.ent.exiting /\ v = s.ent.ver
  <2>1. t = DestroyPlayer(s)
    BY <1>2 DEF Saved
  <2>2. /\ Step(s, t, o, d) /\ t.claim = s.claim
        /\ Busy(t.client) <=> Busy(s.client)
    BY <2>1, Destroys
  <2> QED BY <1>2, <2>2 DEF Kept, Busy
<1>3. CASE s.ent.exiting /\ v # s.ent.ver /\ s.ent.rounds < MaxResave
  <2> DEFINE e == [s.ent EXCEPT !.rounds = @ + 1]
             u == [s EXCEPT !.ent = e]
  <2>1. t = SavePlayer(u, TRUE)
    BY <1>3 DEF Saved
  <2>2. /\ e \in Entity /\ e.ver = s.ent.ver /\ e.exiting = s.ent.exiting
    BY <1>0 DEF Entity
  <2> HIDE DEF e
  <2>3. /\ u \in NodeState /\ u.ent = e
        /\ u.id = s.id /\ u.client = s.client /\ u.claim = s.claim /\ u.enter = s.enter
        /\ u.lastSeq = s.lastSeq /\ u.behind = s.behind /\ u.published = s.published
    BY <1>0, <2>2, SetEnt
  <2> HIDE DEF u
  <2>4. HasEntity(s) /\ HasEntity(u)
    BY <1>3, <2>2, <2>3, BlankClient DEF HasEntity
  <2>5. Durable(u, d)
    BY <2>3 DEF Good, Durable
  <2>6. s.ent.ver <= u.ent.ver
    BY <1>0, <2>2, <2>3, EntityParts
  <2>7. Step(s, u, o, d)
    BY <2>3, <2>4, <2>5, <2>6, SameMemory
  <2>8. Good(u, o, d)
    BY <2>7 DEF Step
  <2>9. /\ Step(u, t, o, d) /\ t.ent = u.ent /\ t.claim = u.claim
        /\ ~Busy(u.client) => ~t.client.pending.queued
    BY <2>1, <2>4, <2>8, Saves
  <2>10. Step(s, t, o, d)
    BY <2>7, <2>9, Composes
  <2> QED BY <2>2, <2>3, <2>9, <2>10 DEF Kept
<1>4. CASE s.ent.exiting /\ v # s.ent.ver /\ ~(s.ent.rounds < MaxResave)
  BY <1>4, Stays DEF Saved, Busy
<1> QED BY <1>1, <1>2, <1>3, <1>4

LEMMA SaveDoneKeeps ==
  ASSUME NEW s, NEW o \in Owner, NEW d \in Rows, Good(s, o, d),
         s.claim.phase \in {"none", "wait"}, NEW v \in Nat, v <= d["log"], NEW m \in Nat
  PROVE  LET t == SaveDone(s, v, m) IN
         /\ Step(s, t, o, d) /\ Kept(s, t, d) /\ t.claim = s.claim
         /\ ~Busy(s.client) => ~t.client.pending.queued
<1> DEFINE e == [s.ent EXCEPT !.snapEpoch = m]
           u == [s EXCEPT !.ent = e]
           t == SaveDone(s, v, m)
<1>1. CASE ~HasEntity(s)
  BY <1>1, Stays DEF SaveDone, Busy
<1>2. CASE HasEntity(s)
  <2>0. s \in NodeState /\ s.ent \in Entity
    BY Parts DEF Good
  <2>1. t = IF HasUnsettled(u) THEN u ELSE Saved(u, v)
    BY <1>2 DEF SaveDone
  <2>2. /\ e \in Entity /\ e.ver = s.ent.ver /\ e.exiting = s.ent.exiting
    BY <2>0 DEF Entity
  <2> HIDE DEF e
  <2>3. /\ u \in NodeState /\ u.ent = e
        /\ u.id = s.id /\ u.client = s.client /\ u.claim = s.claim /\ u.enter = s.enter
        /\ u.lastSeq = s.lastSeq /\ u.behind = s.behind /\ u.published = s.published
    BY <2>0, <2>2, SetEnt
  <2> HIDE DEF u
  <2>4. Durable(u, d)
    BY <2>3 DEF Good, Durable
  <2>5. s.ent.ver <= u.ent.ver
    BY <2>0, <2>2, <2>3, EntityParts
  <2>6. Step(s, u, o, d)
    BY <1>2, <2>3, <2>4, <2>5, SameMemory
  <2>7. Good(u, o, d)
    BY <2>6 DEF Step
  <2>8. CASE HasUnsettled(u)
    BY <2>1, <2>2, <2>3, <2>6, <2>8 DEF Kept, HasUnsettled
  <2>9. CASE ~HasUnsettled(u)
    <3>1. /\ Step(u, t, o, d) /\ Kept(u, t, d) /\ t.claim = u.claim
          /\ ~Busy(u.client) => ~t.client.pending.queued
      BY <2>1, <2>3, <2>7, <2>9, SavedKeeps
    <3>2. Step(s, t, o, d)
      BY <2>6, <3>1, Composes
    <3> QED BY <3>1, <3>2, <2>2, <2>3 DEF Kept
  <2> QED BY <2>8, <2>9
<1> QED BY <1>1, <1>2

\* The client takes its next step: the queued snapshot is sent, or what waits
\* for the client is told.
LEMMA Advances ==
  ASSUME NEW s, NEW o \in Owner, NEW d \in Rows, Good(s, o, d),
         s.claim.phase \in {"none", "wait"}
  PROVE  LET t == Advance(s) IN
         /\ Step(s, t, o, d) /\ Kept(s, t, d)
         /\ t.client.pending.queued => t.client.phase # "idle"
<1> DEFINE t == Advance(s)
<1>0. s \in NodeState /\ s.client \in Client /\ s.client.pending \in Pending
  BY Parts, ClientParts DEF Good
<1>1. CASE s.client.phase # "idle"
  BY <1>1, Stays DEF Advance
<1>2. CASE s.client.phase = "idle" /\ ~s.client.pending.queued
  <2>1. t = NotifySettled(s)
    BY <1>2 DEF Advance
  <2>2. Step(s, t, o, d) /\ t.ent = s.ent /\ (Busy(t.client) <=> Busy(s.client))
    BY <2>1, Notifies
  <2> QED BY <1>2, <2>2 DEF Busy, Kept
<1>3. CASE s.client.phase = "idle" /\ s.client.pending.queued
  <2> DEFINE p == s.client.pending
             e == [s.client EXCEPT !.pending = NoPending]
             u == [s EXCEPT !.client = e]
  <2>1. t = IF NothingToWrite(u.client, p)
            THEN NotifySettled(SaveDone(Publish(u, p.ver), p.ver, u.client.committedEpoch))
            ELSE StartSave(u, p)
    BY <1>3 DEF Advance
  <2>2. /\ e \in Client /\ e.inflight = s.client.inflight /\ e.phase = s.client.phase
        /\ e.pending = NoPending /\ e.confirmed = s.client.confirmed
        /\ e.uncertain = s.client.uncertain /\ e.answer = s.client.answer
    BY <1>0, Blanks DEF Client
  <2> HIDE DEF e
  <2>3. /\ u \in NodeState /\ u.client = e
        /\ u.id = s.id /\ u.ent = s.ent /\ u.claim = s.claim /\ u.enter = s.enter
        /\ u.lastSeq = s.lastSeq /\ u.behind = s.behind /\ u.published = s.published
    BY <1>0, <2>2, SetClient
  <2>4. /\ p.ver \in Nat /\ p.release \in BOOLEAN /\ u.client.committedEpoch \in Nat
    BY <1>0, <2>2, <2>3, ClientParts
  <2> HIDE DEF u
  <2>5. u.client.pending.queued = FALSE /\ ~Busy(u.client)
    BY <1>3, <2>2, <2>3 DEF NoPending, Busy
  <2>6. (HasEntity(u) <=> HasEntity(s)) /\ InUse(s)
    BY <1>3, <2>3 DEF HasEntity, InUse, Busy
  <2>7. Ordered(u) /\ Settles(u)
    BY <1>3, <2>2, <2>3, <2>5, <2>6 DEF Ordered, Settles, Good
  <2>8. Durable(u, d)
    BY <2>2, <2>3 DEF Durable, Good
  <2>9. ASSUME o.holder = u.id
        PROVE  ClientHolds(u, o, d) /\ MemoryHolds(u, o, d) /\ Seeded(u, o, d)
               /\ d["log"] <= p.ver
    <3>1. ClientHolds(s, o, d) /\ MemoryHolds(s, o, d)
      BY <2>3, <2>9 DEF Good
    <3>2. Seeded(u, o, d)
      BY <3>1, <2>2, <2>3, <2>6 DEF ClientHolds, Seeded, Fits
    <3>3. ClientHolds(u, o, d)
      BY <1>3, <3>2, <2>2, <2>3 DEF ClientHolds
    <3>4. MemoryHolds(u, o, d) /\ d["log"] <= p.ver
      BY <1>3, <3>1, <2>3, <2>5, <2>6 DEF MemoryHolds
    <3> QED BY <3>2, <3>3, <3>4
  <2>10. Step(s, u, o, d) /\ Good(u, o, d)
    BY <1>3, <2>2, <2>3, <2>5, <2>7, <2>8, <2>9 DEF Step, Good, Keeps, Rests
  <2>11. CASE NothingToWrite(u.client, p)
    <3> DEFINE v == Publish(u, p.ver)
               w == SaveDone(v, p.ver, u.client.committedEpoch)
    <3>1. p.ver <= d["log"]
      BY <2>4, <2>10, <2>11, Stored
    <3>2. /\ Step(u, v, o, d) /\ v.client = u.client /\ v.ent = u.ent /\ v.claim = u.claim
      BY <3>1, <2>4, <2>10, Publishes
    <3> HIDE DEF v
    <3>3. Good(v, o, d)
      BY <3>2 DEF Step
    <3>4. v.claim.phase \in {"none", "wait"} /\ ~Busy(v.client)
      BY <3>2, <2>3, <2>5
    <3>5. /\ Step(v, w, o, d) /\ Kept(v, w, d) /\ w.claim = v.claim
          /\ ~w.client.pending.queued
      BY <3>1, <3>3, <3>4, <2>4, SaveDoneKeeps
    <3> HIDE DEF w
    <3>6. Good(w, o, d) /\ w.claim.phase \in {"none", "wait"}
      BY <3>4, <3>5 DEF Step
    <3>7. t = NotifySettled(w)
      BY <2>1, <2>11 DEF v, w
    <3>8. Step(w, t, o, d) /\ t.ent = w.ent /\ (Busy(t.client) <=> Busy(w.client))
      BY <3>6, <3>7, Notifies
    <3>9. Step(s, t, o, d)
      BY <2>10, <3>2, <3>5, <3>8, Composes
    <3>10. Kept(s, t, d)
      BY <2>3, <3>2, <3>5, <3>8 DEF Kept
    <3>11. t.client.pending.queued => t.client.phase # "idle"
      <4>1. CASE w.client.phase = "idle"
        BY <4>1, <3>5, <3>8 DEF Busy
      <4>2. CASE w.client.phase # "idle"
        BY <4>2, <3>8 DEF Step, Keeps
      <4> QED BY <4>1, <4>2
    <3> QED BY <3>9, <3>10, <3>11
  <2>12. CASE ~NothingToWrite(u.client, p)
    <3>1. t = StartSave(u, p)
      BY <2>1, <2>12
    <3>2. HasEntity(u) => p.ver <= u.ent.ver
      BY <1>3, <2>3, <2>6 DEF Good, Ordered
    <3>3. /\ Step(u, t, o, d) /\ t.ent = u.ent /\ t.client.phase = "ready"
      BY <3>1, <3>2, <2>3, <2>4, <2>5, <2>9, <2>10, Starts
    <3>4. Step(s, t, o, d)
      BY <2>10, <3>3, Composes
    <3> QED BY <3>3, <3>4, <2>3 DEF Kept
  <2> QED BY <2>11, <2>12
<1> QED BY <1>1, <1>2, <1>3

\* The request of a client has ended and its idea of the rows still fits.
LEMMA Ends ==
  ASSUME NEW s, NEW o \in Owner, NEW d \in Rows, Good(s, o, d), s.client.phase # "idle",
         NEW c \in Client, c.phase = "idle", c.pending \in {s.client.pending, NoPending},
         c.confirmed["log"] <= d["log"], o.holder = s.id => Fits(c, d)
  PROVE  LET t == [s EXCEPT !.client = c] IN
         /\ Good(t, o, d) /\ t.claim.phase \in {"none", "wait"}
         /\ t.id = s.id /\ t.ent = s.ent /\ t.client = c
<1> DEFINE t == [s EXCEPT !.client = c]
<1>1. /\ t \in NodeState /\ t.client = c
      /\ t.id = s.id /\ t.ent = s.ent /\ t.claim = s.claim /\ t.enter = s.enter
      /\ t.lastSeq = s.lastSeq /\ t.behind = s.behind /\ t.published = s.published
  BY SetClient DEF Good
<1> HIDE DEF t
<1>2. Busy(s.client) /\ InUse(s) /\ (HasEntity(t) <=> HasEntity(s))
  BY <1>1 DEF Busy, InUse, HasEntity
<1>3. s.claim.phase \in {"none", "wait"}
  BY <1>2, Parts, ClaimParts DEF Good, Settles
<1>4. NoPending.queued = FALSE
  BY DEF NoPending
<1>5. Ordered(t) /\ Settles(t)
  BY <1>1, <1>2, <1>3, <1>4 DEF Ordered, Settles, Good
<1>6. Durable(t, d)
  BY <1>1 DEF Durable, Good
<1>7. ASSUME o.holder = t.id
      PROVE  ClientHolds(t, o, d) /\ MemoryHolds(t, o, d)
  <2>1. ClientHolds(s, o, d) /\ MemoryHolds(s, o, d)
    BY <1>1, <1>7 DEF Good
  <2>2. ClientHolds(t, o, d)
    BY <2>1, <1>1, <1>2, <1>7 DEF ClientHolds, Seeded
  <2>3. MemoryHolds(t, o, d)
    BY <2>1, <1>1, <1>2, <1>3, <1>4 DEF MemoryHolds
  <2> QED BY <2>2, <2>3
<1>8. Good(t, o, d)
  BY <1>1, <1>5, <1>6, <1>7 DEF Good
<1> QED BY <1>1, <1>3, <1>8 DEF t

\* The state after the answer to a save was handled.
AfterAnswer(s, t, o, d) == Good(t, o, d) /\ t.id = s.id /\ Rests(t)

LEMMA CommittedGood ==
  ASSUME NEW s, NEW o \in Owner, NEW d \in Rows, Good(s, o, d),
         s.client.phase = "answered", s.client.answer \in Done
  PROVE  AfterAnswer(s, Committed(s), o, d) /\ Kept(s, Committed(s), d)
<1> DEFINE c == s.client
           r == c.inflight
           f == [k \in Kinds |-> IF k \in r.kinds THEN Payload(r.ver)[k] ELSE c.confirmed[k]]
           e == [Ended(c) EXCEPT !.confirmed = f, !.uncertain = @ \ r.kinds,
                                 !.releaseCommitted = r.release, !.committedEpoch = r.epoch]
           u == [s EXCEPT !.client = e]
           v == Publish(u, r.ver)
           w == SaveDone(v, r.ver, r.epoch)
           t == Committed(s)
<1>0. /\ s \in NodeState /\ c \in Client /\ r \in Request /\ d["log"] \in Nat
      /\ c.confirmed \in Rows /\ c.uncertain \in SUBSET Kinds
      /\ r.ver \in Nat /\ r.epoch \in Nat /\ r.release \in BOOLEAN /\ r.kinds \in SUBSET Kinds
  BY Parts, ClientParts, RequestParts, RowParts DEF Good
<1>1. /\ f \in Rows
      /\ \A k \in Kinds : f[k] = IF k \in r.kinds THEN Payload(r.ver)[k] ELSE c.confirmed[k]
  BY <1>0, PayloadRows DEF Rows
<1>2. /\ Ended(c) \in Client
      /\ Ended(c) = [c EXCEPT !.inflight = NoRequest, !.phase = "idle", !.answer = "none",
                               !.rowSeq = 0]
  BY <1>0, Blanks DEF Ended, Client, Answers
<1>3. Ended(c).uncertain = c.uncertain
  BY <1>0, <1>2 DEF Client
<1>4. t = Advance(w)
  <2>1. e = [Ended(c) EXCEPT
               !.confirmed = [k \in Kinds |-> IF k \in r.kinds THEN Payload(r.ver)[k] ELSE @[k]],
               !.uncertain = @ \ r.kinds,
               !.releaseCommitted = r.release,
               !.committedEpoch = r.epoch]
    <3>1. Ended(c).confirmed = c.confirmed
      BY <1>0, <1>2 DEF Client
    <3> QED BY <3>1
  <2> QED BY <2>1 DEF Committed
<1> HIDE DEF f
<1>5. /\ e \in Client /\ e.phase = "idle" /\ e.answer = "none" /\ e.pending = c.pending
      /\ e.confirmed = f /\ e.uncertain = c.uncertain \ r.kinds
  <2> DEFINE h == Ended(c)
  <2>1. /\ h \in Client /\ h.phase = "idle" /\ h.answer = "none" /\ h.pending = c.pending
        /\ h.uncertain = c.uncertain
    BY <1>0, <1>2 DEF Client
  <2>2. e = [h EXCEPT !.confirmed = f, !.uncertain = c.uncertain \ r.kinds,
                      !.releaseCommitted = r.release, !.committedEpoch = r.epoch]
    BY <1>3
  <2> HIDE DEF h, e
  <2> QED BY <2>1, <2>2, <1>0, <1>1 DEF Client
<1> HIDE DEF e
<1>6. r.ver <= d["log"] /\ c.confirmed["log"] <= d["log"]
  BY DEF Good, Durable
<1>7. f["log"] <= d["log"]
  BY <1>0, <1>1, <1>6, PayloadRows DEF Kinds
<1>8. o.holder = s.id => Fits(e, d)
  <2>1. SUFFICES ASSUME o.holder = s.id PROVE Fits(e, d)
    OBVIOUS
  <2>2. InUse(s)
    BY DEF InUse, Busy
  <2>3. Fits(c, d) /\ Sound(r, o, d) /\ o.seq = r.seq
    BY <2>1, <2>2 DEF Good, ClientHolds, Seeded
  <2>4. d = Payload(r.ver)
    BY <2>3, <1>0, RequestParts DEF Sound
  <2> QED BY <2>3, <2>4, <1>1, <1>5 DEF Fits
<1>9. /\ Good(u, o, d) /\ u.claim.phase \in {"none", "wait"} /\ u.id = s.id /\ u.ent = s.ent
      /\ u.client = e
  BY <1>5, <1>7, <1>8, Ends
<1> HIDE DEF u
<1>10. Step(u, v, o, d) /\ v.claim = u.claim /\ v.ent = u.ent
  BY <1>0, <1>6, <1>9, Publishes
<1> HIDE DEF v
<1>11. Good(v, o, d) /\ v.claim.phase \in {"none", "wait"}
  BY <1>9, <1>10 DEF Step
<1>12. Step(v, w, o, d) /\ Kept(v, w, d) /\ w.claim = v.claim
  BY <1>0, <1>6, <1>11, SaveDoneKeeps
<1> HIDE DEF w
<1>13. Good(w, o, d) /\ w.claim.phase \in {"none", "wait"}
  BY <1>11, <1>12 DEF Step
<1>14. Step(w, t, o, d) /\ Kept(w, t, d) /\ (t.client.pending.queued => t.client.phase # "idle")
  BY <1>4, <1>13, Advances
<1>15. Step(u, t, o, d)
  BY <1>10, <1>12, <1>14, Composes
<1>16. t.client.answer = "none"
  BY <1>15, <1>9, <1>5 DEF Step, Keeps
<1>17. Kept(s, t, d)
  BY <1>9, <1>10, <1>12, <1>14 DEF Kept
<1> QED BY <1>9, <1>14, <1>15, <1>16, <1>17 DEF AfterAnswer, Step, Rests

\* A client whose request was not taken is unsure of the rows it sent.
LEMMA Unsure ==
  ASSUME NEW s, NEW o \in Owner, NEW d \in Rows, Good(s, o, d), s.client.phase = "answered",
         NEW e \in Client, e.phase = "idle", e.answer = "none",
         e.pending \in {s.client.pending, NoPending}, e.confirmed = s.client.confirmed,
         e.uncertain = s.client.uncertain \cup s.client.inflight.kinds
  PROVE  LET u == [s EXCEPT !.client = e]
         IN /\ Good(u, o, d) /\ u.claim.phase \in {"none", "wait"}
            /\ u.id = s.id /\ u.ent = s.ent /\ u.client.answer = "none"
<1>1. e.confirmed["log"] <= d["log"]
  BY DEF Good, Durable
<1>2. o.holder = s.id => Fits(e, d)
  <2>1. InUse(s)
    BY DEF InUse, Busy
  <2> QED BY <2>1 DEF Fits, Good, ClientHolds, Seeded
<1> QED BY <1>1, <1>2, Ends

\* The client after its request has ended.
LEMMA EndedParts ==
  ASSUME NEW c \in Client
  PROVE  LET h == Ended(c) IN
         /\ h \in Client /\ h.phase = "idle" /\ h.answer = "none" /\ h.pending = c.pending
         /\ h.uncertain = c.uncertain /\ h.confirmed = c.confirmed
BY Blanks DEF Ended, Client, Answers

\* The last step of each answer.
LEMMA Concludes ==
  ASSUME NEW s, NEW u, NEW w, NEW o \in Owner, NEW d \in Rows, Step(u, w, o, d), u.id = s.id,
         u.client.answer = "none", w.claim.phase \in {"none", "wait"}
  PROVE  AfterAnswer(s, Advance(w), o, d)
<1>1. Good(w, o, d)
  BY DEF Step
<1>2. /\ Step(w, Advance(w), o, d)
      /\ Advance(w).client.pending.queued => Advance(w).client.phase # "idle"
  BY <1>1, Advances
<1>3. Step(u, Advance(w), o, d)
  BY <1>2, Composes
<1> QED BY <1>2, <1>3 DEF AfterAnswer, Step, Keeps, Rests

LEMMA RejectedGood ==
  ASSUME NEW s, NEW o \in Owner, NEW d \in Rows, Good(s, o, d), s.client.phase = "answered"
  PROVE  AfterAnswer(s, OwnerRejected(s), o, d)
<1> DEFINE c == s.client
           r == c.inflight
           h == Ended(c)
           e == [h EXCEPT !.uncertain = @ \cup r.kinds,
                          !.pending = IF c.epoch = r.epoch THEN NoPending ELSE @]
           u == [s EXCEPT !.client = e]
           w == IF ~HasEntity(u) THEN u
                ELSE IF u.ent.epoch # r.epoch THEN SavePlayer(u, TRUE)
                ELSE DestroyPlayer(u)
<1>1. OwnerRejected(s) = Advance(w)
  BY DEF OwnerRejected
<1>2. /\ e \in Client /\ e.phase = "idle" /\ e.answer = "none"
      /\ e.pending \in {c.pending, NoPending} /\ e.confirmed = c.confirmed
      /\ e.uncertain = c.uncertain \cup r.kinds
  <2>1. c \in Client /\ r.kinds \in SUBSET Kinds /\ c.pending \in Pending
    BY Parts, ClientParts, RequestParts DEF Good
  <2>2. /\ h \in Client /\ h.phase = "idle" /\ h.answer = "none" /\ h.pending = c.pending
        /\ h.uncertain = c.uncertain /\ h.confirmed = c.confirmed
    BY <2>1, EndedParts
  <2> HIDE DEF h
  <2>3. h.uncertain \cup r.kinds \in SUBSET Kinds
    BY <2>1, <2>2, ClientParts
  <2> QED BY <2>1, <2>2, <2>3, Blanks DEF Client
<1> HIDE DEF e
<1>3. /\ Good(u, o, d) /\ u.claim.phase \in {"none", "wait"} /\ u.id = s.id
      /\ u.client.answer = "none"
  BY <1>2, Unsure
<1> HIDE DEF u
<1>4. Step(u, w, o, d) /\ w.claim.phase \in {"none", "wait"}
  <2>1. CASE ~HasEntity(u)
    BY <2>1, <1>3, Stays
  <2>2. CASE HasEntity(u) /\ u.ent.epoch # r.epoch
    BY <2>2, <1>3, Saves
  <2>3. CASE HasEntity(u) /\ u.ent.epoch = r.epoch
    BY <2>3, <1>3, Destroys
  <2> QED BY <2>1, <2>2, <2>3
<1> HIDE DEF w
<1> QED BY <1>1, <1>3, <1>4, Concludes

LEMMA RefusedGood ==
  ASSUME NEW s, NEW o \in Owner, NEW d \in Rows, Good(s, o, d), s.client.phase = "answered"
  PROVE  AfterAnswer(s, Refused(s), o, d)
<1> DEFINE c == s.client
           h == Ended(c)
           e == [h EXCEPT !.uncertain = @ \cup c.inflight.kinds]
           u == [s EXCEPT !.client = e]
           w == IF u.ent.exiting /\ ~HasUnsettled(u) THEN DestroyPlayer(u) ELSE u
<1>1. Refused(s) = Advance(w)
  BY DEF Refused
<1>2. /\ e \in Client /\ e.phase = "idle" /\ e.answer = "none"
      /\ e.pending = c.pending /\ e.confirmed = c.confirmed
      /\ e.uncertain = c.uncertain \cup c.inflight.kinds
  <2>1. c \in Client /\ c.inflight.kinds \in SUBSET Kinds
    BY Parts, ClientParts, RequestParts DEF Good
  <2>2. /\ h \in Client /\ h.phase = "idle" /\ h.answer = "none" /\ h.pending = c.pending
        /\ h.uncertain = c.uncertain /\ h.confirmed = c.confirmed
    BY <2>1, EndedParts
  <2> HIDE DEF h
  <2>3. h.uncertain \cup c.inflight.kinds \in SUBSET Kinds
    BY <2>1, <2>2, ClientParts
  <2> QED BY <2>1, <2>2, <2>3 DEF Client
<1> HIDE DEF e
<1>3. /\ Good(u, o, d) /\ u.claim.phase \in {"none", "wait"} /\ u.id = s.id
      /\ u.client.answer = "none"
  BY <1>2, Unsure
<1> HIDE DEF u
<1>4. Step(u, w, o, d) /\ w.claim.phase \in {"none", "wait"}
  BY <1>3, Stays, Destroys
<1> HIDE DEF w
<1> QED BY <1>1, <1>3, <1>4, Concludes

\* A save is refused as older only without an entity: nothing is saved again.
LEMMA OlderGood ==
  ASSUME NEW s, NEW o \in Owner, NEW d \in Rows, Good(s, o, d), s.client.phase = "answered",
         s.client.answer = "OLDER_SEQ", Rests(s)
  PROVE  AfterAnswer(s, OlderSeq(s), o, d)
<1> DEFINE e == [Ended(s.client) EXCEPT !.uncertain = @ \cup s.client.inflight.kinds]
           u == [s EXCEPT !.client = e]
<1>1. s \in NodeState /\ s.lastSeq \in Nat /\ s.client \in Client
  BY Parts DEF Good
<1>2. ~HasEntity(s)
  BY <1>1 DEF Rests, Good, Ordered
<1>3. u.ent = s.ent
  BY <1>1 DEF NodeState
<1>4. ~HasEntity(u) /\ ~u.ent.exiting
  BY <1>2, <1>3, BlankClient DEF HasEntity
<1>5. OlderSeq(s) = Advance(u) /\ Refused(s) = Advance(u)
  BY <1>4 DEF OlderSeq, Refused
<1> QED BY <1>5, RefusedGood

\* HandleSaveResponse.
LEMMA AnswerGood ==
  ASSUME NEW s, NEW o \in Owner, NEW d \in Rows, Good(s, o, d), s.client.phase = "answered",
         Rests(s)
  PROVE  LET t == HandleSaveResponse(s) IN
         /\ AfterAnswer(s, t, o, d)
         /\ s.client.answer \in Done => Kept(s, t, d)
<1>1. CASE s.client.answer \in {"COMMITTED", "EQUAL"}
  <2>1. HandleSaveResponse(s) = Committed(s)
    BY <1>1 DEF HandleSaveResponse
  <2> QED BY <1>1, <2>1, CommittedGood DEF Done
<1>2. CASE s.client.answer \in {"STALE_OWNER", "NOT_HOLDER", "UNCLAIMED"}
  <2>1. HandleSaveResponse(s) = OwnerRejected(s) /\ s.client.answer \notin Done
    BY <1>2 DEF HandleSaveResponse, Done
  <2> QED BY <2>1, RejectedGood
<1>3. CASE s.client.answer = "OLDER_SEQ"
  <2>1. HandleSaveResponse(s) = OlderSeq(s) /\ s.client.answer \notin Done
    BY <1>3 DEF HandleSaveResponse, Done
  <2> QED BY <1>3, <2>1, OlderGood
<1>4. CASE s.client.answer \notin {"COMMITTED", "EQUAL", "STALE_OWNER", "NOT_HOLDER",
                                  "UNCLAIMED", "OLDER_SEQ"}
  <2>1. HandleSaveResponse(s) = Refused(s) /\ s.client.answer \notin Done
    BY <1>4 DEF HandleSaveResponse, Done
  <2> QED BY <2>1, RefusedGood
<1> QED BY <1>1, <1>2, <1>3, <1>4

\* The claim of a node changes.
LEMMA NewClaim ==
  ASSUME NEW s, NEW o \in Owner, NEW d \in Rows, Good(s, o, d), NEW c \in Claim,
         c.phase # "loaded", c.phase # "none" => ~HasEntity(s),
         c.phase \in {"ready", "answered"} => ~Busy(s.client), c.rows["log"] <= d["log"],
         o.holder = s.id /\ c.phase = "answered" /\ c.answer = "CLAIMED" =>
           c.rows = d /\ c.seq = o.seq
  PROVE  LET t == [s EXCEPT !.claim = c] IN
         Step(s, t, o, d) /\ t.ent = s.ent /\ t.claim = c /\ t.client = s.client
<1> DEFINE t == [s EXCEPT !.claim = c]
<1>1. /\ t \in NodeState /\ t.claim = c
      /\ t.id = s.id /\ t.ent = s.ent /\ t.client = s.client /\ t.enter = s.enter
      /\ t.lastSeq = s.lastSeq /\ t.behind = s.behind /\ t.published = s.published
  BY SetClaim DEF Good
<1> HIDE DEF t
<1>2. (HasEntity(t) <=> HasEntity(s)) /\ (InUse(t) => InUse(s))
  BY <1>1 DEF HasEntity, InUse
<1>3. Ordered(t) /\ Settles(t) /\ Durable(t, d)
  BY <1>1, <1>2 DEF Good, Ordered, Settles, Durable
<1>4. ASSUME o.holder = t.id
      PROVE  ClientHolds(t, o, d) /\ MemoryHolds(t, o, d)
  <2>1. ClientHolds(s, o, d) /\ MemoryHolds(s, o, d)
    BY <1>1, <1>4 DEF Good
  <2>2. ClientHolds(t, o, d)
    BY <2>1, <1>1, <1>2 DEF ClientHolds, Seeded
  <2>3. MemoryHolds(t, o, d)
    BY <2>1, <1>1, <1>2, <1>4 DEF MemoryHolds
  <2> QED BY <2>2, <2>3
<1>5. Step(s, t, o, d)
  BY <1>1, <1>3, <1>4 DEF Step, Good, Keeps, Rests
<1> QED BY <1>1, <1>5 DEF t

\* The enter a node works on changes.
LEMMA NewEnter ==
  ASSUME NEW s, NEW o \in Owner, NEW d \in Rows, Good(s, o, d), NEW e \in Nat
  PROVE  LET t == [s EXCEPT !.enter = e] IN
         Step(s, t, o, d) /\ t.ent = s.ent /\ t.claim = s.claim /\ t.client = s.client
<1> DEFINE t == [s EXCEPT !.enter = e]
<1>1. /\ t \in NodeState /\ t.enter = e
      /\ t.id = s.id /\ t.ent = s.ent /\ t.client = s.client /\ t.claim = s.claim
      /\ t.published = s.published /\ t.lastSeq = s.lastSeq /\ t.behind = s.behind
  BY SetEnter DEF Good
<1> HIDE DEF t
<1>2. Durable(t, d)
  BY <1>1 DEF Good, Durable
<1>3. HasEntity(t) => HasEntity(s) /\ s.ent.ver <= t.ent.ver
  BY <1>1, Parts, EntityParts DEF HasEntity, Good
<1>4. Step(s, t, o, d)
  BY <1>1, <1>2, <1>3, SameMemory
<1> QED BY <1>1, <1>4 DEF t

\* The entity changes in place: its version does not fall.
LEMMA NewEnt ==
  ASSUME NEW s, NEW o \in Owner, NEW d \in Rows, Good(s, o, d), HasEntity(s), NEW e \in Entity,
         s.ent.ver <= e.ver
  PROVE  LET t == [s EXCEPT !.ent = e] IN
         Step(s, t, o, d) /\ t.ent = e /\ t.claim = s.claim /\ t.client = s.client
<1> DEFINE t == [s EXCEPT !.ent = e]
<1>1. /\ t \in NodeState /\ t.ent = e
      /\ t.id = s.id /\ t.client = s.client /\ t.claim = s.claim /\ t.enter = s.enter
      /\ t.lastSeq = s.lastSeq /\ t.behind = s.behind /\ t.published = s.published
  BY SetEnt DEF Good
<1> HIDE DEF t
<1>2. Durable(t, d)
  BY <1>1 DEF Good, Durable
<1>3. Step(s, t, o, d)
  BY <1>1, <1>2, SameMemory
<1> QED BY <1>1, <1>3 DEF t

LEMMA Requests ==
  ASSUME NEW s, NEW o \in Owner, NEW d \in Rows, Good(s, o, d), ~HasEntity(s)
  PROVE  Step(s, RequestClaim(s), o, d)
<1> DEFINE c == [NoClaim EXCEPT !.phase = IF HasUnsettled(s) THEN "wait" ELSE "ready"]
           t == RequestClaim(s)
<1>1. CASE s.claim.phase \notin {"none", "loaded"}
  BY <1>1, Stays DEF RequestClaim
<1>2. CASE s.claim.phase \in {"none", "loaded"}
  <2>1. t = [s EXCEPT !.claim = c]
    BY <1>2 DEF RequestClaim
  <2>2. /\ c \in Claim /\ c.phase = IF HasUnsettled(s) THEN "wait" ELSE "ready"
        /\ c.rows = NoClaim.rows
    BY Blanks DEF Claim
  <2> HIDE DEF c
  <2>3. c.rows["log"] <= d["log"]
    BY <2>2, BlankClient, RowParts
  <2>4. c.phase = "ready" => ~Busy(s.client)
    BY <2>2 DEF HasUnsettled
  <2>5. c.phase # "loaded" /\ c.phase # "answered"
    BY <2>2
  <2>6. c \in Claim
    BY <2>2
  <2>7. Step(s, [s EXCEPT !.claim = c], o, d)
    BY <2>3, <2>4, <2>5, <2>6, NewClaim
  <2> QED BY <2>1, <2>7
<1> QED BY <1>1, <1>2

LEMMA FailsLoad ==
  ASSUME NEW s, NEW o \in Owner, NEW d \in Rows, Good(s, o, d)
  PROVE  Step(s, LoadFailed(s), o, d)
<1> DEFINE u == [s EXCEPT !.enter = 0]
           v == [u EXCEPT !.claim = NoClaim]
<1>1. LoadFailed(s) = IF HasEntity(v) THEN v ELSE Forget(v)
  BY DEF LoadFailed
<1>2. Step(s, u, o, d)
  BY NewEnter
<1> HIDE DEF u
<1>3. Good(u, o, d) /\ NoClaim.rows["log"] <= d["log"]
  BY <1>2, BlankClient, RowParts DEF Step
<1>4. Step(u, v, o, d) /\ v.claim = NoClaim
  BY <1>3, BlankClient, Blanks, NewClaim
<1> HIDE DEF v
<1>5. Good(v, o, d) /\ v.claim.phase # "loaded"
  BY <1>4, BlankClient DEF Step
<1>6. Step(v, LoadFailed(s), o, d)
  BY <1>1, <1>5, Forgets, Stays
<1> QED BY <1>2, <1>4, <1>6, Composes

\* The answer to a claim that was granted: the client is seeded with the rows
\* the claim found.
LEMMA ClaimedGood ==
  ASSUME NEW s, NEW o \in Owner, NEW d \in Rows, Good(s, o, d), s.claim.phase = "answered",
         s.claim.answer = "CLAIMED", Rests(s)
  PROVE  Step(s, Claimed(s), o, d)
<1> DEFINE c == [NoClient EXCEPT !.epoch = s.claim.epoch, !.confirmed = s.claim.rows,
                                 !.committedEpoch = s.claim.epoch]
           u == [s EXCEPT !.client = c]
           a == [u.claim EXCEPT !.phase = "loaded"]
           t == [u EXCEPT !.claim = a]
<1>0. /\ s \in NodeState /\ s.claim \in Claim /\ s.claim.epoch \in Nat /\ s.claim.rows \in Rows
  BY Parts, ClaimParts DEF Good
<1>1. Claimed(s) = IF u.enter = 0 THEN LoadFailed(u) ELSE t
  BY DEF Claimed
<1>3. /\ c \in Client /\ c.confirmed = s.claim.rows /\ c.phase = "idle"
      /\ c.pending = NoClient.pending /\ c.answer = "none"
  BY <1>0, Blanks, BlankClient DEF Client
<1> HIDE DEF c
<1>4. c.pending.queued = FALSE /\ ~Busy(c)
  BY <1>3, BlankClient DEF Busy
<1>5. /\ u \in NodeState /\ u.client = c
      /\ u.id = s.id /\ u.ent = s.ent /\ u.claim = s.claim /\ u.enter = s.enter
      /\ u.lastSeq = s.lastSeq /\ u.behind = s.behind /\ u.published = s.published
  BY <1>0, <1>3, SetClient
<1> HIDE DEF u
<1>6. ~Busy(s.client) /\ ~HasEntity(s)
  BY DEF Good, Settles
<1>7. ~HasEntity(u) /\ ~InUse(u)
  BY <1>4, <1>5, <1>6 DEF HasEntity, InUse
<1>8. Ordered(u) /\ Settles(u)
  BY <1>3, <1>4, <1>5, <1>7 DEF Ordered, Settles, Good
<1>9. Durable(u, d)
  BY <1>3, <1>5 DEF Durable, Good
<1>10. ASSUME o.holder = u.id
       PROVE  /\ ClientHolds(u, o, d) /\ MemoryHolds(u, o, d) /\ Fits(u.client, d)
              /\ u.claim.rows = d /\ u.claim.seq = o.seq
  <2>1. s.claim.rows = d /\ s.claim.seq = o.seq
    BY <1>5, <1>10 DEF Good, MemoryHolds
  <2>2. Fits(u.client, d)
    BY <2>1, <1>3, <1>5 DEF Fits
  <2>3. ClientHolds(u, o, d)
    BY <1>3, <1>5, <1>7 DEF ClientHolds
  <2>4. MemoryHolds(u, o, d)
    BY <2>1, <1>4, <1>5, <1>7 DEF MemoryHolds
  <2> QED BY <2>1, <2>2, <2>3, <2>4, <1>5
<1>11. Good(u, o, d)
  BY <1>5, <1>8, <1>9, <1>10 DEF Good
<1>12. Step(s, u, o, d)
  BY <1>3, <1>4, <1>5, <1>6, <1>11 DEF Step, Keeps, Rests, Busy
<1>13. CASE u.enter = 0
  BY <1>1, <1>11, <1>12, <1>13, FailsLoad, Composes
<1>14. CASE u.enter # 0
  <2>1. a \in Claim /\ a.phase = "loaded" /\ a.rows = u.claim.rows /\ a.seq = u.claim.seq
    BY <1>0, <1>5 DEF Claim
  <2> HIDE DEF a
  <2>2. /\ t \in NodeState /\ t.claim = a
        /\ t.id = u.id /\ t.ent = u.ent /\ t.client = u.client /\ t.enter = u.enter
        /\ t.lastSeq = u.lastSeq /\ t.behind = u.behind /\ t.published = u.published
    BY <1>5, <2>1, SetClaim
  <2> HIDE DEF t
  <2>3. ~HasEntity(t) /\ ~Busy(t.client)
    BY <1>4, <1>5, <1>7, <2>2 DEF HasEntity
  <2>4. Ordered(t) /\ Settles(t)
    BY <1>8, <2>2, <2>3 DEF Ordered, Settles, Busy
  <2>5. Durable(t, d)
    BY <2>1, <2>2, <1>9 DEF Durable
  <2>6. ASSUME o.holder = t.id
        PROVE  ClientHolds(t, o, d) /\ MemoryHolds(t, o, d)
    <3>1. Fits(u.client, d) /\ u.claim.rows = d /\ u.claim.seq = o.seq
      BY <1>10, <2>2, <2>6
    <3>2. ClientHolds(t, o, d)
      BY <2>3 DEF ClientHolds, InUse, Busy
    <3>3. MemoryHolds(t, o, d)
      BY <3>1, <2>1, <2>2, <2>3 DEF MemoryHolds, Busy
    <3> QED BY <3>2, <3>3
  <2>7. Step(u, t, o, d)
    BY <2>2, <2>4, <2>5, <2>6 DEF Step, Good, Keeps, Rests
  <2> QED BY <1>1, <1>12, <1>14, <2>7, Composes
<1> QED BY <1>13, <1>14

\* HandleEnterGameNode: an entity adopts the epoch, or is discarded and, like
\* none, loaded by a new claim.
LEMMA EntersGood ==
  ASSUME NEW s, NEW o \in Owner, NEW d \in Rows, Good(s, o, d), NEW m \in Nat, m # 0
  PROVE  Step(s, HandleEnterGameNode(s, m), o, d)
<1> DEFINE t == DiscardDeposedEntityOnReentry(s, m)
<1>1. Step(s, t, o, d)
  <2>1. CASE HasEntity(s) /\ IsDeposedOnReentry(s.ent.epoch, m)
    <3>1. s.claim.phase # "loaded"
      BY <2>1 DEF Good, Settles
    <3> QED BY <2>1, <3>1, Destroys DEF DiscardDeposedEntityOnReentry
  <2>2. CASE ~(HasEntity(s) /\ IsDeposedOnReentry(s.ent.epoch, m))
    BY <2>2, Stays DEF DiscardDeposedEntityOnReentry
  <2> QED BY <2>1, <2>2
<1>2. HandleEnterGameNode(s, m) =
        IF HasEntity(t) THEN EnterScene(t, m) ELSE RequestClaim([t EXCEPT !.enter = m])
  BY DEF HandleEnterGameNode
<1> HIDE DEF t
<1>3. Good(t, o, d) /\ t \in NodeState /\ t.ent \in Entity
  BY <1>1, Parts DEF Step, Good
<1>4. CASE HasEntity(t)
  <2> DEFINE q == Max({t.ent.epoch, m})
             e == [t.ent EXCEPT !.exiting = FALSE, !.rounds = 0, !.epoch = q]
             u == [t EXCEPT !.ent = e]
  <2>0. t.ent.epoch \in Nat /\ t.ent.ver \in Nat
    BY <1>3, EntityParts
  <2>1. q \in Nat /\ q # 0
    BY <2>0, Larger
  <2>2. HandleEnterGameNode(s, m) = IF t.ent.exiting THEN SavePlayer(u, TRUE) ELSE u
    BY <1>2, <1>4 DEF EnterScene
  <2> HIDE DEF q
  <2>3. e \in Entity /\ e.ver = t.ent.ver /\ e.epoch = q
    BY <1>3, <2>1 DEF Entity
  <2> HIDE DEF e
  <2>4. Step(t, u, o, d) /\ u.ent = e
    BY <1>3, <1>4, <2>0, <2>3, NewEnt
  <2> HIDE DEF u
  <2>5. Good(u, o, d) /\ HasEntity(u)
    BY <2>1, <2>3, <2>4 DEF Step, HasEntity, NoEntity
  <2>6. Step(u, SavePlayer(u, TRUE), o, d)
    BY <2>5, Saves
  <2>7. Step(u, HandleEnterGameNode(s, m), o, d)
    BY <2>2, <2>5, <2>6, Stays
  <2> QED BY <1>1, <2>4, <2>7, Composes
<1>5. CASE ~HasEntity(t)
  <2> DEFINE u == [t EXCEPT !.enter = m]
  <2>1. Step(t, u, o, d) /\ u.ent = t.ent
    BY <1>3, NewEnter
  <2>2. HandleEnterGameNode(s, m) = RequestClaim(u)
    BY <1>2, <1>5
  <2> HIDE DEF u
  <2>3. Good(u, o, d) /\ ~HasEntity(u)
    BY <2>1, <1>5 DEF Step, HasEntity
  <2>4. Step(u, RequestClaim(u), o, d)
    BY <2>3, Requests
  <2> QED BY <1>1, <2>1, <2>2, <2>4, Composes
<1> QED BY <1>4, <1>5

-----------------------------------------------------------------------------
(* Transactions of the store.                                              *)

\* What the answer of decideSave says of the row and the request.
LEMMA Decides ==
  ASSUME NEW o \in Owner, NEW r \in Request
  PROVE  LET a == decideSave(o, r) IN
         /\ a \in Answers
         /\ a = "COMMITTED" => o.holder = r.node /\ o.seq < r.seq
         /\ a = "EQUAL" => o.holder = r.node /\ o.seq = r.seq
         /\ a = "OLDER_SEQ" => o.holder = r.node /\ r.seq < o.seq
         /\ o.holder = r.node /\ a \in Open => a = "COMMITTED"
<1>1. o.seq \in Nat /\ r.seq \in Nat /\ o.epoch \in Nat /\ r.epoch \in Nat
  BY DEF Owner, Request
<1> QED BY <1>1 DEF decideSave, Answers, Open

\* A row with the same epoch, sequence number and holder decides the same.
LEMMA DecidesSame ==
  ASSUME NEW o \in Owner, NEW q \in Owner, NEW r,
         q.epoch = o.epoch, q.seq = o.seq, q.holder = o.holder
  PROVE  decideSave(q, r) = decideSave(o, r)
BY DEF decideSave

\* The commit of a sound request writes the whole of its version.
LEMMA Commits ==
  ASSUME NEW o \in Owner, NEW d \in Rows, NEW r \in Request, Sound(r, o, d),
         decideSave(o, r) = "COMMITTED"
  PROVE  LET q == [o EXCEPT !.epoch = r.epoch, !.seq = r.seq, !.released = r.release]
             f == [k \in Kinds |-> IF k \in r.kinds THEN Payload(r.ver)[k] ELSE d[k]]
         IN /\ q \in Owner /\ q.holder = o.holder /\ o.holder = r.node /\ q.seq = r.seq
            /\ f = Payload(r.ver) /\ f \in Rows /\ f["log"] = r.ver /\ f["bag"] = r.ver % 2
            /\ d["log"] <= r.ver /\ \A k \in Kinds \ r.kinds : f[k] = d[k]
<1> DEFINE q == [o EXCEPT !.epoch = r.epoch, !.seq = r.seq, !.released = r.release]
           f == [k \in Kinds |-> IF k \in r.kinds THEN Payload(r.ver)[k] ELSE d[k]]
<1>1. r.epoch \in Nat /\ r.seq \in Nat /\ r.release \in BOOLEAN /\ r.ver \in Nat
  BY RequestParts
<1>2. q \in Owner /\ q.holder = o.holder /\ q.seq = r.seq
  BY <1>1 DEF Owner
<1>3. o.holder = r.node /\ o.seq < r.seq /\ o.seq \in Nat
  BY Decides DEF Owner
<1>4. /\ d["log"] <= r.ver
      /\ \A k \in Kinds \ r.kinds : d[k] = Payload(r.ver)[k]
  BY <1>1, <1>3 DEF Sound
<1>5. f = [k \in Kinds |-> Payload(r.ver)[k]]
  BY <1>4
<1>6. f = Payload(r.ver)
  BY <1>5 DEF Payload
<1> QED BY <1>1, <1>2, <1>3, <1>4, <1>6, PayloadRows

\* A node that does not hold the row only sees the rows grow.
LEMMA OtherNode ==
  ASSUME NEW s, NEW o, NEW q, NEW d \in Rows, NEW f \in Rows, Good(s, o, d),
         q.holder # s.id, d["log"] <= f["log"]
  PROVE  Good(s, q, f)
<1>1. /\ s.published \in Nat /\ s.client.confirmed["log"] \in Nat
      /\ s.claim.rows["log"] \in Nat /\ s.client.inflight.ver \in Nat
      /\ d["log"] \in Nat /\ f["log"] \in Nat
  BY Parts, ClientParts, ClaimParts, RequestParts, RowParts DEF Good
<1>2. Durable(s, f)
  BY <1>1 DEF Durable, Good
<1> QED BY <1>2 DEF Good

\* Neither does a node that uses nothing of what it knew, whoever holds the row.
LEMMA UnusedNode ==
  ASSUME NEW s, NEW o, NEW q, NEW d \in Rows, NEW f \in Rows, Good(s, o, d),
         ~InUse(s), s.claim.phase \notin {"answered", "loaded"}, d["log"] <= f["log"]
  PROVE  Good(s, q, f)
<1>1. /\ s.published \in Nat /\ s.client.confirmed["log"] \in Nat
      /\ s.claim.rows["log"] \in Nat /\ s.client.inflight.ver \in Nat
      /\ d["log"] \in Nat /\ f["log"] \in Nat
  BY Parts, ClientParts, ClaimParts, RequestParts, RowParts DEF Good
<1>2. Durable(s, f)
  BY <1>1 DEF Durable, Good
<1>3. ClientHolds(s, q, f) /\ MemoryHolds(s, q, f)
  BY DEF ClientHolds, MemoryHolds, InUse, Busy
<1> QED BY <1>2, <1>3 DEF Good

\* The node whose request is committed.
LEMMA CommitsOwn ==
  ASSUME NEW s, NEW o \in Owner, NEW q \in Owner, NEW d \in Rows, NEW f \in Rows,
         Good(s, o, d), o.holder = s.id, q.holder = o.holder,
         s.client.phase = "ready", q.seq = s.client.inflight.seq,
         o.seq < q.seq, f = Payload(s.client.inflight.ver), f["log"] = s.client.inflight.ver,
         d["log"] <= f["log"], \A k \in Kinds \ s.client.inflight.kinds : f[k] = d[k]
  PROVE  Good(s, q, f)
<1> DEFINE c == s.client
           r == c.inflight
<1>1. /\ s.published \in Nat /\ c.confirmed["log"] \in Nat
      /\ s.claim.rows["log"] \in Nat /\ r.ver \in Nat
      /\ d["log"] \in Nat /\ f["log"] \in Nat /\ s.lastSeq \in Nat
      /\ o.seq \in Nat /\ q.seq \in Nat
  BY Parts, ClientParts, ClaimParts, RequestParts, RowParts DEF Good, Owner
<1>2. Durable(s, f)
  BY <1>1 DEF Durable, Good
<1>3. ClientHolds(s, o, d) /\ Busy(c) /\ InUse(s)
  BY DEF Good, Busy, InUse
<1>4. Seeded(s, q, f)
  <2>1. q.seq <= s.lastSeq /\ q.seq > 0
    BY <1>1 DEF Good, Ordered
  <2>2. Fits(c, d)
    BY <1>3 DEF ClientHolds, Seeded
  <2>3. Fits(c, f)
    BY <2>2 DEF Fits
  <2> QED BY <2>1, <2>3 DEF Seeded
<1>5. Sound(r, q, f)
  BY DEF Sound
<1>6. ClientHolds(s, q, f)
  BY <1>4, <1>5 DEF ClientHolds
<1>7. s.claim.phase \notin {"ready", "answered", "loaded"}
  BY <1>3 DEF Good, Settles
<1>8. MemoryHolds(s, q, f)
  BY <1>7 DEF MemoryHolds, Good, Ordered
<1> QED BY <1>2, <1>6, <1>8 DEF Good

\* The answer to the request of a node.
LEMMA Replies ==
  ASSUME NEW s, NEW o \in Owner, NEW d \in Rows, Good(s, o, d), s.client.phase = "ready",
         NEW a \in Answers, a \in Done => o.seq = s.client.inflight.seq
                                          /\ s.client.inflight.ver <= d["log"],
         o.holder = s.id => decideSave(o, s.client.inflight) \notin Open,
         NEW e \in Client, e.inflight = s.client.inflight, e.phase = "answered",
         e.pending = s.client.pending, e.confirmed = s.client.confirmed,
         e.uncertain = s.client.uncertain, e.answer = a
  PROVE  LET t == [s EXCEPT !.client = e] IN
         /\ Good(t, o, d) /\ t.id = s.id /\ t.claim = s.claim
         /\ t.client.phase = "answered" /\ t.client.answer = a
         /\ t.client.pending = s.client.pending /\ t.client.inflight = s.client.inflight
<1> DEFINE c == s.client
           t == [s EXCEPT !.client = e]
<1>0. s \in NodeState /\ c \in Client
  BY Parts DEF Good
<1>3. /\ t \in NodeState /\ t.client = e
      /\ t.id = s.id /\ t.ent = s.ent /\ t.claim = s.claim /\ t.enter = s.enter
      /\ t.lastSeq = s.lastSeq /\ t.behind = s.behind /\ t.published = s.published
  BY <1>0, SetClient
<1> HIDE DEF t
<1>4. (HasEntity(t) <=> HasEntity(s)) /\ Busy(c) /\ InUse(s)
  BY <1>3 DEF HasEntity, Busy, InUse
<1>5. Ordered(t) /\ Settles(t)
  BY <1>3, <1>4 DEF Good, Ordered, Settles
<1>6. Durable(t, d)
  BY <1>3 DEF Good, Durable
<1>7. ASSUME o.holder = t.id
      PROVE  ClientHolds(t, o, d) /\ MemoryHolds(t, o, d)
  <2>1. ClientHolds(s, o, d) /\ MemoryHolds(s, o, d)
    BY <1>3, <1>7 DEF Good
  <2>2. Seeded(t, o, d)
    BY <2>1, <1>3, <1>4 DEF ClientHolds, Seeded, Fits
  <2>3. ClientHolds(t, o, d)
    BY <2>1, <2>2, <1>3, <1>7 DEF ClientHolds
  <2>4. MemoryHolds(t, o, d)
    BY <2>1, <1>3, <1>4 DEF MemoryHolds, Good, Settles
  <2> QED BY <2>3, <2>4
<1>8. Good(t, o, d)
  BY <1>3, <1>5, <1>6, <1>7 DEF Good
<1> QED BY <1>3, <1>8 DEF t

\* No answer came: the request is sent again.
LEMMA Resends ==
  ASSUME NEW s, NEW o \in Owner, NEW d \in Rows, Good(s, o, d), s.client.phase # "idle",
         NEW e \in Client, e.inflight = s.client.inflight, e.phase = "ready",
         e.pending = s.client.pending, e.confirmed = s.client.confirmed,
         e.uncertain = s.client.uncertain \cup s.client.inflight.kinds, e.answer = "none"
  PROVE  LET t == [s EXCEPT !.client = e] IN
         /\ Good(t, o, d) /\ t.id = s.id /\ Rests(t)
         /\ t.client.phase = "ready" /\ t.client.inflight = s.client.inflight
<1> DEFINE c == s.client
           t == [s EXCEPT !.client = e]
<1>0. s \in NodeState /\ c \in Client
  BY Parts DEF Good
<1>3. /\ t \in NodeState /\ t.client = e
      /\ t.id = s.id /\ t.ent = s.ent /\ t.claim = s.claim /\ t.enter = s.enter
      /\ t.lastSeq = s.lastSeq /\ t.behind = s.behind /\ t.published = s.published
  BY <1>0, SetClient
<1> HIDE DEF t
<1>4. (HasEntity(t) <=> HasEntity(s)) /\ Busy(c) /\ InUse(s)
  BY <1>3 DEF HasEntity, Busy, InUse
<1>5. Ordered(t) /\ Settles(t)
  BY <1>3, <1>4 DEF Good, Ordered, Settles
<1>6. Durable(t, d)
  BY <1>3 DEF Good, Durable
<1>7. ASSUME o.holder = t.id
      PROVE  ClientHolds(t, o, d) /\ MemoryHolds(t, o, d)
  <2>1. ClientHolds(s, o, d) /\ MemoryHolds(s, o, d)
    BY <1>3, <1>7 DEF Good
  <2>2. Seeded(t, o, d)
    BY <2>1, <1>3, <1>4 DEF ClientHolds, Seeded, Fits
  <2>3. ClientHolds(t, o, d)
    BY <2>1, <2>2, <1>3, <1>7 DEF ClientHolds
  <2>4. MemoryHolds(t, o, d)
    BY <2>1, <1>3, <1>4 DEF MemoryHolds, Good, Settles
  <2> QED BY <2>3, <2>4
<1>8. Good(t, o, d)
  BY <1>3, <1>5, <1>6, <1>7 DEF Good
<1>9. Rests(t)
  BY <1>3 DEF Rests
<1> QED BY <1>3, <1>8, <1>9 DEF t

-----------------------------------------------------------------------------
(* Steps of the system.                                                    *)

\* The types of what only scene_manager uses.
PlaceTypes ==
  /\ route \in [Nodes -> Nat]
  /\ loc \in [node : Nodes \cup {NoNode}, epoch : Nat]
  /\ round \in [phase : {"idle", "read", "checked"}, epoch : Nat, seen : Nodes \cup {NoNode},
                seenEpoch : Nat]

\* A step that changes neither the store nor a node.
LEMMA PlaceStep ==
  ASSUME StoreInv, UNCHANGED <<owner, rows, node, late, up>>, PlaceTypes'
  PROVE  StoreInv'
<1>1. StoreTypes'
  BY DEF StoreInv, StoreTypes, PlaceTypes
<1>2. ConsistentRows'
  BY DEF StoreInv, ConsistentRows
<1>3. NodesInv'
  BY DEF StoreInv, NodesInv
<1>4. LateInv'
  BY DEF StoreInv, LateInv
<1> QED BY <1>1, <1>2, <1>3, <1>4 DEF StoreInv

\* A step that changes the state of one node that runs.
LEMMA OneNode ==
  ASSUME StoreInv, NEW n \in Nodes, n \in up, NEW t, node' = [node EXCEPT ![n] = t],
         UNCHANGED <<owner, rows, late, up>>, PlaceTypes',
         Good(t, owner, rows), t.id = n, Rests(t),
         owner.holder = n =>
           \A r \in late : r.node = n => t.client.phase = "ready" /\ r = t.client.inflight
  PROVE  StoreInv'
<1>0. node \in [Nodes -> NodeState] /\ t \in NodeState
  BY DEF StoreInv, StoreTypes, Good
<1>1. node' \in [Nodes -> NodeState] /\ node'[n] = t
      /\ \A m \in Nodes : m # n => node'[m] = node[m]
  BY <1>0
<1>2. StoreTypes'
  BY <1>1 DEF StoreInv, StoreTypes, PlaceTypes
<1>3. ConsistentRows'
  BY DEF StoreInv, ConsistentRows
<1>4. NodesInv'
  <2>1. ASSUME NEW m \in Nodes
        PROVE  Good(node'[m], owner', rows') /\ Rests(node'[m])
    BY <2>1, <1>1 DEF StoreInv, NodesInv
  <2>2. ASSUME NEW m \in Nodes \ up' PROVE Quiet(node'[m])
    BY <2>2, <1>1 DEF StoreInv, NodesInv
  <2> QED BY <2>1, <2>2 DEF NodesInv
<1>5. LateInv'
  <2>1. \A r \in late : r.node \in Nodes /\ r.seq > 0 /\ decideSave(owner, r) \in Open
    BY DEF StoreInv, LateInv
  <2>2. ASSUME NEW r \in late, r.node = owner.holder
        PROVE  /\ Sound(r, owner, rows)
               /\ r.node \in up => node'[r.node].client.phase = "ready"
                                   /\ r = node'[r.node].client.inflight
    BY <2>1, <2>2, <1>1 DEF StoreInv, LateInv
  <2>3. \A q, r \in late : q.node = owner.holder /\ r.node = owner.holder => q = r
    BY DEF StoreInv, LateInv
  <2> QED BY <2>1, <2>2, <2>3 DEF LateInv
<1> QED BY <1>2, <1>3, <1>4, <1>5 DEF StoreInv

\* The state of a node in a reachable state.
LEMMA NodeFacts ==
  ASSUME StoreInv, NEW n \in Nodes
  PROVE  /\ Good(node[n], owner, rows) /\ Rests(node[n]) /\ node[n].id = n
         /\ node[n] \in NodeState /\ owner \in Owner /\ rows \in Rows /\ PlaceTypes
         /\ n \notin up => Quiet(node[n])
         /\ node \in [Nodes -> NodeState] /\ late \subseteq Request
BY DEF StoreInv, NodesInv, StoreTypes, PlaceTypes, Good

\* A step of a node that handles what is not an answer to a save.
LEMMA ClientStep ==
  ASSUME StoreInv, NEW n \in Nodes, n \in up, NEW t, node' = [node EXCEPT ![n] = t],
         UNCHANGED <<owner, rows, late, up>>, PlaceTypes', Step(node[n], t, owner, rows)
  PROVE  StoreInv'
<1> DEFINE s == node[n]
<1>1. Rests(s) /\ s.id = n
  BY NodeFacts
<1>2. Good(t, owner, rows) /\ t.id = n /\ Rests(t) /\ Keeps(s, t)
  BY <1>1 DEF Step
<1>3. ASSUME owner.holder = n, NEW r \in late, r.node = n
      PROVE  t.client.phase = "ready" /\ r = t.client.inflight
  <2>1. s.client.phase = "ready" /\ r = s.client.inflight
    BY <1>3 DEF StoreInv, LateInv
  <2> QED BY <2>1, <1>2 DEF Keeps
<1> QED BY <1>2, <1>3, OneNode

LEMMA EnterStep ==
  ASSUME StoreInv, NEW n \in Nodes, Enter(n)
  PROVE  StoreInv'
<1>1. /\ n \in up /\ route[n] # 0 /\ route[n] \in Nat
      /\ node' = [node EXCEPT ![n] = HandleEnterGameNode(node[n], route[n])]
      /\ route' = [route EXCEPT ![n] = 0]
      /\ UNCHANGED <<owner, rows, late, up, loc, round>>
  BY NodeFacts DEF Enter, NodeStep, storeVars, PlaceTypes
<1>2. PlaceTypes'
  BY <1>1, NodeFacts DEF PlaceTypes
<1>3. Step(node[n], HandleEnterGameNode(node[n], route[n]), owner, rows)
  BY <1>1, NodeFacts, EntersGood
<1> QED BY <1>1, <1>2, <1>3, ClientStep

LEMMA EntitySteps ==
  ASSUME StoreInv, NEW n \in Nodes, Play(n) \/ PeriodicSave(n) \/ ExitGameNode(n)
  PROVE  StoreInv'
<1> DEFINE s == node[n]
           x == [s EXCEPT !.ent.exiting = TRUE, !.ent.rounds = 0]
<1>1. /\ HasEntity(s) /\ UNCHANGED <<owner, rows, late, up, loc, round, route>>
      /\ \/ node' = [node EXCEPT ![n] = [s EXCEPT !.ent.ver = @ + 1]]
         \/ node' = [node EXCEPT ![n] = SavePlayer(s, TRUE)]
         \/ node' = [node EXCEPT ![n] = SavePlayer(x, TRUE)]
  BY DEF Play, PeriodicSave, ExitGameNode, NodeStep, storeVars, placeVars
<1>2. n \in up
  BY <1>1, NodeFacts DEF Quiet, InUse
<1>3. PlaceTypes'
  BY <1>1, NodeFacts DEF PlaceTypes
<1>4. /\ s \in NodeState /\ s.ent \in Entity /\ s.ent.ver \in Nat /\ Good(s, owner, rows)
      /\ owner \in Owner /\ rows \in Rows
  BY NodeFacts, Parts, EntityParts
<1>5. CASE node' = [node EXCEPT ![n] = [s EXCEPT !.ent.ver = @ + 1]]
  <2> DEFINE e == [s.ent EXCEPT !.ver = @ + 1]
             t == [s EXCEPT !.ent = e]
  <2>1. e \in Entity /\ s.ent.ver <= e.ver
    BY <1>4 DEF Entity
  <2> HIDE DEF e
  <2>2. Step(s, t, owner, rows)
    BY <1>1, <1>4, <2>1, NewEnt
  <2>3. node' = [node EXCEPT ![n] = t]
    BY <1>5 DEF e
  <2> HIDE DEF t
  <2> QED BY <1>1, <1>2, <1>3, <2>2, <2>3, ClientStep
<1>6. CASE node' = [node EXCEPT ![n] = SavePlayer(s, TRUE)]
  <2>1. Step(s, SavePlayer(s, TRUE), owner, rows)
    BY <1>1, <1>4, Saves
  <2> QED BY <1>1, <1>2, <1>3, <1>6, <2>1, ClientStep
<1>7. CASE node' = [node EXCEPT ![n] = SavePlayer(x, TRUE)]
  <2> DEFINE e == [s.ent EXCEPT !.exiting = TRUE, !.rounds = 0]
             t == [s EXCEPT !.ent = e]
  <2>0. e \in Entity /\ e.ver = s.ent.ver /\ e.exiting = TRUE
    BY <1>4 DEF Entity
  <2>1. s.ent.ver <= e.ver
    BY <2>0, <1>4
  <2>2. x = t
    BY <1>4 DEF NodeState, Entity
  <2> HIDE DEF e, x
  <2>3. Step(s, t, owner, rows) /\ t.ent = e
    BY <1>1, <1>4, <2>0, <2>1, NewEnt
  <2> HIDE DEF t
  <2>4. Good(t, owner, rows) /\ HasEntity(t)
    BY <2>0, <2>3, BlankClient DEF Step, HasEntity
  <2>5. Step(t, SavePlayer(t, TRUE), owner, rows)
    BY <1>4, <2>4, Saves
  <2>6. Step(s, SavePlayer(t, TRUE), owner, rows)
    BY <2>3, <2>5, Composes
  <2> QED BY <1>1, <1>2, <1>3, <1>7, <2>2, <2>6, ClientStep
<1> QED BY <1>1, <1>5, <1>6, <1>7

LEMMA LoadSteps ==
  ASSUME StoreInv, NEW n \in Nodes, RefuseEntry(n) \/ DeliverClaim(n) \/ ClaimTimesOut(n)
  PROVE  StoreInv'
<1> DEFINE s == node[n]
           c == [NoClaim EXCEPT !.phase = "ready"]
<1>1. /\ UNCHANGED <<owner, rows, late, up, loc, round, route>>
      /\ s.enter # 0 \/ s.claim.phase \in {"ready", "answered"}
      /\ \/ node' = [node EXCEPT ![n] = LoadFailed(s)]
         \/ node' = [node EXCEPT ![n] = [s EXCEPT !.enter = 0]]
         \/ /\ s.claim.phase = "answered" /\ s.claim.answer = "CLAIMED"
            /\ node' = [node EXCEPT ![n] = Claimed(s)]
         \/ /\ s.claim.phase \in {"ready", "answered"}
            /\ node' = [node EXCEPT ![n] = [s EXCEPT !.claim = c]]
  BY DEF RefuseEntry, DeliverClaim, ClaimTimesOut, NodeStep, storeVars, placeVars
<1>2. n \in up
  BY <1>1, NodeFacts DEF Quiet
<1>3. PlaceTypes'
  BY <1>1, NodeFacts DEF PlaceTypes
<1>4. Good(s, owner, rows) /\ Rests(s) /\ owner \in Owner /\ rows \in Rows
  BY NodeFacts
<1>5. CASE node' = [node EXCEPT ![n] = LoadFailed(s)]
  <2>1. Step(s, LoadFailed(s), owner, rows)
    BY <1>4, FailsLoad
  <2> QED BY <1>1, <1>2, <1>3, <1>5, <2>1, ClientStep
<1>6. CASE node' = [node EXCEPT ![n] = [s EXCEPT !.enter = 0]]
  <2>1. Step(s, [s EXCEPT !.enter = 0], owner, rows)
    BY <1>4, NewEnter
  <2> QED BY <1>1, <1>2, <1>3, <1>6, <2>1, ClientStep
<1>7. CASE /\ s.claim.phase = "answered" /\ s.claim.answer = "CLAIMED"
           /\ node' = [node EXCEPT ![n] = Claimed(s)]
  <2>1. Step(s, Claimed(s), owner, rows)
    BY <1>4, <1>7, ClaimedGood
  <2> QED BY <1>1, <1>2, <1>3, <1>7, <2>1, ClientStep
<1>8. CASE /\ s.claim.phase \in {"ready", "answered"}
           /\ node' = [node EXCEPT ![n] = [s EXCEPT !.claim = c]]
  <2>1. c \in Claim /\ c.phase = "ready" /\ c.rows = NoClaim.rows
    BY Blanks DEF Claim
  <2>2. c.rows["log"] <= rows["log"]
    BY <2>1, <1>4, BlankClient, RowParts
  <2>3. ~HasEntity(s) /\ ~Busy(s.client)
    BY <1>4, <1>8 DEF Good, Settles
  <2> HIDE DEF c
  <2>4. Step(s, [s EXCEPT !.claim = c], owner, rows)
    BY <1>4, <2>1, <2>2, <2>3, NewClaim
  <2> QED BY <1>1, <1>2, <1>3, <1>8, <2>4, ClientStep
<1> QED BY <1>1, <1>5, <1>6, <1>7, <1>8

\* The entity is made of the rows that the claim found, and the number of the row
\* becomes that of the process or its floor.
LEMMA LoadStep ==
  ASSUME StoreInv, NEW n \in Nodes, Load(n)
  PROVE  StoreInv'
<1> DEFINE s == node[n]
           e == [NoEntity EXCEPT !.ver = s.claim.rows["log"], !.epoch = s.enter]
           q == Max({s.lastSeq, s.claim.seq})
           b == ObserveRefuses(s)
           t == [s EXCEPT !.ent = e, !.lastSeq = q, !.behind = b, !.enter = 0,
                          !.claim = NoClaim]
<1>1. /\ UNCHANGED <<owner, rows, late, up, loc, round, route>>
      /\ s.claim.phase = "loaded" /\ node' = [node EXCEPT ![n] = t]
  BY DEF Load, NodeStep, storeVars, placeVars
<1>2. n \in up
  BY <1>1, NodeFacts DEF Quiet
<1>3. PlaceTypes'
  BY <1>1, NodeFacts DEF PlaceTypes
<1>4. /\ Good(s, owner, rows) /\ Rests(s) /\ owner \in Owner /\ rows \in Rows
      /\ s \in NodeState /\ s.claim \in Claim /\ s.enter \in Nat
      /\ s.lastSeq \in Nat /\ s.claim.seq \in Nat
  BY NodeFacts, Parts, ClaimParts
<1>5. s.claim.rows["log"] \in Nat /\ rows["log"] \in Nat
  BY <1>4, ClaimParts, RowParts
<1>6. e \in Entity /\ e.ver = s.claim.rows["log"]
  BY <1>4, <1>5, Blanks DEF Entity
<1>a. q \in Nat /\ s.claim.seq <= q
  BY <1>4, Larger
<1>b. b \in BOOLEAN /\ (b => ClocksAhead /\ s.claim.seq > 0)
  BY DEF ObserveRefuses
<1> HIDE DEF e, q, b
<1>7. /\ t \in NodeState /\ t.ent = e /\ t.claim = NoClaim
      /\ t.id = s.id /\ t.client = s.client /\ t.lastSeq = q /\ t.behind = b
      /\ t.published = s.published
  BY <1>4, <1>6, <1>a, <1>b, Blanks DEF NodeState
<1> HIDE DEF t
<1>8. ~Busy(t.client)
  BY <1>1, <1>4, <1>7 DEF Good, Settles
<1>9. Ordered(t) /\ Settles(t)
  BY <1>7, <1>8, <1>b, BlankClient DEF Ordered, Settles, Busy
<1>10. Durable(t, rows)
  BY <1>4, <1>5, <1>7, BlankClient DEF Durable, Good
<1>11. ASSUME owner.holder = t.id
       PROVE  ClientHolds(t, owner, rows) /\ MemoryHolds(t, owner, rows)
  <2>1. /\ s.claim.rows = rows /\ s.claim.seq = owner.seq /\ Fits(s.client, rows)
    BY <1>1, <1>4, <1>7, <1>11 DEF Good, MemoryHolds
  <2>2. Seeded(t, owner, rows)
    BY <2>1, <1>7, <1>a, <1>b DEF Seeded
  <2>3. ClientHolds(t, owner, rows)
    BY <2>2, <1>8 DEF ClientHolds, Busy
  <2>4. MemoryHolds(t, owner, rows)
    BY <2>1, <1>5, <1>6, <1>7, <1>8, BlankClient DEF MemoryHolds, Busy
  <2> QED BY <2>3, <2>4
<1>12. Step(s, t, owner, rows)
  BY <1>7, <1>9, <1>10, <1>11 DEF Step, Good, Keeps, Rests
<1> QED BY <1>1, <1>2, <1>3, <1>12, ClientStep

\* The process's own numbers have passed the row's.
LEMMA CatchUpStep ==
  ASSUME StoreInv, NEW n \in Nodes, CatchUp(n)
  PROVE  StoreInv'
<1> DEFINE s == node[n]
           t == [s EXCEPT !.behind = FALSE]
<1>1. /\ UNCHANGED <<owner, rows, late, up, loc, round, route>>
      /\ s.behind /\ node' = [node EXCEPT ![n] = t]
  BY DEF CatchUp, NodeStep, storeVars, placeVars
<1>2. n \in up
  BY <1>1, NodeFacts DEF Quiet
<1>3. PlaceTypes'
  BY <1>1, NodeFacts DEF PlaceTypes
<1>4. Good(s, owner, rows) /\ Rests(s) /\ s \in NodeState
  BY NodeFacts
<1>5. /\ t \in NodeState /\ t.id = s.id /\ t.ent = s.ent /\ t.claim = s.claim
      /\ t.client = s.client /\ t.lastSeq = s.lastSeq /\ t.behind = FALSE
      /\ t.published = s.published
  BY <1>4 DEF NodeState
<1> HIDE DEF t
<1>6. (HasEntity(t) <=> HasEntity(s)) /\ (InUse(t) <=> InUse(s))
  BY <1>5 DEF HasEntity, InUse
<1>7. Ordered(t) /\ Settles(t) /\ Durable(t, rows)
  BY <1>4, <1>5, <1>6 DEF Good, Ordered, Settles, Durable
<1>8. ASSUME owner.holder = t.id
      PROVE  ClientHolds(t, owner, rows) /\ MemoryHolds(t, owner, rows)
  BY <1>4, <1>5, <1>6, <1>8 DEF Good, ClientHolds, MemoryHolds, Seeded
<1>9. Step(s, t, owner, rows)
  BY <1>5, <1>7, <1>8 DEF Step, Good, Keeps, Rests
<1> QED BY <1>1, <1>2, <1>3, <1>9, ClientStep

LEMMA DeliverSaveStep ==
  ASSUME StoreInv, NEW n \in Nodes, DeliverSave(n)
  PROVE  StoreInv'
<1> DEFINE s == node[n]
           t == HandleSaveResponse(s)
<1>1. /\ UNCHANGED <<owner, rows, late, up, loc, round, route>>
      /\ s.client.phase = "answered" /\ node' = [node EXCEPT ![n] = t]
  BY DEF DeliverSave, NodeStep, storeVars, placeVars
<1>2. n \in up
  BY <1>1, NodeFacts DEF Quiet, InUse, Busy
<1>3. PlaceTypes'
  BY <1>1, NodeFacts DEF PlaceTypes
<1>4. AfterAnswer(s, t, owner, rows) /\ s.id = n
  BY <1>1, NodeFacts, AnswerGood
<1> HIDE DEF t
<1>5. Good(t, owner, rows) /\ t.id = n /\ Rests(t)
  BY <1>4 DEF AfterAnswer
<1>6. owner.holder = n => \A r \in late : r.node # n
  BY <1>1, <1>2 DEF StoreInv, LateInv
<1> QED BY <1>1, <1>2, <1>3, <1>5, <1>6, OneNode

\* A step of the store: a row o and rows d take the place of the stored ones.
\* Late requests of the holder are as before, or there are none.
LEMMA StoreStep ==
  ASSUME StoreInv, owner' \in Owner, rows' \in Rows, ConsistentRows',
         node' \in [Nodes -> NodeState], late' \subseteq Request, UNCHANGED up, PlaceTypes',
         \A m \in Nodes : /\ Good(node'[m], owner', rows') /\ Rests(node'[m])
                          /\ node'[m].id = m
                          /\ m \notin up => Quiet(node'[m]),
         \A r \in late' : /\ r.node \in Nodes /\ r.seq > 0 /\ decideSave(owner', r) \in Open
                          /\ r.node # owner'.holder
  PROVE  StoreInv'
<1>1. StoreTypes'
  BY DEF StoreTypes, PlaceTypes
<1>2. NodesInv'
  BY DEF NodesInv
<1>3. LateInv'
  BY DEF LateInv
<1> QED BY <1>1, <1>2, <1>3 DEF StoreInv

\* The commit of the request r of the holder, which is the one that its client
\* sends, or the last one of a process that is gone.
LEMMA CommitStep ==
  ASSUME StoreInv, NEW r \in Request, NEW x, Save(r, x), decideSave(owner, r) = "COMMITTED",
         Sound(r, owner, rows), r.node \in Nodes,
         \/ node[r.node].client.phase = "ready" /\ r = node[r.node].client.inflight
         \/ r.node \notin up
  PROVE  /\ owner' \in Owner /\ rows' \in Rows /\ ConsistentRows'
         /\ owner'.holder = owner.holder /\ owner.holder = r.node /\ owner'.seq = r.seq
         /\ late' = StillOpen(owner', x) /\ r.ver <= rows'["log"]
         /\ \A m \in Nodes : Good(node[m], owner', rows')
<1>1. /\ owner' = [owner EXCEPT !.epoch = r.epoch, !.seq = r.seq, !.released = r.release]
      /\ rows' = [k \in Kinds |-> IF k \in r.kinds THEN Payload(r.ver)[k] ELSE rows[k]]
      /\ late' = StillOpen(owner', x)
  BY DEF Save
<1>2. owner \in Owner /\ rows \in Rows
  BY DEF StoreInv, StoreTypes
<1>3. /\ owner' \in Owner /\ owner'.holder = owner.holder /\ owner.holder = r.node
      /\ owner'.seq = r.seq /\ rows' = Payload(r.ver) /\ rows' \in Rows
      /\ rows'["log"] = r.ver /\ rows'["bag"] = r.ver % 2 /\ rows["log"] <= r.ver
      /\ \A k \in Kinds \ r.kinds : rows'[k] = rows[k]
  <2> DEFINE q == [owner EXCEPT !.epoch = r.epoch, !.seq = r.seq, !.released = r.release]
             f == [k \in Kinds |-> IF k \in r.kinds THEN Payload(r.ver)[k] ELSE rows[k]]
  <2>1. /\ q \in Owner /\ q.holder = owner.holder /\ owner.holder = r.node /\ q.seq = r.seq
        /\ f = Payload(r.ver) /\ f \in Rows /\ f["log"] = r.ver /\ f["bag"] = r.ver % 2
        /\ rows["log"] <= r.ver /\ \A k \in Kinds \ r.kinds : f[k] = rows[k]
    BY <1>2, Commits
  <2>2. owner' = q /\ rows' = f
    BY <1>1
  <2> HIDE DEF q, f
  <2> QED BY <2>1, <2>2
<1>4. ConsistentRows'
  BY <1>3 DEF ConsistentRows
<1>5. ASSUME NEW m \in Nodes
      PROVE  Good(node[m], owner', rows')
  <2>1. Good(node[m], owner, rows) /\ node[m].id = m /\ (m \notin up => Quiet(node[m]))
    BY NodeFacts
  <2>2. CASE m # r.node
    BY <2>1, <2>2, <1>2, <1>3, OtherNode
  <2>3. CASE m = r.node /\ node[m].client.phase = "ready" /\ r = node[m].client.inflight
    <3>1. owner.seq < owner'.seq
      BY <1>2, <1>3, Decides
    <3> QED BY <3>1, <2>1, <2>3, <1>2, <1>3, CommitsOwn
  <2>4. CASE m = r.node /\ m \notin up
    <3>1. ~InUse(node[m]) /\ node[m].claim.phase \notin {"answered", "loaded"}
      BY <2>1, <2>4 DEF Quiet
    <3> QED BY <3>1, <2>1, <1>2, <1>3, UnusedNode
  <2> QED BY <2>2, <2>3, <2>4
<1>6. r.ver <= rows'["log"]
  BY <1>3, RequestParts
<1> QED BY <1>1, <1>3, <1>4, <1>5, <1>6

\* A request that repeats the sequence number of the row is not open.
LEMMA RepeatedClosed ==
  ASSUME NEW o \in Owner, NEW r \in Request, o.holder = r.node, o.seq = r.seq
  PROVE  decideSave(o, r) \notin Open
<1>1. o.seq \in Nat
  BY DEF Owner
<1> QED BY <1>1, Decides

LEMMA ExecuteSaveStep ==
  ASSUME StoreInv, NEW n \in Nodes, ExecuteSave(n)
  PROVE  StoreInv'
<1> DEFINE s == node[n]
           r == s.client.inflight
           a == decideSave(owner, r)
           e == [s.client EXCEPT !.phase = "answered", !.answer = a, !.rowSeq = owner.seq]
           t == [s EXCEPT !.client = e]
<1>1. /\ s.client.phase = "ready" /\ Save(r, Outlived(n, r.seq))
      /\ node' = [node EXCEPT ![n] = t] /\ UNCHANGED <<up, loc, round, route>>
  <2>1. s \in NodeState /\ s.client \in Client
    BY NodeFacts, Parts
  <2>2. [s EXCEPT !.client.phase = "answered", !.client.answer = a,
                  !.client.rowSeq = owner.seq] = t
    BY <2>1 DEF NodeState, Client
  <2> QED BY <2>2 DEF ExecuteSave, NodeStep, placeVars
<1>2. /\ Good(s, owner, rows) /\ Rests(s) /\ s.id = n /\ s \in NodeState
      /\ owner \in Owner /\ rows \in Rows /\ PlaceTypes'
      /\ node \in [Nodes -> NodeState] /\ late \subseteq Request
  BY <1>1, NodeFacts DEF PlaceTypes
<1>3. n \in up
  BY <1>1, NodeFacts DEF Quiet, InUse, Busy
<1>4. r \in Request /\ r.node = n /\ owner.seq \in Nat /\ r.seq \in Nat /\ rows["log"] \in Nat
      /\ r.ver \in Nat
  BY <1>1, <1>2, Parts, ClientParts, RequestParts, RowParts DEF Good, Ordered, Owner
<1>5. owner.holder = n => Sound(r, owner, rows)
  BY <1>1, <1>2 DEF Good, ClientHolds
<1>6. /\ a \in Answers
      /\ a = "COMMITTED" => owner.holder = n /\ owner.seq < r.seq
      /\ a = "EQUAL" => owner.holder = n /\ owner.seq = r.seq
      /\ a = "OLDER_SEQ" => owner.holder = n /\ r.seq < owner.seq
      /\ owner.holder = n /\ a \in Open => a = "COMMITTED"
  BY <1>2, <1>4, Decides
<1>7. a = "OLDER_SEQ" => r.seq = 0
  BY <1>4, <1>5, <1>6 DEF Sound
<1>8. ASSUME NEW m \in Nodes, m \notin up PROVE Quiet(node[m])
  BY <1>8, NodeFacts
<1> HIDE DEF a
<1>c. s.client \in Client
  BY <1>2, Parts
<1>0. /\ e \in Client /\ e.inflight = r /\ e.phase = "answered"
      /\ e.pending = s.client.pending /\ e.confirmed = s.client.confirmed
      /\ e.uncertain = s.client.uncertain /\ e.answer = a
  BY <1>c, <1>4, <1>6 DEF Client
<1> HIDE DEF e
<1>9. CASE a = "COMMITTED"
  <2>1. Sound(r, owner, rows) /\ owner.holder = n
    BY <1>5, <1>6, <1>9
  <2>2. /\ owner' \in Owner /\ rows' \in Rows /\ ConsistentRows'
        /\ owner'.holder = owner.holder /\ owner'.seq = r.seq
        /\ late' = StillOpen(owner', Outlived(n, r.seq)) /\ r.ver <= rows'["log"]
        /\ \A m \in Nodes : Good(node[m], owner', rows')
    BY <2>1, <1>1, <1>4, <1>9, CommitStep DEF a
  <2>3. decideSave(owner', r) \notin Open
    BY <2>1, <2>2, <1>4, RepeatedClosed
  <2>4. /\ Good(t, owner', rows') /\ t.id = s.id /\ t.client.answer = a
        /\ t.client.phase = "answered" /\ t.client.pending = s.client.pending
        /\ t.client.inflight = r
    <3>1. Good(s, owner', rows')
      BY <2>2
    <3>2. a \in Done => owner'.seq = s.client.inflight.seq
                       /\ s.client.inflight.ver <= rows'["log"]
      BY <2>2
    <3>3. owner'.holder = s.id => decideSave(owner', s.client.inflight) \notin Open
      BY <2>3
    <3> HIDE DEF s
    <3> QED BY <3>1, <3>2, <3>3, <2>2, <1>1, <1>6, <1>0, Replies
  <2> HIDE DEF t
  <2>5. t \in NodeState /\ Rests(t)
    BY <2>4, <1>7 DEF Good, Rests
  <2>6. node' \in [Nodes -> NodeState] /\ node'[n] = t
        /\ \A m \in Nodes : m # n => node'[m] = node[m]
    BY <2>5, <1>1, <1>2
  <2>7. ASSUME NEW m \in Nodes
        PROVE  /\ Good(node'[m], owner', rows') /\ Rests(node'[m])
               /\ node'[m].id = m
               /\ m \notin up => Quiet(node'[m])
    BY <2>2, <2>4, <2>5, <2>6, <1>2, <1>3, <1>8, NodeFacts
  <2>8. ASSUME NEW q \in late'
        PROVE  /\ q \in Request /\ q.node \in Nodes /\ q.seq > 0
               /\ decideSave(owner', q) \in Open /\ q.node # owner'.holder
    <3>1. /\ q \in late /\ decideSave(owner', q) \in Open
          /\ q.node # n \/ q.seq = r.seq
      BY <2>2, <2>8 DEF StillOpen, Outlived, Open
    <3>2. q \in Request /\ q.node \in Nodes /\ q.seq > 0
      BY <3>1, <1>2 DEF StoreInv, LateInv
    <3>3. q.node # owner'.holder
      BY <3>1, <3>2, <2>1, <2>2, RepeatedClosed
    <3> QED BY <3>1, <3>2, <3>3
  <2> QED BY <2>2, <2>6, <2>7, <2>8, <1>1, <1>2, StoreStep
<1>10. CASE a # "COMMITTED"
  <2>1. UNCHANGED <<owner, rows>> /\ late' = Outlived(n, r.seq)
    BY <1>1, <1>10 DEF Save, a
  <2>2. a \in Done => owner.seq = r.seq /\ r.ver <= rows["log"]
    <3>1. SUFFICES ASSUME a = "EQUAL" PROVE owner.seq = r.seq /\ r.ver <= rows["log"]
      BY <1>10 DEF Done
    <3>2. owner.seq = r.seq /\ rows = Payload(r.ver)
      BY <3>1, <1>4, <1>5, <1>6 DEF Sound
    <3> QED BY <3>2, <1>4, PayloadRows
  <2>3. owner.holder = n => a \notin Open
    BY <1>6, <1>10
  <2>4. /\ Good(t, owner, rows) /\ t.id = s.id /\ t.client.answer = a
        /\ t.client.phase = "answered" /\ t.client.pending = s.client.pending
        /\ t.client.inflight = r
    <3>1. owner.holder = s.id => decideSave(owner, s.client.inflight) \notin Open
      BY <2>3, <1>2 DEF a
    <3> HIDE DEF s
    <3> QED BY <3>1, <2>2, <1>1, <1>2, <1>6, <1>0, Replies
  <2> HIDE DEF t
  <2>5. t \in NodeState /\ Rests(t)
    BY <2>4, <1>7 DEF Good, Rests
  <2>6. node' \in [Nodes -> NodeState] /\ node'[n] = t
        /\ \A m \in Nodes : m # n => node'[m] = node[m]
    BY <2>5, <1>1, <1>2
  <2>7. StoreTypes'
    BY <2>1, <2>4, <2>6, <1>1, <1>2 DEF StoreInv, StoreTypes, PlaceTypes, Outlived
  <2>8. ConsistentRows'
    BY <2>1 DEF StoreInv, ConsistentRows
  <2>9. NodesInv'
    <3>1. ASSUME NEW m \in Nodes
          PROVE  Good(node'[m], owner', rows') /\ Rests(node'[m])
      BY <2>1, <2>4, <2>5, <2>6, NodeFacts
    <3>2. ASSUME NEW m \in Nodes \ up' PROVE Quiet(node'[m])
      BY <2>6, <1>1, <1>3, <1>8
    <3> QED BY <3>1, <3>2 DEF NodesInv
  <2>10. LateInv'
    <3>1. late' \subseteq late
      BY <2>1 DEF Outlived
    <3>2. ASSUME NEW q \in late, owner.holder = n PROVE q.node # n
      <4>1. SUFFICES ASSUME q.node = n PROVE FALSE
        OBVIOUS
      <4>2. q = r /\ decideSave(owner, q) \in Open
        BY <3>2, <4>1, <1>3 DEF StoreInv, LateInv
      <4> QED BY <4>2, <3>2, <1>6, <1>10 DEF a
    <3>3. \A q \in late : q.node \in Nodes /\ q.seq > 0 /\ decideSave(owner, q) \in Open
      BY DEF StoreInv, LateInv
    <3>4. ASSUME NEW q \in late, q.node = owner.holder
          PROVE  /\ Sound(q, owner, rows)
                 /\ q.node \in up => node'[q.node].client.phase = "ready"
                                     /\ q = node'[q.node].client.inflight
      BY <3>2, <3>3, <3>4, <2>6 DEF StoreInv, LateInv
    <3>5. \A p, q \in late : p.node = owner.holder /\ q.node = owner.holder => p = q
      BY DEF StoreInv, LateInv
    <3> QED BY <3>1, <3>3, <3>4, <3>5, <2>1, <1>1 DEF LateInv
  <2> QED BY <2>7, <2>8, <2>9, <2>10 DEF StoreInv
<1> QED BY <1>9, <1>10

\* Late requests after their sender gave one more up: those that are still
\* open under the same row.
LEMMA GivenUp ==
  ASSUME StoreInv, NEW n \in Nodes, node[n].client.phase = "ready", n \in up,
         NEW x, x = StillOpen(owner, late \cup {node[n].client.inflight})
  PROVE  /\ x \subseteq Request
         /\ \A r \in x : r.node \in Nodes /\ r.seq > 0 /\ decideSave(owner, r) \in Open
         /\ \A r \in x : r.node = owner.holder => Sound(r, owner, rows)
         /\ \A r \in x : r.node = n /\ owner.holder = n => r = node[n].client.inflight
         /\ \A r \in x : r.node # n => r \in late
<1> DEFINE s == node[n]
           w == s.client.inflight
<1>1. /\ Good(s, owner, rows) /\ s.id = n /\ s \in NodeState /\ late \subseteq Request
  BY NodeFacts
<1>2. w \in Request /\ w.node = n /\ w.seq \in Nat
  BY <1>1, Parts, ClientParts, RequestParts DEF Good, Ordered
<1>3. owner.holder = n => Sound(w, owner, rows)
  BY <1>1 DEF Good, ClientHolds
<1>4. \A r \in x : (r \in late \/ r = w) /\ r.seq # 0 /\ decideSave(owner, r) \in Open
  BY DEF StillOpen, Open
<1>5. \A r \in late : r.node \in Nodes /\ r.seq > 0
  BY DEF StoreInv, LateInv
<1>6. \A r \in late : r.node = owner.holder => Sound(r, owner, rows)
  BY DEF StoreInv, LateInv
<1>7. \A r \in late : r.node = n /\ owner.holder = n => r = w
  BY DEF StoreInv, LateInv
<1> HIDE DEF w
<1>8. \A r \in x : r.node \in Nodes /\ r.seq > 0 /\ decideSave(owner, r) \in Open
  <2>1. w.seq # 0 => w.seq > 0
    BY <1>2
  <2> QED BY <1>2, <1>4, <1>5, <2>1
<1>9. \A r \in x : r.node = owner.holder => Sound(r, owner, rows)
  BY <1>2, <1>3, <1>4, <1>6
<1>10. \A r \in x : r.node = n /\ owner.holder = n => r = w
  BY <1>4, <1>7
<1>11. \A r \in x : r.node # n => r \in late
  BY <1>2, <1>4
<1>12. x \subseteq Request
  BY <1>1, <1>2, <1>4
<1> QED BY <1>8, <1>9, <1>10, <1>11, <1>12 DEF w

\* A step that changes one node and its late requests, but not the rows.
LEMMA NodeAndLate ==
  ASSUME StoreInv, NEW n \in Nodes, NEW t, node' = [node EXCEPT ![n] = t],
         UNCHANGED <<owner, rows>>, PlaceTypes', up' \subseteq up, up \ {n} \subseteq up',
         Good(t, owner, rows), t.id = n, Rests(t), n \notin up' => Quiet(t),
         late' \subseteq Request,
         \A r \in late' : r.node \in Nodes /\ r.seq > 0 /\ decideSave(owner, r) \in Open,
         \A r \in late' : r.node = owner.holder => Sound(r, owner, rows),
         \A r \in late' : r.node # n => r \in late,
         \A r \in late' : r.node = n /\ owner.holder = n /\ n \in up' =>
           t.client.phase = "ready" /\ r = t.client.inflight,
         \A q, r \in late' : q.node = n /\ r.node = n /\ owner.holder = n => q = r
  PROVE  StoreInv'
<1>0. node \in [Nodes -> NodeState] /\ t \in NodeState
  BY DEF StoreInv, StoreTypes, Good
<1>1. node' \in [Nodes -> NodeState] /\ node'[n] = t
      /\ \A m \in Nodes : m # n => node'[m] = node[m]
  BY <1>0
<1>2. StoreTypes'
  BY <1>1 DEF StoreInv, StoreTypes, PlaceTypes
<1>3. ConsistentRows'
  BY DEF StoreInv, ConsistentRows
<1>4. NodesInv'
  <2>1. ASSUME NEW m \in Nodes
        PROVE  Good(node'[m], owner', rows') /\ Rests(node'[m])
    BY <2>1, <1>1 DEF StoreInv, NodesInv
  <2>2. ASSUME NEW m \in Nodes \ up' PROVE Quiet(node'[m])
    BY <2>2, <1>1 DEF StoreInv, NodesInv
  <2> QED BY <2>1, <2>2 DEF NodesInv
<1>5. LateInv'
  <2>1. ASSUME NEW r \in late', r.node = owner.holder, r.node \in up'
        PROVE  node'[r.node].client.phase = "ready" /\ r = node'[r.node].client.inflight
    <3>1. CASE r.node = n
      BY <2>1, <3>1, <1>1
    <3>2. CASE r.node # n
      BY <2>1, <3>2, <1>1 DEF StoreInv, LateInv
    <3> QED BY <3>1, <3>2
  <2>2. ASSUME NEW q \in late', NEW r \in late', q.node = owner.holder, r.node = owner.holder
        PROVE  q = r
    <3>1. CASE owner.holder = n
      BY <2>2, <3>1
    <3>2. CASE owner.holder # n
      BY <2>2, <3>2 DEF StoreInv, LateInv
    <3> QED BY <3>1, <3>2
  <2> QED BY <2>1, <2>2 DEF LateInv
<1> QED BY <1>2, <1>3, <1>4, <1>5 DEF StoreInv

LEMMA LateFacts ==
  ASSUME StoreInv
  PROVE  /\ \A r \in late : r.node \in Nodes /\ r.seq > 0 /\ decideSave(owner, r) \in Open
         /\ \A r \in late : r.node = owner.holder => Sound(r, owner, rows)
         /\ \A r \in late : r.node = owner.holder /\ r.node \in up =>
              node[r.node].client.phase = "ready" /\ r = node[r.node].client.inflight
         /\ \A q, r \in late : q.node = owner.holder /\ r.node = owner.holder => q = r
BY DEF StoreInv, LateInv

LEMMA SaveTimesOutStep ==
  ASSUME StoreInv, NEW n \in Nodes, SaveTimesOut(n)
  PROVE  StoreInv'
<1> DEFINE s == node[n]
           c == s.client
           e == [c EXCEPT !.phase = "ready", !.answer = "none", !.rowSeq = 0,
                          !.uncertain = @ \cup c.inflight.kinds]
           t == [s EXCEPT !.client = e]
<1>0. s \in NodeState /\ c \in Client /\ c.uncertain \cup c.inflight.kinds \in SUBSET Kinds
  BY NodeFacts, Parts, ClientParts, RequestParts
<1>1. /\ c.phase # "idle" /\ node' = [node EXCEPT ![n] = t]
      /\ late' = IF c.phase = "ready" THEN StillOpen(owner, late \cup {c.inflight}) ELSE late
      /\ UNCHANGED <<owner, rows, up, loc, round, route>>
  <2>1. [s EXCEPT !.client.phase = "ready", !.client.answer = "none", !.client.rowSeq = 0,
                  !.client.uncertain = @ \cup c.inflight.kinds] = t
    BY <1>0 DEF NodeState, Client
  <2> QED BY <2>1 DEF SaveTimesOut, NodeStep, placeVars
<1>2. /\ Good(s, owner, rows) /\ s.id = n /\ owner \in Owner /\ rows \in Rows
      /\ late \subseteq Request /\ PlaceTypes'
  BY <1>1, NodeFacts DEF PlaceTypes
<1>3. n \in up
  BY <1>1, NodeFacts DEF Quiet, InUse, Busy
<1>4. /\ e \in Client /\ e.inflight = c.inflight /\ e.phase = "ready" /\ e.pending = c.pending
      /\ e.confirmed = c.confirmed /\ e.uncertain = c.uncertain \cup c.inflight.kinds
      /\ e.answer = "none"
  BY <1>0 DEF Client, Answers
<1> HIDE DEF e
<1>5. /\ Good(t, owner, rows) /\ t.id = n /\ Rests(t)
      /\ t.client.phase = "ready" /\ t.client.inflight = c.inflight
  BY <1>1, <1>2, <1>4, Resends
<1> HIDE DEF t
<1>6. CASE c.phase = "ready"
  <2>1. late' = StillOpen(owner, late \cup {c.inflight})
    BY <1>1, <1>6
  <2>2. PICK x : x = late'
    OBVIOUS
  <2>3. /\ x \subseteq Request
        /\ \A r \in x : r.node \in Nodes /\ r.seq > 0 /\ decideSave(owner, r) \in Open
        /\ \A r \in x : r.node = owner.holder => Sound(r, owner, rows)
        /\ \A r \in x : r.node = n /\ owner.holder = n => r = c.inflight
        /\ \A r \in x : r.node # n => r \in late
    BY <2>1, <2>2, <1>3, <1>6, GivenUp
  <2>4. /\ \A r \in late' : r.node = n /\ owner.holder = n =>
             t.client.phase = "ready" /\ r = t.client.inflight
        /\ \A q, r \in late' : q.node = n /\ r.node = n /\ owner.holder = n => q = r
    BY <2>2, <2>3, <1>5
  <2>5. /\ late' \subseteq Request
        /\ \A r \in late' : r.node \in Nodes /\ r.seq > 0 /\ decideSave(owner, r) \in Open
        /\ \A r \in late' : r.node = owner.holder => Sound(r, owner, rows)
        /\ \A r \in late' : r.node # n => r \in late
    BY <2>2, <2>3
  <2>6. up' \subseteq up /\ up \ {n} \subseteq up' /\ n \in up'
    BY <1>1, <1>3
  <2> QED BY <2>4, <2>5, <2>6, <1>1, <1>2, <1>5, NodeAndLate
<1>7. CASE c.phase # "ready"
  <2>1. late' = late
    BY <1>1, <1>7
  <2>2. owner.holder = n => \A r \in late : r.node # n
    BY <1>3, <1>7, LateFacts
  <2> QED BY <2>1, <2>2, <1>1, <1>2, <1>3, <1>5, NodeAndLate, LateFacts
<1> QED BY <1>6, <1>7

LEMMA CrashStep ==
  ASSUME StoreInv, NEW n \in Nodes, Crash(n)
  PROVE  StoreInv'
<1> DEFINE s == node[n]
           c == s.client
           t == [NewNode(n) EXCEPT !.published = s.published]
<1>1. /\ n \in up /\ up' = up \ {n} /\ node' = [node EXCEPT ![n] = t]
      /\ route' = [route EXCEPT ![n] = 0]
      /\ late' = late \/ (c.phase = "ready" /\ late' = StillOpen(owner, late \cup {c.inflight}))
      /\ UNCHANGED <<owner, rows, loc, round>>
  BY DEF Crash, NodeStep
<1>2. /\ Good(s, owner, rows) /\ s \in NodeState /\ s.published \in Nat
      /\ owner \in Owner /\ rows \in Rows /\ late \subseteq Request /\ PlaceTypes'
  BY <1>1, NodeFacts, Parts DEF PlaceTypes
<1>3. /\ t \in NodeState /\ t.id = n /\ t.ent = NoEntity /\ t.client = NoClient
      /\ t.claim = NoClaim /\ t.enter = 0 /\ t.lastSeq = 0 /\ t.behind = FALSE
      /\ t.published = s.published
  BY <1>2, Blanks DEF NewNode, NodeState
<1> HIDE DEF t
<1>4. Quiet(t) /\ ~InUse(t) /\ ~HasEntity(t)
  BY <1>3, BlankClient DEF Quiet, InUse, HasEntity
<1>5. Ordered(t) /\ Settles(t)
  BY <1>3, <1>4, BlankClient DEF Ordered, Settles
<1>6. Durable(t, rows)
  BY <1>2, <1>3, BlankClient, RowParts DEF Durable, Good
<1>7. ClientHolds(t, owner, rows) /\ MemoryHolds(t, owner, rows)
  BY <1>3, <1>4, BlankClient DEF ClientHolds, MemoryHolds
<1>8. Good(t, owner, rows) /\ Rests(t)
  BY <1>3, <1>5, <1>6, <1>7, BlankClient DEF Good, Rests
<1>9. CASE late' = late
  <2>1. /\ late' \subseteq Request
        /\ \A r \in late' : r.node \in Nodes /\ r.seq > 0 /\ decideSave(owner, r) \in Open
        /\ \A r \in late' : r.node = owner.holder => Sound(r, owner, rows)
        /\ \A r \in late' : r.node # n => r \in late
        /\ \A q, r \in late' : q.node = n /\ r.node = n /\ owner.holder = n => q = r
    BY <1>2, <1>9, LateFacts
  <2>2. up' \subseteq up /\ up \ {n} \subseteq up' /\ n \notin up'
    BY <1>1
  <2> QED BY <2>1, <2>2, <1>1, <1>2, <1>3, <1>4, <1>8, NodeAndLate
<1>10. CASE c.phase = "ready" /\ late' = StillOpen(owner, late \cup {c.inflight})
  <2>1. PICK x : x = late'
    OBVIOUS
  <2>2. /\ x \subseteq Request
        /\ \A r \in x : r.node \in Nodes /\ r.seq > 0 /\ decideSave(owner, r) \in Open
        /\ \A r \in x : r.node = owner.holder => Sound(r, owner, rows)
        /\ \A r \in x : r.node = n /\ owner.holder = n => r = c.inflight
        /\ \A r \in x : r.node # n => r \in late
    BY <2>1, <1>1, <1>10, GivenUp
  <2> QED BY <2>1, <2>2, <1>1, <1>2, <1>3, <1>4, <1>8, NodeAndLate
<1> QED BY <1>1, <1>9, <1>10

\* A save that its sender gave up is executed.
LEMMA ExecuteLateStep ==
  ASSUME StoreInv, NEW r \in late, ExecuteLate(r)
  PROVE  StoreInv'
<1>1. Save(r, late \ {r}) /\ UNCHANGED <<node, up, loc, round, route>>
  BY DEF ExecuteLate, placeVars
<1>2. /\ r \in Request /\ r.node \in Nodes /\ owner \in Owner /\ late \subseteq Request
      /\ node \in [Nodes -> NodeState] /\ PlaceTypes'
  BY <1>1, LateFacts DEF StoreInv, StoreTypes, PlaceTypes
<1>3. CASE decideSave(owner, r) = "COMMITTED"
  <2>1. r.node = owner.holder
    BY <1>2, <1>3, Decides
  <2>2. Sound(r, owner, rows)
    BY <2>1, LateFacts
  <2>3. \/ node[r.node].client.phase = "ready" /\ r = node[r.node].client.inflight
        \/ r.node \notin up
    BY <2>1, LateFacts
  <2>4. /\ owner' \in Owner /\ rows' \in Rows /\ ConsistentRows'
        /\ owner'.holder = owner.holder /\ late' = StillOpen(owner', late \ {r})
        /\ \A m \in Nodes : Good(node[m], owner', rows')
    BY <2>2, <2>3, <1>1, <1>2, <1>3, CommitStep
  <2>5. ASSUME NEW q \in late'
        PROVE  /\ q \in Request /\ q.node \in Nodes /\ q.seq > 0
               /\ decideSave(owner', q) \in Open /\ q.node # owner'.holder
    <3>1. q \in late /\ q # r /\ decideSave(owner', q) \in Open
      BY <2>4, <2>5 DEF StillOpen, Open
    <3> QED BY <3>1, <2>1, <2>4, <1>2, LateFacts
  <2>6. ASSUME NEW m \in Nodes
        PROVE  /\ Good(node'[m], owner', rows') /\ Rests(node'[m])
               /\ node'[m].id = m
               /\ m \notin up => Quiet(node'[m])
    BY <2>4, <1>1, NodeFacts
  <2> QED BY <2>4, <2>5, <2>6, <1>1, <1>2, StoreStep
<1>4. CASE decideSave(owner, r) # "COMMITTED"
  <2>1. UNCHANGED <<owner, rows>> /\ late' \subseteq late
    BY <1>1, <1>4 DEF Save
  <2>2. StoreTypes'
    BY <2>1, <1>1 DEF StoreInv, StoreTypes
  <2>3. ConsistentRows'
    BY <2>1 DEF StoreInv, ConsistentRows
  <2>4. NodesInv'
    BY <2>1, <1>1 DEF StoreInv, NodesInv
  <2>5. LateInv'
    BY <2>1, <1>1, LateFacts DEF LateInv
  <2> QED BY <2>2, <2>3, <2>4, <2>5 DEF StoreInv
<1> QED BY <1>3, <1>4

LEMMA AttemptClaimStep ==
  ASSUME StoreInv, NEW n \in Nodes, AttemptClaim(n)
  PROVE  StoreInv'
<1> DEFINE s == node[n]
           a == decideClaim(owner, s.enter, n)
           c == [phase |-> "answered", epoch |-> s.enter, rows |-> rows, seq |-> owner.seq,
                 answer |-> a]
           t == [s EXCEPT !.claim = c]
<1>1. /\ s.claim.phase = "ready" /\ UNCHANGED <<rows, up, loc, round, route>>
      /\ \/ node' = [node EXCEPT ![n] = LoadFailed(s)] /\ UNCHANGED <<owner, late>>
         \/ LoadAndClaim(n, s.enter) /\ node' = [node EXCEPT ![n] = t]
  BY DEF AttemptClaim, NodeStep
<1>2. /\ Good(s, owner, rows) /\ s.id = n /\ s \in NodeState /\ s.enter \in Nat /\ Rests(s)
      /\ owner \in Owner /\ rows \in Rows /\ late \subseteq Request /\ PlaceTypes'
      /\ owner.seq \in Nat /\ owner.epoch \in Nat /\ node \in [Nodes -> NodeState]
  BY <1>1, NodeFacts, Parts DEF PlaceTypes, Owner
<1>3. n \in up
  BY <1>1, NodeFacts DEF Quiet
<1>4. CASE node' = [node EXCEPT ![n] = LoadFailed(s)] /\ UNCHANGED <<owner, late>>
  <2>1. Step(s, LoadFailed(s), owner, rows)
    BY <1>2, FailsLoad
  <2> QED BY <1>1, <1>2, <1>3, <1>4, <2>1, ClientStep
<1>5. a \in Answers
  BY DEF decideClaim, Answers
<1>6. /\ c \in Claim /\ c.phase = "answered" /\ c.rows = rows /\ c.seq = owner.seq
      /\ c.answer = a
  BY <1>2, <1>5 DEF Claim
<1> HIDE DEF c
<1>7. ~HasEntity(s) /\ ~Busy(s.client) /\ c.rows["log"] <= rows["log"]
  BY <1>1, <1>2, <1>6, RowParts DEF Good, Settles
<1>8. CASE LoadAndClaim(n, s.enter) /\ node' = [node EXCEPT ![n] = t] /\ a = "CLAIMED"
  <2>1. /\ owner' = [owner EXCEPT !.epoch = s.enter, !.holder = n,
                                  !.released = FALSE, !.claimed = TRUE]
        /\ late' = StillOpen(owner', Outlived(n, 0))
    BY <1>8 DEF LoadAndClaim
  <2>2. owner' \in Owner /\ owner'.holder = n /\ owner'.seq = owner.seq
    BY <2>1, <1>2 DEF Owner
  <2>3. Good(s, owner', rows)
    <3>1. ~InUse(s)
      BY <1>1, <1>7 DEF InUse
    <3>2. rows["log"] <= rows["log"]
      BY <1>2, RowParts
    <3> QED BY <3>1, <3>2, <1>1, <1>2, UnusedNode
  <2>4. Step(s, t, owner', rows)
    BY <2>2, <2>3, <1>2, <1>6, <1>7, NewClaim
  <2> HIDE DEF t
  <2>5. Good(t, owner', rows') /\ t.id = n /\ Rests(t) /\ t \in NodeState
    BY <2>4, <1>1, <1>2 DEF Step, Good
  <2>6. node' \in [Nodes -> NodeState] /\ node'[n] = t
        /\ \A m \in Nodes : m # n => node'[m] = node[m]
    BY <2>5, <1>2, <1>8
  <2>7. ASSUME NEW m \in Nodes
        PROVE  /\ Good(node'[m], owner', rows') /\ Rests(node'[m])
               /\ node'[m].id = m
               /\ m \notin up => Quiet(node'[m])
    <3>1. CASE m = n
      BY <3>1, <2>5, <2>6, <1>3
    <3>2. CASE m # n
      <4>1. /\ Good(node[m], owner, rows) /\ node[m].id = m /\ Rests(node[m])
            /\ m \notin up => Quiet(node[m])
        BY NodeFacts
      <4>2. rows["log"] <= rows["log"]
        BY <1>2, RowParts
      <4>3. Good(node[m], owner', rows)
        BY <4>1, <4>2, <3>2, <2>2, <1>2, OtherNode
      <4> QED BY <4>1, <4>3, <3>2, <2>6, <1>1
    <3> QED BY <3>1, <3>2
  <2>8. ASSUME NEW q \in late'
        PROVE  /\ q \in Request /\ q.node \in Nodes /\ q.seq > 0
               /\ decideSave(owner', q) \in Open /\ q.node # owner'.holder
    <3>1. /\ q \in late /\ decideSave(owner', q) \in Open
          /\ q.node # n \/ q.seq = 0
      BY <2>1, <2>8 DEF StillOpen, Outlived, Open
    <3>2. q \in Request /\ q.node \in Nodes /\ q.seq > 0 /\ q.seq \in Nat
      BY <3>1, <1>2, LateFacts, RequestParts
    <3> QED BY <3>1, <3>2, <2>2
  <2>9. ConsistentRows'
    BY <1>1 DEF StoreInv, ConsistentRows
  <2> QED BY <2>2, <2>6, <2>7, <2>8, <2>9, <1>1, <1>2, StoreStep
<1>9. CASE LoadAndClaim(n, s.enter) /\ node' = [node EXCEPT ![n] = t] /\ a # "CLAIMED"
  <2>1. UNCHANGED <<owner, late>>
    BY <1>9 DEF LoadAndClaim
  <2>2. Step(s, t, owner, rows)
    BY <1>2, <1>6, <1>7, <1>9, NewClaim
  <2> HIDE DEF t
  <2> QED BY <1>1, <1>2, <1>3, <1>9, <2>1, <2>2, ClientStep
<1> QED BY <1>1, <1>4, <1>8, <1>9

LEMMA SceneNodeStep ==
  ASSUME StoreInv, NEW n \in Nodes, SceneNode(n)
  PROVE  StoreInv'
BY EnterStep, EntitySteps, LoadSteps, LoadStep, CatchUpStep, DeliverSaveStep,
   ExecuteSaveStep, SaveTimesOutStep, AttemptClaimStep, CrashStep DEF SceneNode

\* A row that is left to no one: what nodes know of it does not matter any more.
LEMMA FreedRow ==
  ASSUME StoreInv, NEW e \in Nat, PlaceTypes', UNCHANGED <<rows, node, up>>,
         owner' = [owner EXCEPT !.epoch = e, !.holder = NoNode, !.released = TRUE],
         late' = StillOpen(owner', late)
  PROVE  StoreInv'
<1>0. /\ owner \in Owner /\ rows \in Rows /\ late \subseteq Request
      /\ node \in [Nodes -> NodeState]
  BY DEF StoreInv, StoreTypes
<1>1. owner' \in Owner /\ owner'.holder = NoNode
  BY <1>0 DEF Owner
<1>2. ASSUME NEW m \in Nodes
      PROVE  /\ Good(node'[m], owner', rows') /\ Rests(node'[m])
             /\ node'[m].id = m
             /\ m \notin up => Quiet(node'[m])
  <2>1. /\ Good(node[m], owner, rows) /\ node[m].id = m /\ Rests(node[m])
        /\ m \notin up => Quiet(node[m])
    BY NodeFacts
  <2>2. rows["log"] <= rows["log"] /\ owner'.holder # m
    BY <1>0, <1>1, RowParts
  <2>3. Good(node[m], owner', rows)
    BY <2>1, <2>2, <1>0, OtherNode
  <2> QED BY <2>1, <2>3
<1>3. ASSUME NEW q \in late'
      PROVE  /\ q \in Request /\ q.node \in Nodes /\ q.seq > 0
             /\ decideSave(owner', q) \in Open /\ q.node # owner'.holder
  <2>1. q \in late /\ decideSave(owner', q) \in Open
    BY <1>3 DEF StillOpen, Open
  <2> QED BY <2>1, <1>0, <1>1, LateFacts
<1>4. ConsistentRows'
  BY DEF StoreInv, ConsistentRows
<1> QED BY <1>0, <1>1, <1>2, <1>3, <1>4, StoreStep

LEMMA ReleaseRowStep ==
  ASSUME StoreInv, ReleaseDeadHolder
  PROVE  StoreInv'
<1>0. PlaceTypes /\ round.epoch + 1 \in Nat
  BY DEF StoreInv, StoreTypes, PlaceTypes
<1>1. /\ UNCHANGED <<rows, node, up, route>> /\ round' = NoRound
      /\ loc' \in {loc, [loc EXCEPT !.node = NoNode]}
  BY DEF ReleaseDeadHolder
<1>2. PlaceTypes'
  BY <1>0, <1>1 DEF PlaceTypes, NoRound
<1>3. CASE decideDeadHolderRelease(owner, round)
  <2>1. /\ owner' = [owner EXCEPT !.epoch = round.epoch + 1, !.holder = NoNode,
                                  !.released = TRUE]
        /\ late' = StillOpen(owner', late)
    BY <1>3 DEF ReleaseDeadHolder
  <2> QED BY <2>1, <1>0, <1>1, <1>2, FreedRow
<1>4. CASE ~decideDeadHolderRelease(owner, round)
  <2>1. UNCHANGED <<owner, late>>
    BY <1>4 DEF ReleaseDeadHolder
  <2> QED BY <2>1, <1>1, <1>2, PlaceStep
<1> QED BY <1>3, <1>4

LEMMA RevokeRowStep ==
  ASSUME StoreInv, RevokeUnqualifiedHolder
  PROVE  StoreInv'
<1>0. PlaceTypes /\ owner.epoch \in Nat /\ loc.epoch \in Nat
  BY DEF StoreInv, StoreTypes, PlaceTypes, Owner
<1>1. PICK e \in (owner.epoch + 1)..loc.epoch :
        /\ owner' = [owner EXCEPT !.epoch = e, !.holder = NoNode, !.released = TRUE]
        /\ loc' \in {loc, [loc EXCEPT !.node = NoNode]}
  BY DEF RevokeUnqualifiedHolder
<1>2. UNCHANGED <<rows, node, up, route, round>> /\ late' = StillOpen(owner', late)
  BY DEF RevokeUnqualifiedHolder
<1>3. PlaceTypes' /\ e \in Nat
  BY <1>0, <1>1, <1>2 DEF PlaceTypes
<1> QED BY <1>1, <1>2, <1>3, FreedRow

\* The first read of a release round only clears the mark of the last claim.
LEMMA ReadRowStep ==
  ASSUME StoreInv, ReadHolder
  PROVE  StoreInv'
<1>0. owner \in Owner /\ rows \in Rows /\ PlaceTypes /\ loc.epoch \in Nat
      /\ owner.holder \in Nodes \cup {NoNode} /\ owner.epoch \in Nat
  BY DEF StoreInv, StoreTypes, PlaceTypes, Owner
<1>1. /\ UNCHANGED <<rows, late, node, up, loc, route>>
      /\ round' = [phase |-> "read", epoch |-> loc.epoch, seen |-> owner.holder,
                   seenEpoch |-> owner.epoch]
      /\ owner' = [owner EXCEPT !.claimed = FALSE]
  BY DEF ReadHolder
<1>2. PlaceTypes'
  BY <1>0, <1>1 DEF PlaceTypes
<1>3. /\ owner' \in Owner /\ owner'.holder = owner.holder /\ owner'.seq = owner.seq
      /\ owner'.epoch = owner.epoch
  BY <1>0, <1>1 DEF Owner
<1>4. \A r : decideSave(owner', r) = decideSave(owner, r)
  BY <1>0, <1>3, DecidesSame
<1>5. \A r : Sound(r, owner', rows) <=> Sound(r, owner, rows)
  BY <1>3 DEF Sound
<1>6. ASSUME NEW s, Good(s, owner, rows)
      PROVE  Good(s, owner', rows)
  BY <1>3, <1>4, <1>5, <1>6 DEF Good, ClientHolds, MemoryHolds, Seeded
<1>7. StoreTypes'
  BY <1>1, <1>2, <1>3 DEF StoreInv, StoreTypes, PlaceTypes
<1>8. ConsistentRows'
  BY <1>1 DEF StoreInv, ConsistentRows
<1>9. NodesInv'
  BY <1>1, <1>6 DEF StoreInv, NodesInv
<1>10. LateInv'
  BY <1>1, <1>3, <1>4, <1>5 DEF StoreInv, LateInv
<1> QED BY <1>7, <1>8, <1>9, <1>10 DEF StoreInv

LEMMA ManagerStep ==
  ASSUME StoreInv, SceneManager
  PROVE  StoreInv'
<1>0. PlaceTypes /\ loc.epoch \in Nat
  BY DEF StoreInv, StoreTypes, PlaceTypes
<1>1. ASSUME NEW n \in Nodes, Route(n) PROVE StoreInv'
  <2>1. PICK e \in IF loc.node = n THEN {loc.epoch} ELSE mintTargetEpoch(loc.epoch) :
          loc' = [node |-> n, epoch |-> e] /\ route' = [route EXCEPT ![n] = e]
    BY <1>1 DEF Route
  <2>2. e \in Nat
    BY <2>1, <1>0 DEF mintTargetEpoch
  <2>3. UNCHANGED <<owner, rows, node, late, up, round>>
    BY <1>1 DEF Route, storeVars
  <2>4. PlaceTypes'
    BY <2>1, <2>2, <2>3, <1>0 DEF PlaceTypes
  <2> QED BY <2>3, <2>4, PlaceStep
<1>2. ASSUME NEW n \in Nodes, RegistrationEnds(n) \/ Reregisters(n) PROVE StoreInv'
  <2>1. UNCHANGED <<owner, rows, node, late, up, round, loc, route>>
    BY <1>2 DEF RegistrationEnds, Reregisters, storeVars
  <2> QED BY <2>1, <1>0, PlaceStep DEF PlaceTypes
<1>3. CASE LocationRemoved
  <2>1. UNCHANGED <<owner, rows, node, late, up, round, route>>
        /\ loc' = [loc EXCEPT !.node = NoNode]
    BY <1>3 DEF LocationRemoved, storeVars
  <2>2. PlaceTypes'
    BY <2>1, <1>0 DEF PlaceTypes
  <2> QED BY <2>1, <2>2, PlaceStep
<1>4. CASE CheckRegistry
  <2>1. UNCHANGED <<owner, rows, node, late, up, loc, route>>
        /\ round' = IF round.seen \in etcd THEN NoRound ELSE [round EXCEPT !.phase = "checked"]
    BY <1>4 DEF CheckRegistry, storeVars
  <2>2. PlaceTypes'
    BY <2>1, <1>0 DEF PlaceTypes, NoRound
  <2> QED BY <2>1, <2>2, PlaceStep
<1> QED BY <1>1, <1>2, <1>3, <1>4, ReadRowStep, ReleaseRowStep, RevokeRowStep
   DEF SceneManager

LEMMA StoreInductive ==
  ASSUME StoreInv, [Next]_vars
  PROVE  StoreInv'
<1>1. CASE UNCHANGED vars
  <2>1. UNCHANGED <<owner, rows, node, late, up, loc, route, round>>
    BY <1>1 DEF vars, storeVars, placeVars
  <2>2. PlaceTypes'
    BY <2>1 DEF StoreInv, StoreTypes, PlaceTypes
  <2> QED BY <2>1, <2>2, PlaceStep
<1> QED BY <1>1, SceneNodeStep, ExecuteLateStep, ManagerStep DEF Next

LEMMA StoreInit == Init => StoreInv
<1>1. SUFFICES ASSUME Init PROVE StoreInv
  OBVIOUS
<1>2. /\ owner = [epoch |-> 0, seq |-> FirstSeq, holder |-> NoNode, released |-> TRUE,
                  claimed |-> FALSE]
      /\ rows = Payload(0) /\ node = [n \in Nodes |-> NewNode(n)] /\ up = Nodes /\ late = {}
      /\ loc = [node |-> NoNode, epoch |-> 0] /\ route = [n \in Nodes |-> 0]
      /\ round = [phase |-> "idle", epoch |-> 0, seen |-> NoNode, seenEpoch |-> 0]
  BY <1>1 DEF Init, NoRound
<1>3. owner \in Owner /\ owner.holder = NoNode
  BY <1>2 DEF Owner
<1>4. rows \in Rows /\ rows["log"] = 0 /\ rows["bag"] = 0 % 2
  BY <1>2, PayloadRows
<1>5. PlaceTypes
  BY <1>2 DEF PlaceTypes
<1>6. ASSUME NEW n \in Nodes
      PROVE  NewNode(n) \in NodeState /\ NewNode(n).id = n /\ Good(NewNode(n), owner, rows)
             /\ Rests(NewNode(n))
  <2> DEFINE t == NewNode(n)
  <2>1. /\ t \in NodeState /\ t.id = n /\ t.ent = NoEntity /\ t.client = NoClient
        /\ t.claim = NoClaim /\ t.behind = FALSE /\ t.published = 0
    BY Blanks DEF NewNode, NodeState
  <2> HIDE DEF t
  <2>2. ~HasEntity(t)
    BY <2>1 DEF HasEntity
  <2>3. Ordered(t) /\ Settles(t)
    BY <2>1, <2>2, BlankClient DEF Ordered, Settles
  <2>4. Durable(t, rows)
    BY <2>1, <1>4, BlankClient DEF Durable
  <2>5. Rests(t)
    BY <2>1, BlankClient DEF Rests
  <2>6. owner.holder # t.id
    BY <2>1, <1>3
  <2> QED BY <2>1, <2>3, <2>4, <2>5, <2>6 DEF Good, t
<1>7. node \in [Nodes -> NodeState] /\ \A n \in Nodes : node[n] = NewNode(n)
  BY <1>2, <1>6
<1>8. StoreTypes
  BY <1>2, <1>3, <1>4, <1>5, <1>6, <1>7 DEF StoreTypes, PlaceTypes
<1>9. ConsistentRows
  BY <1>4 DEF ConsistentRows
<1>10. NodesInv
  BY <1>2, <1>6, <1>7 DEF NodesInv
<1>11. LateInv
  BY <1>2 DEF LateInv
<1> QED BY <1>8, <1>9, <1>10, <1>11 DEF StoreInv

-----------------------------------------------------------------------------
(* The theorems.                                                           *)

\* The inductive invariant holds in every reachable state: what each node
\* knows of the store is right, for any number of nodes, versions, epochs,
\* lost answers, late commits and crashes.
THEOREM StoreSafe == Spec => []StoreInv
<1>1. StoreInv /\ [Next]_vars => StoreInv'
  BY StoreInductive
<1> QED BY <1>1, StoreInit, PTL DEF Spec

\* Save writes only the rows its client believes changed, and yet the stored
\* rows are always those of one moment of the character.
THEOREM RowsConsistent == Spec => []ConsistentRows
<1>1. StoreInv => ConsistentRows
  BY DEF StoreInv
<1> QED BY <1>1, StoreSafe, PTL

\* The entity of the node that holds the row never falls behind the store: no
\* save of an earlier holder is committed under it.
THEOREM HolderCurrent == Spec => []HolderUpToDate
<1>1. StoreInv => HolderUpToDate
  <2>1. SUFFICES ASSUME StoreInv, NEW n \in Nodes, HasEntity(node[n]), owner.holder = n
                 PROVE  node[n].ent.ver >= rows["log"]
    BY DEF HolderUpToDate
  <2>2. /\ Good(node[n], owner, rows) /\ node[n].id = n /\ rows["log"] \in Nat
        /\ node[n].ent.ver \in Nat
    BY <2>1, NodeFacts, Parts, EntityParts, RowParts
  <2>3. rows["log"] <= node[n].ent.ver
    BY <2>1, <2>2 DEF Good, MemoryHolds
  <2> QED BY <2>2, <2>3
<1> QED BY <1>1, StoreSafe, PTL

\* A transaction log leaves a node only when the change it tells of is stored,
\* and the change is never taken back.
THEOREM PublishedSafe == Spec => []PublishedDurable
<1>1. StoreInv => PublishedDurable
  BY DEF StoreInv, NodesInv, Good, Durable, PublishedDurable
<1> QED BY <1>1, StoreSafe, PTL

\* No save of a live entity is refused as older than the store, though a process
\* whose clock is behind refuses the row's number: only a snapshot that outlived
\* its entity is, and only where clocks may be that far apart.
THEOREM NeverOlder == Spec => []LiveSaveNeverOlder
<1>1. StoreInv => LiveSaveNeverOlder
  <2>1. SUFFICES ASSUME StoreInv, NEW n \in Nodes, node[n].client.answer = "OLDER_SEQ"
                 PROVE  ClocksAhead /\ ~HasEntity(node[n])
    BY DEF LiveSaveNeverOlder
  <2>2. Good(node[n], owner, rows) /\ Rests(node[n])
    BY <2>1, NodeFacts
  <2> QED BY <2>1, <2>2 DEF Good, Ordered, Rests
<1> QED BY <1>1, StoreSafe, PTL

\* A holder that came back and claimed again between the reads and the commit of
\* a dead-holder release keeps the row: it is taken only from a node whose
\* registration had ended at some time since it claimed, or from one that a newer
\* epoch has replaced, however the reads and the commit are interleaved with
\* claims, saves, revocations and registrations of any number of nodes.
THEOREM ReleaseSafe == Spec => ReleaseSparesReclaimed
<1>1. ReleaseInv /\ StoreTypes /\ [Next]_vars =>
        ReleaseInv' /\ [owner'.holder = NoNode /\ owner.holder # NoNode
                          => owner.holder \in lapsed \/ owner.epoch < loc.epoch]_vars
  BY ReleaseStep DEF SparesReclaimed
<1>2. StoreInv => StoreTypes
  BY DEF StoreInv
<1> QED BY <1>1, <1>2, ReleaseInit, StoreSafe, PTL DEF Spec, ReleaseSparesReclaimed

\* An exit that a committed save ends stores the last state of the entity.
ExitStores ==
  \A n \in Nodes :
    /\ DeliverSave(n) /\ node[n].client.answer \in {"COMMITTED", "EQUAL"}
    /\ node[n].ent.exiting /\ node'[n].ent = NoEntity
    => rows["log"] >= node[n].ent.ver

LEMMA ExitStep ==
  ASSUME StoreInv
  PROVE  ExitStores
<1>1. SUFFICES ASSUME NEW n \in Nodes, DeliverSave(n),
                      node[n].client.answer \in {"COMMITTED", "EQUAL"},
                      node[n].ent.exiting, node'[n].ent = NoEntity
               PROVE  rows["log"] >= node[n].ent.ver
  BY DEF ExitStores
<1> DEFINE s == node[n]
           t == HandleSaveResponse(s)
<1>2. /\ Good(s, owner, rows) /\ Rests(s) /\ owner \in Owner /\ rows \in Rows /\ rows["log"] \in Nat
      /\ s.ent.ver \in Nat /\ node \in [Nodes -> NodeState]
  BY NodeFacts, Parts, EntityParts, RowParts
<1>3. s.client.phase = "answered" /\ node' = [node EXCEPT ![n] = t]
  BY <1>1 DEF DeliverSave, NodeStep
<1>4. Kept(s, t, rows)
  BY <1>1, <1>2, <1>3, AnswerGood DEF Done
<1> HIDE DEF t
<1>5. t.ent = NoEntity
  BY <1>1, <1>2, <1>3
<1>6. ~(t.ent.exiting = s.ent.exiting)
  BY <1>1, <1>5, BlankClient
<1>7. s.ent.ver <= rows["log"]
  BY <1>4, <1>6 DEF Kept
<1> QED BY <1>2, <1>7

\* An exit that ends with a committed save loses nothing of what happened
\* while the save was under way, however the saves of the exit were retried.
THEOREM ExitSafe == Spec => ExitKeepsProgress
<1>1. StoreInv =>
        [\A n \in Nodes :
           /\ DeliverSave(n) /\ node[n].client.answer \in {"COMMITTED", "EQUAL"}
           /\ node[n].ent.exiting /\ node'[n].ent = NoEntity
           => rows["log"] >= node[n].ent.ver]_vars
  BY ExitStep DEF ExitStores
<1> QED BY <1>1, StoreSafe, PTL DEF ExitKeepsProgress
=============================================================================
