------------------------------ MODULE AssetOp ------------------------------
(***************************************************************************)
(* One operation of the asset channel (go/shared/assetop).  A service, the *)
(* guild for instance, has changed its own books in advance and asks the   *)
(* scene node of a player to give or take assets.  The operation is a row  *)
(* of an outbox.  Workers of the reconcile loop claim the row under a      *)
(* lease, deliver it, look the outcome up in the stored ledger of the      *)
(* player and finalize the row; the abandon job and the repair tool refund *)
(* a row that was never delivered.                                         *)
(*                                                                         *)
(* The scene applies the operation in memory and records the outcome in a  *)
(* ledger that is stored together with the assets.  Of a character, ent,   *)
(* save and st keep only that ledger entry; saves are fenced by the owner  *)
(* epoch as in PlayerStore, where the claim of a row, its load and the     *)
(* retries of a save are modelled step by step.                            *)
(***************************************************************************)
EXTENDS Integers

CONSTANTS
  Workers,       \* goroutines that process rows; a claim's token is its worker
  Nodes,         \* scene processes
  Budget,        \* OpBudget: a worker sends no later than this after its claim
  Lease,         \* LoopConfig.Lease
  Life,          \* a request is executed no later than this after it was sent
  SaveLag,       \* see StoredInTime
  Gap,           \* AbandonSafetyGap and ManualQuietGap
  AbandonAfter,  \* LoopConfig.AbandonAfter
  Deadline,      \* from then on the operation is delivered as an abort
  MaxTime,       \* bound: the clock
  MaxEpoch,      \* bound: owner epochs
  MaxEvents      \* bound: claims, repairs, enters, exits, reconnects, lost answers,
                 \* stopped workers, crashes and dead holders in a behaviour

ASSUME AssetOpAssumption ==
  /\ Budget \in Nat /\ Lease \in Nat /\ Life \in Nat /\ SaveLag \in Nat /\ Gap \in Nat
  /\ AbandonAfter \in Nat /\ Deadline \in Nat /\ MaxTime \in Nat /\ MaxEpoch \in Nat
  /\ MaxEvents \in Nat
  /\ Budget < Lease
  /\ Life <= SaveLag
  /\ Budget + SaveLag < Gap

VARIABLES
  now,     \* the clock
  row,     \* the row of the outbox
  worker,  \* per worker: its claim and what it knows
  clerk,   \* the repair tool: what it read and what it decided
  net,     \* requests that may still be executed
  ent,     \* per node: the entity of the player
  save,    \* per node: the save in flight
  st,      \* the stored row of the player: epoch, released and ledger entry
  events   \* bounded events so far

rowVars == <<row, worker, clerk>>
sceneVars == <<ent, save, st>>
vars == <<now, rowVars, net, sceneVars, events>>

Max2(a, b) == IF a >= b THEN a ELSE b

Created == 1
Outcomes == {"applied", "rejected", "aborted"}

NoEntity == [on |-> FALSE, epoch |-> 0, led |-> "unseen", leaving |-> FALSE, sentAt |-> 0]
NoSave   == [on |-> FALSE, epoch |-> 0, led |-> "unseen", release |-> FALSE, sentAt |-> 0]
Idle     == [pc |-> "idle", at |-> 0, lastSend |-> 0, res |-> "none"]
NoClerk  == [pc |-> "idle", at |-> 0, lease |-> 0, lastSend |-> 0, final |-> "PENDING"]

\* The row is inserted with a lease for the call that delivers it at once.
\* The player is on one node or on none.
Init ==
  /\ now = Created
  /\ \E w \in Workers :
       /\ row = [status |-> "PENDING", lease |-> Created + Lease, token |-> w,
                 lastSend |-> Created]
       /\ worker = [v \in Workers |->
            IF v = w THEN [Idle EXCEPT !.pc = "claimed", !.at = Created, !.lastSend = Created]
            ELSE Idle]
  /\ clerk = NoClerk
  /\ net = {}
  /\ save = [n \in Nodes |-> NoSave]
  /\ \E home \in SUBSET Nodes :
       /\ \A m \in home, n \in home : m = n
       /\ ent = [n \in Nodes |-> IF n \in home THEN [NoEntity EXCEPT !.on = TRUE, !.epoch = 1]
                                 ELSE NoEntity]
       /\ st = [epoch |-> 1, released |-> home = {}, led |-> "unseen"]
  /\ events = 0

Pending == row.status = "PENDING"

Event == events < MaxEvents /\ events' = events + 1

-----------------------------------------------------------------------------
(* The table: the statements of GuildAssetStore.                           *)

\* A lease that was not given back covers every send under it: it becomes
\* last_send before the new lease replaces it.
ClaimRow(w) ==
  /\ Pending /\ row.lease < now
  /\ row' = [row EXCEPT !.lastSend = Max2(@, row.lease), !.lease = now + Lease, !.token = w]

HoldsRow(w) == Pending /\ row.token = w

Reschedule(w, local) ==
  row' = IF HoldsRow(w)
         THEN [row EXCEPT !.lease = 0,
                          !.lastSend = IF local THEN @ ELSE Max2(@, worker[w].at)]
         ELSE row

Finalize(status) ==
  row' = IF Pending THEN [row EXCEPT !.status = status, !.lease = 0] ELSE row

\* Mutant: the row may have been claimed by someone else.
AbandonWithoutToken(w) ==
  row' = IF Pending THEN [row EXCEPT !.status = "ABANDONED", !.lease = 0] ELSE row

Abandon(w) ==
  row' = IF HoldsRow(w) THEN [row EXCEPT !.status = "ABANDONED", !.lease = 0] ELSE row

ReleaseLease(w) == row' = IF HoldsRow(w) THEN [row EXCEPT !.lease = 0] ELSE row

ResolveManuallyIfQuiet ==
  row' = IF Pending /\ row.lease = clerk.lease /\ row.lastSend = clerk.lastSend
         THEN [row EXCEPT !.status = clerk.final, !.lease = 0] ELSE row

-----------------------------------------------------------------------------
(* The reconcile loop: reconcile.go and caller.go.                         *)

WorkerAt(w, r) == worker' = [worker EXCEPT ![w] = r]
Done(w) == WorkerAt(w, Idle)

rpcFor(w) == IF Deadline # 0 /\ worker[w].at >= Deadline THEN "abort" ELSE "apply"

FinalStatus(rpc, led) ==
  IF led = "applied" THEN "APPLIED"
  ELSE IF led = "aborted" /\ rpc = "abort" THEN "ABORTED"
  ELSE "REJECTED"

claimAndProcess(w) ==
  /\ worker[w].pc = "idle" /\ Event
  /\ ClaimRow(w)
  /\ WorkerAt(w, [Idle EXCEPT !.pc = "claimed", !.at = now, !.lastSend = row'.lastSend])
  /\ UNCHANGED <<now, clerk, net, sceneVars>>

\* Do and its repeats: another node after NOT_HERE, the same again to see
\* whether the outcome is stored.
invoke(w) ==
  /\ worker[w].pc \in {"claimed", "answered"}
  /\ now <= worker[w].at + Budget
  /\ net' = net \cup {[by |-> w, rpc |-> rpcFor(w), at |-> now]}
  /\ WorkerAt(w, [worker[w] EXCEPT !.pc = "waiting"])
  /\ UNCHANGED <<now, row, clerk, sceneVars, events>>

\* No answer: the request may still be executed.  A repeat that fails leaves the
\* outcome that was answered before.
TransportFails(w) ==
  /\ worker[w].pc = "waiting" /\ Event
  /\ WorkerAt(w, [worker[w] EXCEPT !.pc = IF worker[w].res \in Outcomes
                                          THEN "answered" ELSE "failed"])
  /\ UNCHANGED <<now, row, clerk, net, sceneVars>>

\* No node has the player and nothing was sent.  After some attempts the
\* stored ledger is read.
NotLocated(w) ==
  /\ worker[w].pc = "claimed"
  /\ Reschedule(w, TRUE) /\ Done(w)
  /\ UNCHANGED <<now, clerk, net, sceneVars, events>>

tryPersistedLedger(w) ==
  /\ worker[w].pc = "claimed"
  /\ st.led \in Outcomes
  /\ WorkerAt(w, [worker[w] EXCEPT !.pc = "proved", !.res = st.led])
  /\ UNCHANGED <<now, row, clerk, net, sceneVars, events>>

\* Mutant: the answer of the scene counts at once.
TrustScene(w) ==
  /\ worker[w].pc = "answered" /\ worker[w].res \in Outcomes
  /\ WorkerAt(w, [worker[w] EXCEPT !.pc = "proved"])
  /\ UNCHANGED <<now, row, clerk, net, sceneVars, events>>

\* An answer of the scene counts when the stored ledger has that outcome.
verifySQLCommit(w) ==
  /\ worker[w].pc = "answered" /\ worker[w].res \in Outcomes
  /\ st.led \in Outcomes
  /\ (st.led = "applied") = (worker[w].res = "applied")
  /\ WorkerAt(w, [worker[w] EXCEPT !.pc = "proved", !.res = st.led])
  /\ UNCHANGED <<now, row, clerk, net, sceneVars, events>>

finalize(w) ==
  /\ worker[w].pc \in {"proved", "seen"}
  /\ Finalize(FinalStatus(rpcFor(w), worker[w].res))
  /\ Done(w)
  /\ UNCHANGED <<now, clerk, net, sceneVars, events>>

\* The player could not be looked up, no answer, no outcome, an outcome that
\* is not stored, or not the stored one.
reschedule(w) ==
  /\ worker[w].pc \in {"claimed", "answered", "failed"}
  /\ Reschedule(w, FALSE)
  /\ Done(w)
  /\ UNCHANGED <<now, clerk, net, sceneVars, events>>

\* The process dies, or the database refuses what it wants to write.
WorkerStops(w) ==
  /\ worker[w].pc # "idle" /\ Event
  /\ Done(w)
  /\ UNCHANGED <<now, row, clerk, net, sceneVars>>

-----------------------------------------------------------------------------
(* The abandon job: abandon.go.                                            *)

\* The time t of the round is taken before the row is claimed.
abandonOne(w, t) ==
  /\ worker[w].pc = "idle" /\ Event
  /\ t > Created + AbandonAfter
  /\ ClaimRow(w)
  /\ WorkerAt(w, [Idle EXCEPT !.pc = "judging", !.at = t, !.lastSend = row'.lastSend])
  /\ UNCHANGED <<now, clerk, net, sceneVars>>

Unsent(lastSend, t) == lastSend < t /\ t - lastSend >= Gap

\* The owner row and the ledger are read in one statement.
judgeAbandon(w) ==
  LET evidence == st.released /\ Unsent(worker[w].lastSend, worker[w].at)
      pc == IF ~evidence THEN "returning"
            ELSE IF st.led = "unseen" THEN "abandoning" ELSE "seen"
  IN /\ worker[w].pc = "judging"
     /\ WorkerAt(w, [worker[w] EXCEPT !.pc = pc, !.res = IF pc = "seen" THEN st.led ELSE @])
     /\ UNCHANGED <<now, row, clerk, net, sceneVars, events>>

commitAbandon(w) ==
  /\ worker[w].pc = "abandoning"
  /\ Abandon(w)
  /\ Done(w)
  /\ UNCHANGED <<now, clerk, net, sceneVars, events>>

\* Nothing can be decided, or the database refused to commit the decision.
releaseAbandonLease(w) ==
  /\ worker[w].pc \in {"returning", "abandoning", "seen"}
  /\ ReleaseLease(w)
  /\ Done(w)
  /\ UNCHANGED <<now, clerk, net, sceneVars, events>>

-----------------------------------------------------------------------------
(* The repair tool: assetopfix and manual_evidence.go.                     *)

ReadOp ==
  /\ clerk.pc = "idle" /\ Pending /\ Event
  /\ clerk' = [NoClerk EXCEPT !.pc = "read", !.at = now, !.lease = row.lease,
                              !.lastSend = row.lastSend]
  /\ UNCHANGED <<now, row, worker, net, sceneVars>>

RowQuiet ==
  /\ clerk.lease <= clerk.at
  /\ Unsent(Max2(clerk.lastSend, clerk.lease), clerk.at)

\* Mutant: the row need not be quiet.
NeverAppliedIfReleased == st.led = "unseen" /\ st.released

NeverApplied == st.led = "unseen" /\ st.released /\ RowQuiet

\* What the evidence allows: ManualVerdict and Allows.
JudgeManual ==
  /\ clerk.pc = "read"
  /\ LET finals == {f \in {"APPLIED", "ABORTED"} :
           IF f = "APPLIED" THEN st.led = "applied"
           ELSE st.led \in {"rejected", "aborted"} \/ NeverApplied}
     IN IF finals = {} THEN clerk' = NoClerk
        ELSE \E f \in finals : clerk' = [clerk EXCEPT !.pc = "judged", !.final = f]
  /\ UNCHANGED <<now, row, worker, net, sceneVars, events>>

ResolveManually ==
  /\ clerk.pc = "judged"
  /\ ResolveManuallyIfQuiet
  /\ clerk' = NoClerk
  /\ UNCHANGED <<now, worker, net, sceneVars, events>>

-----------------------------------------------------------------------------
(* The scene node: asset_op_system.cpp.                                    *)

\* The outcome of a repeat is not that of the answer before (ErrOutcomeFlip).
Flips(last, res) ==
  last \in Outcomes /\ res \in Outcomes /\ (last = "applied") # (res = "applied")

\* A repeat that brings no outcome leaves the one that was answered before.
Answer(m, res) ==
  LET last == worker[m.by].res IN
  worker' = IF worker[m.by].pc = "waiting"
            THEN [worker EXCEPT ![m.by].pc = IF Flips(last, res) THEN "failed" ELSE "answered",
                                ![m.by].res = IF res = "none" THEN last ELSE res]
            ELSE worker

\* What Decide may answer: an outcome once recorded is answered for ever; an
\* entity that leaves records nothing, and any other may be busy.
Decide(e, rpc) ==
  IF ~e.on THEN {"none"}
  ELSE IF e.led # "unseen" THEN {e.led}
  ELSE IF e.leaving THEN {"none"}
  ELSE IF rpc = "abort" THEN {"aborted", "none"}
  ELSE {"applied", "rejected", "none"}

\* A request is addressed to one node; the model chooses the node when the
\* request is executed.
Execute(m, n) ==
  /\ \E res \in Decide(ent[n], m.rpc) :
       /\ Answer(m, res)
       /\ ent' = IF ent[n].led = "unseen" /\ res # "none"
                 THEN [ent EXCEPT ![n].led = res, ![n].sentAt = m.at] ELSE ent
  /\ net' = net \ {m}
  /\ UNCHANGED <<now, row, clerk, save, st, events>>

Enter(n) ==
  /\ ~ent[n].on /\ ~save[n].on /\ st.epoch < MaxEpoch /\ Event
  /\ st' = [st EXCEPT !.epoch = @ + 1, !.released = FALSE]
  /\ ent' = [ent EXCEPT ![n] = [NoEntity EXCEPT !.on = TRUE, !.epoch = st.epoch + 1,
                                                !.led = st.led]]
  /\ UNCHANGED <<now, rowVars, net, save>>

Leave(n) ==
  /\ ent[n].on /\ ~ent[n].leaving /\ Event
  /\ ent' = [ent EXCEPT ![n].leaving = TRUE]
  /\ UNCHANGED <<now, rowVars, net, save, st>>

Reconnect(n) ==
  /\ ent[n].leaving /\ Event
  /\ ent' = [ent EXCEPT ![n].leaving = FALSE]
  /\ UNCHANGED <<now, rowVars, net, save, st>>

\* A save with nothing to write is skipped.
SubmitSave(n) ==
  LET e == ent[n] IN
  /\ e.on /\ ~save[n].on
  /\ e.led # st.led \/ e.leaving # st.released \/ e.epoch # st.epoch
  /\ save' = [save EXCEPT ![n] = [on |-> TRUE, epoch |-> e.epoch, led |-> e.led,
                                  release |-> e.leaving, sentAt |-> e.sentAt]]
  /\ UNCHANGED <<now, rowVars, net, ent, st, events>>

\* The entity after its save s was answered: below the epoch of the row it is
\* discarded, and one that leaves is gone when all it knew is stored.
AfterSave(e, s) ==
  IF s.epoch # st.epoch \/ (e.leaving /\ s.release /\ e.led = s.led) THEN NoEntity
  ELSE IF e.led = s.led THEN [e EXCEPT !.sentAt = 0]
  ELSE e

\* Mutant: the epoch of the save is not compared.
SettleUnfenced(n) ==
  LET s == save[n] IN
  /\ s.on
  /\ st' = [st EXCEPT !.led = s.led, !.released = s.release]
  /\ ent' = [ent EXCEPT ![n] = AfterSave(@, s)]
  /\ save' = [save EXCEPT ![n] = NoSave]
  /\ UNCHANGED <<now, rowVars, net, events>>

SaveSettles(n) ==
  LET s == save[n] IN
  /\ s.on
  /\ st' = IF s.epoch = st.epoch THEN [st EXCEPT !.led = s.led, !.released = s.release] ELSE st
  /\ ent' = [ent EXCEPT ![n] = AfterSave(@, s)]
  /\ save' = [save EXCEPT ![n] = NoSave]
  /\ UNCHANGED <<now, rowVars, net, events>>

\* A save in flight may be lost or still be executed.
Crash(n) ==
  /\ ent[n].on /\ Event
  /\ ent' = [ent EXCEPT ![n] = NoEntity]
  /\ save' \in {save, [save EXCEPT ![n] = NoSave]}
  /\ UNCHANGED <<now, rowVars, net, st>>

\* scene_manager takes the row from a holder it believes dead.
ReleaseDeadHolder ==
  /\ st.epoch < MaxEpoch /\ Event
  /\ st' = [st EXCEPT !.epoch = @ + 1, !.released = TRUE]
  /\ UNCHANGED <<now, rowVars, net, ent, save>>

-----------------------------------------------------------------------------
Fenced(e) == e.on /\ e.epoch = st.epoch

\* A player who comes back while his entity is being released plays on an
\* entity whose row says, or is about to say, that nobody has him.  The save
\* that takes the row back is under way; the model assumes that an outcome
\* such an entity recorded is stored, or lost, within SaveLag of its request.
Exposed(n) ==
  /\ Fenced(ent[n]) /\ ent[n].led # st.led
  /\ st.released \/ (save[n].on /\ save[n].release /\ save[n].led # ent[n].led)

ExposedSave(n) == Fenced(save[n]) /\ save[n].led # st.led /\ st.released

StoredInTime(n) ==
  /\ Exposed(n) => now < ent[n].sentAt + SaveLag
  /\ ExposedSave(n) => now < save[n].sentAt + SaveLag

Tick ==
  /\ now < MaxTime
  /\ \A n \in Nodes : StoredInTime(n)
  /\ now' = now + 1
  /\ net' = {m \in net : now + 1 <= m.at + Life}
  /\ UNCHANGED <<rowVars, sceneVars, events>>

Reconcile(w) ==
  \/ claimAndProcess(w) \/ invoke(w) \/ TransportFails(w) \/ NotLocated(w)
  \/ tryPersistedLedger(w) \/ verifySQLCommit(w) \/ finalize(w) \/ reschedule(w)
  \/ WorkerStops(w)

AbandonJob(w) ==
  \/ \E t \in {now - 1, now} : abandonOne(w, t)
  \/ judgeAbandon(w) \/ commitAbandon(w) \/ releaseAbandonLease(w)

Scene(n) ==
  \/ \E m \in net : Execute(m, n)
  \/ Enter(n) \/ Leave(n) \/ Reconnect(n) \/ SubmitSave(n) \/ SaveSettles(n) \/ Crash(n)

Next ==
  \/ \E w \in Workers : Reconcile(w) \/ AbandonJob(w)
  \/ ReadOp \/ JudgeManual \/ ResolveManually
  \/ \E n \in Nodes : Scene(n)
  \/ ReleaseDeadHolder
  \/ Tick

Spec == Init /\ [][Next]_vars

-----------------------------------------------------------------------------
Refunded == row.status \in {"REJECTED", "ABORTED", "ABANDONED"}

\* A service that took its part of the operation back (rejected, aborted or
\* abandoned: refundsCounterparty) never sees the player's side carried out,
\* neither before nor after: no request, entity or save of an earlier delivery
\* stores "applied" behind the refund.
RefundedNeverApplied == Refunded => st.led # "applied"

\* A row finalized as applied is backed by the stored ledger, whatever crashed
\* after the scene had answered.
BookedIsStored == row.status = "APPLIED" => st.led = "applied"

\* A stored outcome never changes (I2 of the asset channel): no save of a
\* deposed node writes an older ledger over it.
OutcomeFixed == [][st.led # "unseen" => st'.led = st.led]_vars

Transfer == INSTANCE AssetTransfer WITH
  player <- IF st.led = "unseen" THEN "open" ELSE IF st.led = "applied" THEN "moved" ELSE "refused",
  service <- IF Pending THEN "open" ELSE IF row.status = "APPLIED" THEN "booked" ELSE "refunded"

\* The channel with its leases, retries, crashes, repairs and fenced saves
\* implements one transfer that is settled once on each side.
ImplementsTransfer == Transfer!Spec
=============================================================================
