--------------------------- MODULE AssetOp_proofs ---------------------------
(***************************************************************************)
(* Proofs about one operation of the asset channel, for any number of      *)
(* workers and scene nodes and for all budgets, leases, lifetimes and gaps *)
(* that satisfy AssetOpAssumption.                                         *)
(***************************************************************************)
EXTENDS AssetOp, TLAPS

Statuses == {"PENDING", "APPLIED", "REJECTED", "ABORTED", "ABANDONED"}
Ledger == {"unseen"} \cup Outcomes

\* Steps of a worker: those of the reconcile loop after a request, those of
\* the abandon job, those before any request, and those that may send.
Sent == {"waiting", "answered", "failed", "proved"}
Judging == {"judging", "abandoning", "returning", "seen"}
Unsendable == {"claimed"} \cup Judging
Pcs == {"idle"} \cup Sent \cup Unsendable
Sending == {"claimed", "waiting", "answered"}

Row == [status : Statuses, lease : Nat, token : Workers, lastSend : Nat]
Worker == [pc : Pcs, at : Nat, lastSend : Nat, res : {"none", "unseen"} \cup Outcomes]
Clerk == [pc : {"idle", "read", "judged"}, at : Nat, lease : Nat, lastSend : Nat,
          final : {"PENDING", "APPLIED", "ABORTED"}]
Request == [by : Workers, rpc : {"apply", "abort"}, at : Nat]
Entity == [on : BOOLEAN, epoch : Nat, led : Ledger, leaving : BOOLEAN, sentAt : Nat]
Save == [on : BOOLEAN, epoch : Nat, led : Ledger, release : BOOLEAN, sentAt : Nat]
Stored == [epoch : Nat, released : BOOLEAN, led : Ledger]

RowTypeOK ==
  /\ row \in Row
  /\ worker \in [Workers -> Worker]
  /\ clerk \in Clerk

SceneTypeOK ==
  /\ now \in Nat
  /\ net \subseteq Request
  /\ ent \in [Nodes -> Entity]
  /\ save \in [Nodes -> Save]
  /\ st \in Stored

TypeOK == RowTypeOK /\ SceneTypeOK

-----------------------------------------------------------------------------
(* The scene and the store.                                                *)

EpochsBounded ==
  \A n \in Nodes : ent[n].epoch <= st.epoch /\ save[n].epoch <= st.epoch

\* Whoever is at the epoch of the row is the only one.
OneHolder ==
  \A m, n \in Nodes :
    /\ Fenced(ent[m]) /\ Fenced(ent[n]) => m = n
    /\ Fenced(ent[m]) /\ Fenced(save[n]) => m = n
    /\ Fenced(save[m]) /\ Fenced(save[n]) => m = n

\* What is stored is known to the save and to the entity of the holder, and
\* what is in a save is known to its entity.
LedgerGrows ==
  \A n \in Nodes :
    /\ Fenced(ent[n]) /\ st.led # "unseen" => ent[n].led = st.led
    /\ Fenced(save[n]) /\ st.led # "unseen" => save[n].led = st.led
    /\ ent[n].on /\ save[n].on /\ save[n].led # "unseen" => ent[n].led = save[n].led

RequestsLive == \A m \in net : m.at <= now /\ now <= m.at + Life

ExposureShort ==
  \A n \in Nodes :
    /\ Exposed(n) => now <= ent[n].sentAt + SaveLag
    /\ ExposedSave(n) => now <= save[n].sentAt + SaveLag

SceneInv == EpochsBounded /\ OneHolder /\ LedgerGrows /\ RequestsLive /\ ExposureShort

-----------------------------------------------------------------------------
(* What was sent when.                                                     *)

\* Nothing sent after b can still change what is stored.
Old(b) ==
  /\ \A m \in net : m.at <= b
  /\ \A n \in Nodes :
       /\ Fenced(ent[n]) /\ ent[n].led # st.led => ent[n].sentAt <= b
       /\ Fenced(save[n]) /\ save[n].led # st.led => save[n].sentAt <= b

\* The last time at which a claim that may have sent began.
LastSent == IF row.lease = 0 THEN row.lastSend ELSE Max2(row.lastSend, row.lease - Lease)

HolderSentNothing == worker[row.token].pc \in Unsendable

SendsRecorded ==
  Pending => \A b \in Nat :
    /\ LastSent + Budget <= b => Old(b)
    /\ HolderSentNothing /\ row.lastSend + Budget <= b => Old(b)

\* A lease tells when its holder claimed; only the holder is within budget.
ClaimsTimed ==
  /\ clerk.at <= now
  /\ \A w \in Workers :
       /\ worker[w].at <= now
       /\ HoldsRow(w) /\ worker[w].pc \in {"claimed"} \cup Sent => row.lease = worker[w].at + Lease
       /\ HoldsRow(w) /\ worker[w].pc \in Judging =>
            row.lease >= worker[w].at + Lease /\ worker[w].lastSend = row.lastSend
       /\ Pending /\ worker[w].pc \in Sending /\ now <= worker[w].at + Budget => row.token = w

\* What a worker or the clerk has found in the stored ledger is still there.
ProofsHold ==
  /\ \A w \in Workers :
       worker[w].pc \in {"proved", "seen"} => worker[w].res \in Outcomes /\ worker[w].res = st.led
  /\ clerk.pc = "judged" /\ clerk.final = "APPLIED" => st.led = "applied"
  /\ clerk.pc = "judged" => clerk.final # "PENDING"

Refused == st.led \in {"rejected", "aborted"}

\* Nothing under way can store "applied".
QuietScene ==
  \/ Refused
  \/ /\ st.led = "unseen" /\ net = {}
     /\ \A n \in Nodes : /\ Fenced(ent[n]) => ent[n].led = "unseen"
                         /\ Fenced(save[n]) => save[n].led = "unseen"

NoSender == \A w \in Workers : worker[w].pc \in Sending => now > worker[w].at + Budget

NeverAgain == Refused \/ (QuietScene /\ NoSender)

\* Since the clerk read the row no claim has sent anything.
UnsentSinceRead ==
  /\ Pending /\ row.lastSend < clerk.at
  /\ row.lease < clerk.at + Lease \/ HolderSentNothing

ClerkKnows ==
  clerk.pc # "idle" =>
    /\ RowQuiet /\ UnsentSinceRead =>
         \A b \in Nat : Max2(clerk.lastSend, clerk.lease) + Budget <= b => Old(b)
    /\ RowQuiet /\ Pending =>
         \A w \in Workers :
           worker[w].pc \in Sending /\ now <= worker[w].at + Budget => worker[w].at >= clerk.at
    /\ clerk.pc = "judged" /\ clerk.final = "ABORTED" =>
         /\ Refused \/ RowQuiet
         /\ UnsentSinceRead => QuietScene

RefundsSafe ==
  /\ \A w \in Workers : worker[w].pc = "abandoning" /\ HoldsRow(w) => NeverAgain
  /\ Refunded => NeverAgain

RowInv == SendsRecorded /\ ClaimsTimed /\ ProofsHold /\ ClerkKnows /\ RefundsSafe

IInv == TypeOK /\ SceneInv /\ RowInv /\ BookedIsStored

-----------------------------------------------------------------------------
(* The two sides of the channel.                                           *)

USE AssetOpAssumption

RowSide ==
  \/ \E w \in Workers : Reconcile(w) \/ AbandonJob(w)
  \/ ReadOp \/ JudgeManual \/ ResolveManually

SceneSide ==
  \/ \E n \in Nodes : Scene(n)
  \/ ReleaseDeadHolder
  \/ Tick

\* The service's side leaves the scene alone; only invoke sends.
LEMMA RowSideScene ==
  ASSUME RowSide
  PROVE  /\ UNCHANGED <<now, ent, save, st>>
         /\ net' = net \/ \E w \in Workers : invoke(w)
BY DEF RowSide, Reconcile, AbandonJob, claimAndProcess, invoke, TransportFails, NotLocated,
       tryPersistedLedger, verifySQLCommit, finalize, reschedule, WorkerStops, abandonOne,
       judgeAbandon, commitAbandon, releaseAbandonLease, ReadOp, JudgeManual, ResolveManually,
       sceneVars

\* The scene's side leaves the row alone; a worker at most gets its answer.
LEMMA SceneSideRow ==
  ASSUME TypeOK, SceneSide
  PROVE  /\ UNCHANGED <<row, clerk>>
         /\ worker' \in [Workers -> Worker]
         /\ \A w \in Workers :
              /\ worker'[w].at = worker[w].at /\ worker'[w].lastSend = worker[w].lastSend
              /\ \/ worker'[w].pc = worker[w].pc /\ worker'[w].res = worker[w].res
                 \/ worker[w].pc = "waiting" /\ worker'[w].pc \in {"answered", "failed"}
<1>1. CASE UNCHANGED rowVars
  BY <1>1 DEF rowVars, TypeOK, RowTypeOK
<1>2. ASSUME NEW n \in Nodes, NEW m \in net, Execute(m, n)
      PROVE  /\ UNCHANGED <<row, clerk>>
             /\ worker' \in [Workers -> Worker]
             /\ \A w \in Workers :
                  /\ worker'[w].at = worker[w].at /\ worker'[w].lastSend = worker[w].lastSend
                  /\ \/ worker'[w].pc = worker[w].pc /\ worker'[w].res = worker[w].res
                     \/ worker[w].pc = "waiting" /\ worker'[w].pc \in {"answered", "failed"}
  <2>1. m \in Request /\ ent[n] \in Entity
    BY DEF TypeOK, SceneTypeOK
  <2>2. PICK res \in Decide(ent[n], m.rpc) : Answer(m, res)
    BY <1>2 DEF Execute
  <2>3. res \in {"none", "unseen"} \cup Outcomes
    BY <2>1 DEF Decide, Outcomes, Entity, Ledger
  <2>4. UNCHANGED <<row, clerk>>
    BY <1>2 DEF Execute
  <2>5. m.by \in Workers /\ worker[m.by] \in Worker
    BY <2>1 DEF Request, TypeOK, RowTypeOK
  <2>6. CASE worker[m.by].pc = "waiting"
    <3> DEFINE p == IF Flips(worker[m.by].res, res) THEN "failed" ELSE "answered"
               a == IF res = "none" THEN worker[m.by].res ELSE res
    <3>1. worker' = [worker EXCEPT ![m.by] = [worker[m.by] EXCEPT !.pc = p, !.res = a]]
      BY <2>2, <2>5, <2>6 DEF Answer, TypeOK, RowTypeOK, Worker
    <3>6. p \in {"answered", "failed"} /\ a \in {"none", "unseen"} \cup Outcomes
      BY <2>3, <2>5 DEF Worker
    <3> HIDE DEF p, a
    <3>2. [worker[m.by] EXCEPT !.pc = p, !.res = a] \in Worker
      BY <3>6, <2>5 DEF Worker, Pcs, Sent
    <3>3. worker' \in [Workers -> Worker]
      BY <2>5, <3>1, <3>2 DEF TypeOK, RowTypeOK
    <3>4. \A w \in Workers : w # m.by => worker'[w] = worker[w]
      BY <3>1 DEF TypeOK, RowTypeOK
    <3>5. /\ worker'[m.by].at = worker[m.by].at /\ worker'[m.by].lastSend = worker[m.by].lastSend
          /\ worker'[m.by].pc \in {"answered", "failed"}
      BY <2>5, <3>1, <3>6 DEF TypeOK, RowTypeOK, Worker
    <3> QED BY <2>4, <2>6, <3>3, <3>4, <3>5
  <2>7. CASE worker[m.by].pc # "waiting"
    BY <2>2, <2>4, <2>7 DEF Answer, TypeOK, RowTypeOK
  <2> QED BY <2>6, <2>7
<1>3. UNCHANGED rowVars \/ \E n \in Nodes : \E m \in net : Execute(m, n)
  BY DEF SceneSide, Scene, Enter, Leave, Reconnect, SubmitSave, SaveSettles, Crash,
         ReleaseDeadHolder, Tick
<1> QED BY <1>1, <1>2, <1>3

-----------------------------------------------------------------------------
(* The scene.                                                              *)

LEMMA RecordTypes ==
  /\ NoEntity \in Entity /\ NoSave \in Save
  /\ ~NoEntity.on /\ ~NoSave.on
  /\ NoEntity.epoch = 0 /\ NoSave.epoch = 0
BY DEF NoEntity, NoSave, Entity, Save, Ledger

LEMMA DecideType ==
  ASSUME NEW e \in Entity, NEW rpc, NEW res \in Decide(e, rpc)
  PROVE  /\ res = "none" \/ res \in Ledger
         /\ e.led = "unseen" /\ res # "none" => e.on /\ res \in Outcomes
BY DEF Decide, Entity, Ledger, Outcomes

\* The entity after a save that was answered.
LEMMA AfterSaveType ==
  ASSUME NEW e \in Entity, NEW s \in Save
  PROVE  /\ AfterSave(e, s) \in Entity
         /\ AfterSave(e, s).on => /\ s.epoch = st.epoch
                                  /\ e.on
                                  /\ AfterSave(e, s).epoch = e.epoch
                                  /\ AfterSave(e, s).led = e.led
         /\ AfterSave(e, s).led # s.led /\ AfterSave(e, s).on =>
              AfterSave(e, s).sentAt = e.sentAt
         /\ AfterSave(e, s).epoch \in {0, e.epoch}
<1>1. CASE s.epoch # st.epoch \/ (e.leaving /\ s.release /\ e.led = s.led)
  BY <1>1, RecordTypes DEF AfterSave
<1>2. CASE ~(s.epoch # st.epoch \/ (e.leaving /\ s.release /\ e.led = s.led)) /\ e.led = s.led
  <2>1. AfterSave(e, s) = [e EXCEPT !.sentAt = 0]
    BY <1>2 DEF AfterSave
  <2> QED BY <1>2, <2>1 DEF Entity
<1>3. CASE ~(s.epoch # st.epoch \/ (e.leaving /\ s.release /\ e.led = s.led)) /\ e.led # s.led
  BY <1>3 DEF AfterSave
<1> QED BY <1>1, <1>2, <1>3

\* What the steps of the scene do to one node, as far as the invariants care.
Executes(n, m) ==
  /\ m \in net /\ ent[n].on /\ ent[n].led = "unseen"
  /\ \E res \in Outcomes : ent' = [ent EXCEPT ![n].led = res, ![n].sentAt = m.at]
  /\ UNCHANGED <<now, save, st>>

LEMMA ExecuteEffect ==
  ASSUME TypeOK, NEW n \in Nodes, NEW m \in net, Execute(m, n)
  PROVE  /\ net' \subseteq net
         /\ Executes(n, m) \/ UNCHANGED <<now, ent, save, st>>
<1>1. ent[n] \in Entity
  BY DEF TypeOK, SceneTypeOK
<1>2. PICK res \in Decide(ent[n], m.rpc) :
        ent' = IF ent[n].led = "unseen" /\ res # "none"
               THEN [ent EXCEPT ![n].led = res, ![n].sentAt = m.at] ELSE ent
  BY DEF Execute
<1>3. net' \subseteq net /\ UNCHANGED <<now, save, st>>
  BY DEF Execute
<1>4. CASE ent[n].led = "unseen" /\ res # "none"
  <2>1. ent[n].on /\ res \in Outcomes
    BY <1>1, <1>4, DecideType
  <2>2. ent' = [ent EXCEPT ![n].led = res, ![n].sentAt = m.at]
    BY <1>2, <1>4
  <2> QED BY <1>3, <1>4, <2>1, <2>2 DEF Executes
<1>5. CASE ~(ent[n].led = "unseen" /\ res # "none")
  BY <1>2, <1>3, <1>5
<1> QED BY <1>4, <1>5

LEMMA SceneTyping ==
  ASSUME TypeOK, SceneSide
  PROVE  SceneTypeOK'
<1> USE DEF TypeOK, SceneTypeOK
<1>1. ASSUME NEW n \in Nodes, NEW m \in net, Execute(m, n)
      PROVE  SceneTypeOK'
  <2>1. CASE Executes(n, m)
    <3>1. PICK res \in Outcomes : ent' = [ent EXCEPT ![n].led = res, ![n].sentAt = m.at]
      BY <2>1 DEF Executes
    <3>2. m.at \in Nat /\ res \in Ledger
      BY DEF Request, Ledger
    <3>3. ent' \in [Nodes -> Entity]
      BY <3>1, <3>2 DEF Entity
    <3> QED BY <1>1, <2>1, <3>3, ExecuteEffect DEF Executes
  <2> QED BY <1>1, <2>1, ExecuteEffect
<1>2. ASSUME NEW n \in Nodes, Enter(n)
      PROVE  SceneTypeOK'
  <2>0. st.epoch + 1 \in Nat /\ st.led \in Ledger
    BY DEF Stored
  <2>1. st' \in Stored /\ st.epoch + 1 \in Nat /\ st.led \in Ledger
    BY <1>2, <2>0 DEF Enter, Stored
  <2>2. [NoEntity EXCEPT !.on = TRUE, !.epoch = st.epoch + 1, !.led = st.led] \in Entity
    BY <2>1, RecordTypes DEF Entity
  <2> QED BY <1>2, <2>1, <2>2 DEF Enter
<1>3. ASSUME NEW n \in Nodes, Leave(n) \/ Reconnect(n)
      PROVE  SceneTypeOK'
  BY <1>3 DEF Leave, Reconnect, Entity
<1>4. ASSUME NEW n \in Nodes, SubmitSave(n)
      PROVE  SceneTypeOK'
  <2>1. [on |-> TRUE, epoch |-> ent[n].epoch, led |-> ent[n].led, release |-> ent[n].leaving,
         sentAt |-> ent[n].sentAt] \in Save
    BY DEF Entity, Save
  <2> QED BY <1>4, <2>1 DEF SubmitSave
<1>5. ASSUME NEW n \in Nodes, SaveSettles(n)
      PROVE  SceneTypeOK'
  <2>1. st' \in Stored
    BY <1>5 DEF SaveSettles, Stored, Save
  <2>2. ent' \in [Nodes -> Entity]
    BY <1>5, AfterSaveType DEF SaveSettles
  <2>3. save' \in [Nodes -> Save]
    BY <1>5, RecordTypes DEF SaveSettles
  <2> QED BY <1>5, <2>1, <2>2, <2>3 DEF SaveSettles
<1>6. ASSUME NEW n \in Nodes, Crash(n)
      PROVE  SceneTypeOK'
  BY <1>6, RecordTypes DEF Crash
<1>7. CASE ReleaseDeadHolder
  <2>1. st.epoch + 1 \in Nat
    BY DEF Stored
  <2> QED BY <1>7, <2>1 DEF ReleaseDeadHolder, Stored
<1>8. CASE Tick
  BY <1>8 DEF Tick, sceneVars
<1> QED BY <1>1, <1>2, <1>3, <1>4, <1>5, <1>6, <1>7, <1>8 DEF SceneSide, Scene

\* The effects of the other steps of a node, and of the loss of its row.
LEMMA EnterEffect ==
  ASSUME TypeOK, EpochsBounded, NEW n \in Nodes, Enter(n)
  PROVE  /\ UNCHANGED <<now, net, save>> /\ ~save[n].on
         /\ st'.epoch = st.epoch + 1 /\ st'.led = st.led
         /\ ent'[n].on /\ ent'[n].epoch = st.epoch + 1 /\ ent'[n].led = st.led
         /\ \A k \in Nodes : k # n => ent'[k] = ent[k] /\ ~Fenced(ent[k])'
         /\ \A k \in Nodes : ~Fenced(save[k])'
<1> USE DEF TypeOK, SceneTypeOK
<1>1. /\ UNCHANGED <<now, net, save>> /\ ~save[n].on
      /\ st'.epoch = st.epoch + 1 /\ st'.led = st.led
      /\ ent'[n].on /\ ent'[n].epoch = st.epoch + 1 /\ ent'[n].led = st.led
      /\ \A k \in Nodes : k # n => ent'[k] = ent[k]
  BY DEF Enter, Stored, NoEntity
<1>2. \A k \in Nodes : ent[k].epoch \in Nat /\ save[k].epoch \in Nat /\ st.epoch \in Nat
  BY DEF Entity, Save, Stored
<1>3. \A k \in Nodes : ~Fenced(save[k])' /\ (k # n => ~Fenced(ent[k])')
  BY <1>1, <1>2 DEF EpochsBounded, Fenced
<1> QED BY <1>1, <1>3

LEMMA LeaveEffect ==
  ASSUME TypeOK, NEW n \in Nodes, Leave(n) \/ Reconnect(n)
  PROVE  /\ UNCHANGED <<now, net, save, st>>
         /\ \A k \in Nodes : /\ ent'[k].on = ent[k].on /\ ent'[k].epoch = ent[k].epoch
                             /\ ent'[k].led = ent[k].led /\ ent'[k].sentAt = ent[k].sentAt
BY DEF Leave, Reconnect, TypeOK, SceneTypeOK, Entity

LEMMA SubmitEffect ==
  ASSUME TypeOK, NEW n \in Nodes, SubmitSave(n)
  PROVE  /\ UNCHANGED <<now, net, ent, st>> /\ ent[n].on
         /\ save'[n].on /\ save'[n].epoch = ent[n].epoch /\ save'[n].led = ent[n].led
         /\ save'[n].sentAt = ent[n].sentAt
         /\ \A k \in Nodes : k # n => save'[k] = save[k]
BY DEF SubmitSave, TypeOK, SceneTypeOK

LEMMA CrashEffect ==
  ASSUME TypeOK, NEW n \in Nodes, Crash(n)
  PROVE  /\ UNCHANGED <<now, net, st>>
         /\ \A k \in Nodes : ent'[k] \in {ent[k], NoEntity} /\ save'[k] \in {save[k], NoSave}
BY DEF Crash, TypeOK, SceneTypeOK

LEMMA DeadHolderEffect ==
  ASSUME TypeOK, EpochsBounded, ReleaseDeadHolder
  PROVE  /\ UNCHANGED <<now, net, ent, save>>
         /\ st'.epoch = st.epoch + 1 /\ st'.led = st.led
         /\ \A k \in Nodes : ~Fenced(ent[k])' /\ ~Fenced(save[k])'
<1> USE DEF TypeOK, SceneTypeOK
<1>1. UNCHANGED <<now, net, ent, save>> /\ st'.epoch = st.epoch + 1 /\ st'.led = st.led
  BY DEF ReleaseDeadHolder, Stored
<1>2. \A k \in Nodes : ent[k].epoch \in Nat /\ save[k].epoch \in Nat /\ st.epoch \in Nat
  BY DEF Entity, Save, Stored
<1> QED BY <1>1, <1>2 DEF EpochsBounded, Fenced

LEMMA ExecutesEffect ==
  ASSUME TypeOK, NEW n \in Nodes, NEW m \in net, Executes(n, m)
  PROVE  /\ UNCHANGED <<now, save, st>>
         /\ ent[n].on /\ ent[n].led = "unseen" /\ ent'[n].sentAt = m.at
         /\ \A k \in Nodes : ent'[k].on = ent[k].on /\ ent'[k].epoch = ent[k].epoch
         /\ \A k \in Nodes : k # n => ent'[k] = ent[k]
BY DEF Executes, TypeOK, SceneTypeOK, Entity

\* SceneInv without the clock.
Holding == EpochsBounded /\ OneHolder /\ LedgerGrows

\* What a save that settles does to its node: an entity that still has
\* something to store had it before, and it was no part of the save.
LEMMA SettleEffect ==
  ASSUME TypeOK, Holding, NEW n \in Nodes, SaveSettles(n)
  PROVE  /\ UNCHANGED <<now, net>> /\ st'.epoch = st.epoch
         /\ ~save'[n].on /\ save'[n].epoch = 0 /\ ent'[n].epoch \in {0, ent[n].epoch}
         /\ \A k \in Nodes : k # n => save'[k] = save[k] /\ ent'[k] = ent[k]
         /\ ent'[n].on => ent[n].on /\ ent'[n].led = ent[n].led /\ ent'[n].epoch = ent[n].epoch
         /\ \/ save[n].epoch # st.epoch /\ UNCHANGED st /\ ~ent'[n].on
            \/ /\ Fenced(save[n]) /\ st'.led = save[n].led /\ st'.released = save[n].release
               /\ \A k \in Nodes : k # n => ~Fenced(ent[k])' /\ ~Fenced(save[k])'
               /\ st.led # "unseen" => st'.led = st.led
               /\ ent'[n].on /\ ent'[n].led # st'.led =>
                    ent'[n].sentAt = ent[n].sentAt /\ ent[n].led # st.led
<1> USE DEF TypeOK, SceneTypeOK, Holding
<1>1. /\ save[n].on /\ save'[n] = NoSave /\ ent'[n] = AfterSave(ent[n], save[n])
      /\ \A k \in Nodes : k # n => save'[k] = save[k] /\ ent'[k] = ent[k]
      /\ UNCHANGED <<now, net>>
      /\ st' = IF save[n].epoch = st.epoch
               THEN [st EXCEPT !.led = save[n].led, !.released = save[n].release] ELSE st
  BY DEF SaveSettles
<1>2. /\ ent'[n].on => /\ save[n].epoch = st.epoch /\ ent[n].on
                       /\ ent'[n].epoch = ent[n].epoch /\ ent'[n].led = ent[n].led
      /\ ent'[n].led # save[n].led /\ ent'[n].on => ent'[n].sentAt = ent[n].sentAt
      /\ ent'[n].epoch \in {0, ent[n].epoch}
  BY <1>1, AfterSaveType
<1>3. CASE save[n].epoch # st.epoch
  BY <1>1, <1>2, <1>3, RecordTypes
<1>4. CASE save[n].epoch = st.epoch
  <2>1. Fenced(save[n])
    BY <1>1, <1>4 DEF Fenced
  <2>2. st'.epoch = st.epoch /\ st'.led = save[n].led /\ st'.released = save[n].release
    BY <1>1, <1>4 DEF Stored
  <2>3. \A k \in Nodes : k # n => ~Fenced(ent[k])' /\ ~Fenced(save[k])'
    BY <1>1, <1>4, <2>2 DEF OneHolder, Fenced
  <2>4. st.led # "unseen" => st'.led = st.led
    BY <2>1, <2>2 DEF LedgerGrows
  <2>5. ent'[n].on /\ ent'[n].led # st'.led =>
          ent'[n].sentAt = ent[n].sentAt /\ ent[n].led # st.led
    BY <1>1, <1>2, <2>2, <2>4 DEF LedgerGrows
  <2> QED BY <1>1, <1>2, <2>1, <2>2, <2>3, <2>4, <2>5, RecordTypes
<1> QED BY <1>3, <1>4

LEMMA HoldingStep ==
  ASSUME TypeOK, Holding, SceneSide
  PROVE  Holding'
<1> USE DEF TypeOK, SceneTypeOK, Holding
<1>e. \A k \in Nodes : ent[k].epoch \in Nat /\ save[k].epoch \in Nat /\ st.epoch \in Nat
  BY DEF Entity, Save, Stored
<1>1. ASSUME NEW n \in Nodes, NEW m \in net, Execute(m, n)
      PROVE  Holding'
  <2>1. CASE Executes(n, m)
    <3>1. EpochsBounded' /\ OneHolder'
      BY <2>1, ExecutesEffect DEF EpochsBounded, OneHolder, Fenced
    <3>2. LedgerGrows'
      BY <2>1, ExecutesEffect DEF LedgerGrows, Fenced
    <3> QED BY <3>1, <3>2
  <2>2. CASE UNCHANGED <<ent, save, st>>
    BY <2>2 DEF EpochsBounded, OneHolder, LedgerGrows, Fenced
  <2> QED BY <1>1, <2>1, <2>2, ExecuteEffect
<1>2. ASSUME NEW n \in Nodes, Enter(n)
      PROVE  Holding'
  BY <1>e, <1>2, EnterEffect DEF EpochsBounded, OneHolder, LedgerGrows
<1>3. ASSUME NEW n \in Nodes, Leave(n) \/ Reconnect(n)
      PROVE  Holding'
  BY <1>3, LeaveEffect DEF EpochsBounded, OneHolder, LedgerGrows, Fenced
<1>4. ASSUME NEW n \in Nodes, SubmitSave(n)
      PROVE  Holding'
  BY <1>4, SubmitEffect DEF EpochsBounded, OneHolder, LedgerGrows, Fenced
<1>5. ASSUME NEW n \in Nodes, SaveSettles(n)
      PROVE  Holding'
  <2>1. EpochsBounded'
    BY <1>e, <1>5, SettleEffect DEF EpochsBounded
  <2>2. OneHolder'
    BY <1>5, SettleEffect DEF OneHolder, Fenced
  <2>3. LedgerGrows'
    BY <1>5, SettleEffect DEF LedgerGrows, Fenced
  <2> QED BY <2>1, <2>2, <2>3
<1>6. ASSUME NEW n \in Nodes, Crash(n)
      PROVE  Holding'
  BY <1>e, <1>6, CrashEffect, RecordTypes DEF EpochsBounded, OneHolder, LedgerGrows, Fenced
<1>7. CASE ReleaseDeadHolder
  BY <1>e, <1>7, DeadHolderEffect DEF EpochsBounded, OneHolder, LedgerGrows
<1>8. CASE Tick
  BY <1>8 DEF Tick, sceneVars, EpochsBounded, OneHolder, LedgerGrows, Fenced
<1> QED BY <1>1, <1>2, <1>3, <1>4, <1>5, <1>6, <1>7, <1>8 DEF SceneSide, Scene

\* A stored outcome stays.
LEMMA OutcomeStays ==
  ASSUME TypeOK, Holding, SceneSide, st.led # "unseen"
  PROVE  st'.led = st.led
<1>1. UNCHANGED st \/ (\E n \in Nodes : SaveSettles(n)) \/ st'.led = st.led
  BY DEF SceneSide, Scene, Execute, Enter, Leave, Reconnect, SubmitSave, Crash,
         ReleaseDeadHolder, Tick, sceneVars, TypeOK, SceneTypeOK, Stored
<1> QED BY <1>1, SettleEffect

\* What is old stays old: a step of the scene stores, or gets ready to store,
\* only what was sent before.
LEMMA OldStep ==
  ASSUME TypeOK, Holding, SceneSide, NEW b \in Nat, Old(b)
  PROVE  Old(b)'
<1> USE DEF Holding
<1>1. ASSUME NEW n \in Nodes, NEW m \in net, Execute(m, n)
      PROVE  Old(b)'
  <2>1. net' \subseteq net
    BY <1>1, ExecuteEffect
  <2>2. CASE Executes(n, m)
    BY <2>1, <2>2, ExecutesEffect DEF Old, Fenced
  <2>3. CASE UNCHANGED <<ent, save, st>>
    BY <2>1, <2>3 DEF Old, Fenced
  <2> QED BY <1>1, <2>2, <2>3, ExecuteEffect
<1>2. ASSUME NEW n \in Nodes, Enter(n)
      PROVE  Old(b)'
  BY <1>2, EnterEffect DEF Old
<1>3. ASSUME NEW n \in Nodes, Leave(n) \/ Reconnect(n)
      PROVE  Old(b)'
  BY <1>3, LeaveEffect DEF Old, Fenced
<1>4. ASSUME NEW n \in Nodes, SubmitSave(n)
      PROVE  Old(b)'
  BY <1>4, SubmitEffect DEF Old, Fenced
<1>5. ASSUME NEW n \in Nodes, SaveSettles(n)
      PROVE  Old(b)'
  BY <1>5, SettleEffect DEF Old, Fenced
<1>6. ASSUME NEW n \in Nodes, Crash(n)
      PROVE  Old(b)'
  BY <1>6, CrashEffect, RecordTypes DEF Old, Fenced
<1>7. CASE ReleaseDeadHolder
  BY <1>7, DeadHolderEffect DEF Old
<1>8. CASE Tick
  BY <1>8 DEF Tick, sceneVars, Old, Fenced
<1> QED BY <1>1, <1>2, <1>3, <1>4, <1>5, <1>6, <1>7, <1>8 DEF SceneSide, Scene

LEMMA QuietStep ==
  ASSUME TypeOK, Holding, SceneSide, QuietScene
  PROVE  QuietScene'
<1> USE DEF Holding
<1>1. CASE Refused
  BY <1>1, OutcomeStays DEF Refused, QuietScene
<1>2. CASE ~Refused
  <2>0. /\ st.led = "unseen" /\ net = {}
        /\ \A k \in Nodes : /\ Fenced(ent[k]) => ent[k].led = "unseen"
                            /\ Fenced(save[k]) => save[k].led = "unseen"
    BY <1>2 DEF QuietScene
  <2>1. ASSUME NEW n \in Nodes, Enter(n)
        PROVE  QuietScene'
    BY <2>0, <2>1, EnterEffect DEF QuietScene
  <2>2. ASSUME NEW n \in Nodes, Leave(n) \/ Reconnect(n)
        PROVE  QuietScene'
    BY <2>0, <2>2, LeaveEffect DEF QuietScene, Fenced
  <2>3. ASSUME NEW n \in Nodes, SubmitSave(n)
        PROVE  QuietScene'
    BY <2>0, <2>3, SubmitEffect DEF QuietScene, Fenced
  <2>4. ASSUME NEW n \in Nodes, SaveSettles(n)
        PROVE  QuietScene'
    BY <2>0, <2>4, SettleEffect DEF QuietScene, Fenced
  <2>5. ASSUME NEW n \in Nodes, Crash(n)
        PROVE  QuietScene'
    BY <2>0, <2>5, CrashEffect, RecordTypes DEF QuietScene, Fenced
  <2>6. CASE ReleaseDeadHolder
    BY <2>0, <2>6, DeadHolderEffect DEF QuietScene
  <2>7. CASE Tick
    BY <2>0, <2>7 DEF Tick, sceneVars, QuietScene, Fenced
  <2> QED BY <2>0, <2>1, <2>2, <2>3, <2>4, <2>5, <2>6, <2>7 DEF SceneSide, Scene
<1> QED BY <1>1, <1>2

\* A request is executed within its life, and an outcome that the row does not
\* show is stored in time.
LEMMA ClockStep ==
  ASSUME TypeOK, SceneTypeOK', Holding, RequestsLive, ExposureShort, SceneSide
  PROVE  RequestsLive' /\ ExposureShort'
<1> USE DEF Holding
<1>t. /\ now \in Nat /\ \A m \in net : m.at \in Nat
      /\ \A k \in Nodes : ent[k].sentAt \in Nat /\ save[k].sentAt \in Nat
  BY DEF TypeOK, SceneTypeOK, Request, Entity, Save
<1>1. ASSUME NEW n \in Nodes, NEW m \in net, Execute(m, n)
      PROVE  RequestsLive' /\ ExposureShort'
  <2>1. net' \subseteq net /\ UNCHANGED <<now, save, st>>
    BY <1>1, ExecuteEffect DEF Execute
  <2>2. RequestsLive'
    BY <2>1 DEF RequestsLive
  <2>3. CASE Executes(n, m)
    <3>1. now <= m.at + SaveLag
      BY <1>t DEF RequestsLive
    <3>2. ExposureShort'
      BY <2>1, <2>3, <3>1, ExecutesEffect DEF ExposureShort, Exposed, ExposedSave, Fenced
    <3> QED BY <2>2, <3>2
  <2>4. CASE UNCHANGED <<ent, save, st>>
    BY <2>1, <2>2, <2>4 DEF ExposureShort, Exposed, ExposedSave, Fenced
  <2> QED BY <1>1, <2>3, <2>4, ExecuteEffect
<1>2. ASSUME NEW n \in Nodes, Enter(n)
      PROVE  RequestsLive' /\ ExposureShort'
  BY <1>2, EnterEffect DEF RequestsLive, ExposureShort, Exposed, ExposedSave
<1>3. ASSUME NEW n \in Nodes, Leave(n) \/ Reconnect(n)
      PROVE  RequestsLive' /\ ExposureShort'
  BY <1>3, LeaveEffect DEF RequestsLive, ExposureShort, Exposed, ExposedSave, Fenced
<1>4. ASSUME NEW n \in Nodes, SubmitSave(n)
      PROVE  RequestsLive' /\ ExposureShort'
  BY <1>4, SubmitEffect DEF RequestsLive, ExposureShort, Exposed, ExposedSave, Fenced
<1>5. ASSUME NEW n \in Nodes, SaveSettles(n)
      PROVE  RequestsLive' /\ ExposureShort'
  BY <1>5, SettleEffect DEF RequestsLive, ExposureShort, Exposed, ExposedSave, Fenced
<1>6. ASSUME NEW n \in Nodes, Crash(n)
      PROVE  RequestsLive' /\ ExposureShort'
  BY <1>6, CrashEffect, RecordTypes DEF RequestsLive, ExposureShort, Exposed, ExposedSave, Fenced
<1>7. CASE ReleaseDeadHolder
  BY <1>7, DeadHolderEffect DEF RequestsLive, ExposureShort, Exposed, ExposedSave
<1>8. CASE Tick
  <2>1. /\ UNCHANGED <<ent, save, st>> /\ now' = now + 1
        /\ net' = {m \in net : now + 1 <= m.at + Life}
        /\ \A k \in Nodes : StoredInTime(k)
    BY <1>8 DEF Tick, sceneVars
  <2>2. RequestsLive'
    BY <1>t, <2>1 DEF RequestsLive
  <2>3. ExposureShort'
    BY <1>t, <2>1 DEF ExposureShort, StoredInTime, Exposed, ExposedSave, Fenced
  <2> QED BY <2>2, <2>3
<1> QED BY <1>1, <1>2, <1>3, <1>4, <1>5, <1>6, <1>7, <1>8 DEF SceneSide, Scene

\* The evidence for a refund: the row is released, the ledger has nothing, and
\* the last request is so old that neither it nor an outcome of it is left.
LEMMA Quieting ==
  ASSUME TypeOK, SceneInv, NEW b \in Nat, Old(b), b + SaveLag < now,
         st.released, st.led = "unseen"
  PROVE  QuietScene
<1>t. /\ now \in Nat /\ \A m \in net : m.at \in Nat
      /\ \A k \in Nodes : ent[k].sentAt \in Nat /\ save[k].sentAt \in Nat
  BY DEF TypeOK, SceneTypeOK, Request, Entity, Save
<1>1. net = {}
  BY <1>t DEF SceneInv, RequestsLive, Old
<1>2. \A n \in Nodes : Fenced(ent[n]) => ent[n].led = "unseen"
  BY <1>t DEF SceneInv, ExposureShort, Exposed, Old
<1>3. \A n \in Nodes : Fenced(save[n]) => save[n].led = "unseen"
  BY <1>t DEF SceneInv, ExposureShort, ExposedSave, Old
<1> QED BY <1>1, <1>2, <1>3 DEF QuietScene

-----------------------------------------------------------------------------
(* The row.                                                                *)

LEMMA IdleTypes ==
  /\ Idle \in Worker /\ Idle.pc = "idle" /\ Idle.at = 0
  /\ NoClerk \in Clerk /\ NoClerk.pc = "idle" /\ NoClerk.at = 0
BY DEF Idle, Worker, NoClerk, Clerk, Pcs

\* The table: what a statement does to the row.
LEMMA ClaimEffect ==
  ASSUME TypeOK, NEW w \in Workers, ClaimRow(w)
  PROVE  /\ Pending /\ row.lease < now
         /\ row' \in Row
         /\ row'.status = "PENDING" /\ row'.token = w /\ row'.lease = now + Lease
         /\ row'.lastSend >= row.lastSend /\ row'.lastSend >= row.lease
         /\ row'.lastSend \in {row.lastSend, row.lease}
<1>1. now + Lease \in Nat /\ Max2(row.lastSend, row.lease) \in Nat
  BY DEF TypeOK, RowTypeOK, SceneTypeOK, Row, Max2
<1>2. /\ Pending /\ row.lease < now
      /\ row' = [row EXCEPT !.lastSend = Max2(row.lastSend, row.lease), !.lease = now + Lease,
                            !.token = w]
  BY DEF ClaimRow
<1>3. row' \in Row
  BY <1>1, <1>2 DEF TypeOK, RowTypeOK, Row
<1>4. /\ row'.status = row.status /\ row'.token = w /\ row'.lease = now + Lease
      /\ row'.lastSend = Max2(row.lastSend, row.lease)
  BY <1>2 DEF TypeOK, RowTypeOK, Row
<1> QED BY <1>2, <1>3, <1>4 DEF TypeOK, RowTypeOK, Row, Max2, Pending

LEMMA RescheduleEffect ==
  ASSUME TypeOK, NEW w \in Workers, NEW local \in BOOLEAN, Reschedule(w, local)
  PROVE  /\ row' \in Row
         /\ ~HoldsRow(w) => row' = row
         /\ HoldsRow(w) => /\ row'.status = row.status /\ row'.token = row.token
                           /\ row'.lease = 0 /\ row'.lastSend >= row.lastSend
                           /\ local => row'.lastSend = row.lastSend
                           /\ ~local => /\ row'.lastSend >= worker[w].at
                                        /\ row'.lastSend \in {row.lastSend, worker[w].at}
<1>1. CASE ~HoldsRow(w)
  BY <1>1 DEF Reschedule, TypeOK, RowTypeOK
<1>2. CASE HoldsRow(w)
  <2> DEFINE l == IF local THEN row.lastSend ELSE Max2(row.lastSend, worker[w].at)
  <2>1. row.lastSend \in Nat /\ worker[w].at \in Nat /\ row.lease \in Nat
    BY DEF TypeOK, RowTypeOK, Row, Worker
  <2>2. l \in Nat
    BY <2>1 DEF Max2
  <2>3. row' = [row EXCEPT !.lease = 0, !.lastSend = l]
    BY <1>2 DEF Reschedule
  <2>4. row' \in Row
    BY <2>2, <2>3 DEF TypeOK, RowTypeOK, Row
  <2>5. row'.status = row.status /\ row'.token = row.token /\ row'.lease = 0 /\ row'.lastSend = l
    BY <2>3 DEF TypeOK, RowTypeOK, Row
  <2> QED BY <1>2, <2>1, <2>4, <2>5 DEF Max2
<1> QED BY <1>1, <1>2

LEMMA ReleaseEffect ==
  ASSUME TypeOK, NEW w \in Workers, ReleaseLease(w)
  PROVE  /\ row' \in Row
         /\ ~HoldsRow(w) => row' = row
         /\ HoldsRow(w) => /\ row'.status = row.status /\ row'.token = row.token
                           /\ row'.lease = 0 /\ row'.lastSend = row.lastSend
BY DEF ReleaseLease, TypeOK, RowTypeOK, Row

\* A row that is settled.
SettledAs(s) == row' = [row EXCEPT !.status = s, !.lease = 0]

LEMMA SettledEffect ==
  ASSUME TypeOK, NEW s \in Statuses, SettledAs(s)
  PROVE  row' \in Row /\ row'.status = s
BY DEF SettledAs, TypeOK, RowTypeOK, Row

LEMMA FinalStatusType ==
  ASSUME NEW rpc, NEW led \in Outcomes
  PROVE  /\ FinalStatus(rpc, led) \in Statuses \ {"PENDING", "ABANDONED"}
         /\ FinalStatus(rpc, led) = "APPLIED" <=> led = "applied"
BY DEF FinalStatus, Statuses, Outcomes

LEMMA RowTyping ==
  ASSUME TypeOK, ProofsHold, RowSide
  PROVE  RowTypeOK'
<1> USE DEF TypeOK, RowTypeOK
<1>t. /\ now \in Nat /\ st.led \in Ledger /\ row.lease \in Nat /\ row.lastSend \in Nat
      /\ row \in Row /\ clerk \in Clerk
      /\ \A w \in Workers : worker[w] \in Worker
  BY DEF SceneTypeOK, Stored, Row
<1>1. ASSUME NEW w \in Workers, claimAndProcess(w)
      PROVE  RowTypeOK'
  <2>1. row' \in Row /\ row'.lastSend \in Nat /\ UNCHANGED clerk
    BY <1>1, ClaimEffect DEF claimAndProcess, Row
  <2>2. [Idle EXCEPT !.pc = "claimed", !.at = now, !.lastSend = row'.lastSend] \in Worker
    BY <1>t, <2>1, IdleTypes DEF Worker, Pcs, Unsendable
  <2> QED BY <1>1, <2>1, <2>2 DEF claimAndProcess, WorkerAt
<1>2. ASSUME NEW w \in Workers, invoke(w) \/ TransportFails(w)
      PROVE  RowTypeOK'
  <2>1. \A p \in Sent : [worker[w] EXCEPT !.pc = p] \in Worker
    BY <1>t DEF Worker, Pcs, Sent
  <2> QED BY <1>2, <2>1 DEF invoke, TransportFails, WorkerAt, Sent
<1>3. ASSUME NEW w \in Workers, NotLocated(w) \/ reschedule(w)
      PROVE  RowTypeOK'
  <2>1. row' \in Row
    BY <1>3, RescheduleEffect DEF NotLocated, reschedule
  <2> QED BY <1>3, <2>1, IdleTypes DEF NotLocated, reschedule, Done, WorkerAt
<1>4. ASSUME NEW w \in Workers, tryPersistedLedger(w) \/ verifySQLCommit(w)
      PROVE  RowTypeOK'
  <2>1. [worker[w] EXCEPT !.pc = "proved", !.res = st.led] \in Worker
    BY <1>4, <1>t DEF Worker, Pcs, Sent, tryPersistedLedger, verifySQLCommit
  <2> QED BY <1>4, <2>1 DEF tryPersistedLedger, verifySQLCommit, WorkerAt
<1>5. ASSUME NEW w \in Workers, finalize(w)
      PROVE  RowTypeOK'
  <2>1. worker[w].res \in Outcomes
    BY <1>5 DEF finalize, ProofsHold
  <2>2. row' = row \/ SettledAs(FinalStatus(rpcFor(w), worker[w].res))
    BY <1>5 DEF finalize, Finalize, SettledAs
  <2>3. row' \in Row
    BY <2>1, <2>2, FinalStatusType, SettledEffect
  <2> QED BY <1>5, <2>3, IdleTypes DEF finalize, Done, WorkerAt
<1>6. ASSUME NEW w \in Workers, WorkerStops(w)
      PROVE  RowTypeOK'
  BY <1>6, IdleTypes DEF WorkerStops, Done, WorkerAt
<1>7. ASSUME NEW w \in Workers, NEW t \in {now - 1, now}, abandonOne(w, t)
      PROVE  RowTypeOK'
  <2>1. row' \in Row /\ row'.lastSend \in Nat /\ UNCHANGED clerk
    BY <1>7, ClaimEffect DEF abandonOne, Row
  <2>2. t \in Nat
    BY <1>t, <1>7 DEF abandonOne, Created
  <2>3. [Idle EXCEPT !.pc = "judging", !.at = t, !.lastSend = row'.lastSend] \in Worker
    BY <2>1, <2>2, IdleTypes DEF Worker, Pcs, Unsendable, Judging
  <2> QED BY <1>7, <2>1, <2>3 DEF abandonOne, WorkerAt
<1>8. ASSUME NEW w \in Workers, judgeAbandon(w)
      PROVE  RowTypeOK'
  <2>1. \A pc \in Judging, r \in {worker[w].res, st.led} :
          [worker[w] EXCEPT !.pc = pc, !.res = r] \in Worker
    BY <1>t DEF Worker, Pcs, Unsendable, Ledger
  <2>2. \E pc \in Judging, r \in {worker[w].res, st.led} :
          worker' = [worker EXCEPT ![w] = [worker[w] EXCEPT !.pc = pc, !.res = r]]
    BY <1>8 DEF judgeAbandon, WorkerAt, Judging
  <2> QED BY <1>8, <2>1, <2>2 DEF judgeAbandon
<1>9. ASSUME NEW w \in Workers, commitAbandon(w)
      PROVE  RowTypeOK'
  <2>1. row' = row \/ SettledAs("ABANDONED")
    BY <1>9 DEF commitAbandon, Abandon, SettledAs
  <2>2. row' \in Row
    BY <2>1, SettledEffect DEF Statuses
  <2> QED BY <1>9, <2>2, IdleTypes DEF commitAbandon, Done, WorkerAt
<1>10. ASSUME NEW w \in Workers, releaseAbandonLease(w)
       PROVE  RowTypeOK'
  BY <1>10, ReleaseEffect, IdleTypes DEF releaseAbandonLease, Done, WorkerAt
<1>11. CASE ReadOp
  <2>1. clerk' = [NoClerk EXCEPT !.pc = "read", !.at = now, !.lease = row.lease,
                                 !.lastSend = row.lastSend]
        /\ UNCHANGED <<row, worker>>
    BY <1>11 DEF ReadOp
  <2>2. clerk' \in Clerk
    BY <1>t, <2>1, IdleTypes DEF Clerk
  <2> QED BY <2>1, <2>2
<1>12. CASE JudgeManual
  <2>1. clerk' = NoClerk \/ \E f \in {"APPLIED", "ABORTED"} :
          clerk' = [clerk EXCEPT !.pc = "judged", !.final = f]
    BY <1>12 DEF JudgeManual
  <2>2. \A f \in {"APPLIED", "ABORTED"} : [clerk EXCEPT !.pc = "judged", !.final = f] \in Clerk
    BY <1>t DEF Clerk
  <2> QED BY <1>12, <2>1, <2>2, IdleTypes DEF JudgeManual
<1>13. CASE ResolveManually
  <2>1. row' = row \/ SettledAs(clerk.final)
    BY <1>13 DEF ResolveManually, ResolveManuallyIfQuiet, SettledAs
  <2>2. clerk.final \in Statuses
    BY <1>t DEF Clerk, Statuses
  <2> QED BY <1>13, <2>1, <2>2, SettledEffect, IdleTypes DEF ResolveManually
<1> QED BY <1>1, <1>2, <1>3, <1>4, <1>5, <1>6, <1>7, <1>8, <1>9, <1>10, <1>11, <1>12, <1>13
        DEF RowSide, Reconcile, AbandonJob

-----------------------------------------------------------------------------
(* Steps of the service's side that leave the scene alone.                 *)

SameScene == UNCHANGED <<now, net, ent, save, st>>

LEMMA SameSceneFacts ==
  ASSUME SameScene
  PROVE  /\ \A b \in Nat : Old(b)' <=> Old(b)
         /\ QuietScene' <=> QuietScene
         /\ Refused' <=> Refused
BY DEF SameScene, Old, Fenced, QuietScene, Refused

\* What the invariant says of the times in the row.
LEMMA Times ==
  ASSUME TypeOK
  PROVE  /\ now \in Nat /\ row.lease \in Nat /\ row.lastSend \in Nat /\ row.token \in Workers
         /\ clerk.at \in Nat /\ clerk.lease \in Nat /\ clerk.lastSend \in Nat
         /\ \A w \in Workers : worker[w].at \in Nat /\ worker[w].lastSend \in Nat
         /\ LastSent \in Nat /\ LastSent >= row.lastSend
         /\ row.lease # 0 => LastSent >= row.lease - Lease
         /\ LastSent <= Max2(row.lastSend, row.lease)
         /\ LastSent \in {row.lastSend, row.lease - Lease}
         /\ Lease > Budget
<1>1. /\ now \in Nat /\ row.lease \in Nat /\ row.lastSend \in Nat /\ row.token \in Workers
      /\ clerk.at \in Nat /\ clerk.lease \in Nat /\ clerk.lastSend \in Nat
      /\ \A w \in Workers : worker[w].at \in Nat /\ worker[w].lastSend \in Nat
  BY DEF TypeOK, RowTypeOK, SceneTypeOK, Row, Clerk, Worker
<1> QED BY <1>1 DEF LastSent, Max2

\* A worker moves on without touching the row.
LEMMA Stays ==
  ASSUME IInv, TypeOK', SameScene, UNCHANGED <<row, clerk>>,
         NEW w \in Workers, \A v \in Workers : v # w => worker'[v] = worker[v],
         worker'[w].at = worker[w].at, worker'[w].lastSend = worker[w].lastSend,
         worker'[w].pc \in Unsendable => worker[w].pc \in Unsendable,
         worker'[w].pc \in Sending => worker[w].pc \in Sending,
         worker'[w].pc \in {"claimed"} \cup Sent => worker[w].pc \in {"claimed"} \cup Sent,
         worker'[w].pc \in Judging => worker[w].pc \in Judging,
         worker'[w].pc \in {"proved", "seen"} =>
           worker'[w].res \in Outcomes /\ worker'[w].res = st.led,
         worker'[w].pc = "abandoning" /\ HoldsRow(w) => NeverAgain
  PROVE  RowInv' /\ BookedIsStored'
<1> USE DEF IInv, RowInv
<1>0. UNCHANGED <<now, st>>
  BY DEF SameScene
<1>h. HolderSentNothing' => HolderSentNothing
  BY Times DEF HolderSentNothing
<1>1. SendsRecorded'
  BY <1>h, SameSceneFacts DEF SendsRecorded, LastSent, Pending
<1>2. ClaimsTimed'
  BY <1>0 DEF ClaimsTimed, HoldsRow, Pending
<1>3. ProofsHold'
  BY <1>0 DEF ProofsHold
<1>4. UnsentSinceRead' => UnsentSinceRead
  BY <1>h DEF UnsentSinceRead, Pending
<1>5. ClerkKnows'
  BY <1>0, <1>4, SameSceneFacts DEF ClerkKnows, RowQuiet, Pending
<1>6. NeverAgain => NeverAgain'
  BY <1>0, SameSceneFacts DEF NeverAgain, NoSender
<1>7. RefundsSafe'
  BY <1>6 DEF RefundsSafe, Refunded, HoldsRow, Pending
<1>8. BookedIsStored'
  BY <1>0 DEF BookedIsStored
<1> QED BY <1>1, <1>2, <1>3, <1>5, <1>7, <1>8

\* A worker gives up: the row is left as it is or given back.
LEMMA Quits ==
  ASSUME IInv, TypeOK', SameScene, UNCHANGED clerk, NEW w \in Workers, Done(w),
         \/ row' = row
         \/ /\ HoldsRow(w) /\ worker[w].pc # "idle"
            /\ row'.status = row.status /\ row'.token = row.token /\ row'.lease = 0
            /\ row'.lastSend >= row.lastSend
            /\ row'.lastSend >= worker[w].at \/ worker[w].pc \in Unsendable
  PROVE  RowInv' /\ BookedIsStored'
<1>w. /\ \A v \in Workers : v # w => worker'[v] = worker[v]
      /\ worker'[w].pc = "idle" /\ worker'[w].at = 0
  BY IdleTypes DEF Done, WorkerAt, IInv, TypeOK, RowTypeOK
<1>0. UNCHANGED <<now, st>>
  BY DEF SameScene
<1> USE DEF IInv, RowInv
<1>h. HolderSentNothing' => HolderSentNothing /\ row'.token # w
  <2>1. row'.token = row.token
    OBVIOUS
  <2> QED BY <1>w, <2>1, Times DEF HolderSentNothing, Unsendable, Judging
<1>k. CASE row' # row
  <2>1. /\ HoldsRow(w) /\ row'.status = row.status /\ row'.token = row.token /\ row'.lease = 0
        /\ row'.lastSend >= row.lastSend
    BY <1>k
  <2>2. LastSent' = row'.lastSend /\ row'.lastSend \in Nat
    BY <2>1, Times DEF LastSent, TypeOK, RowTypeOK, Row
  <2>3. worker[w].pc \in Unsendable => HolderSentNothing
    BY <2>1 DEF HoldsRow, HolderSentNothing
  <2>4. worker[w].pc \notin Unsendable => LastSent <= row'.lastSend /\ row.lease <= row'.lastSend + Lease
    <3>1. worker[w].pc \in Pcs \ {"idle"}
      BY <1>k DEF TypeOK, RowTypeOK, Worker
    <3>2. worker[w].pc \notin Unsendable => worker[w].pc \in {"claimed"} \cup Sent
      BY <3>1 DEF Pcs
    <3>3. worker[w].pc \notin Unsendable =>
            row.lease = worker[w].at + Lease /\ row'.lastSend >= worker[w].at
      BY <1>k, <2>1, <3>2 DEF ClaimsTimed
    <3> QED BY <2>1, <2>2, <3>3, Times
  <2>5. \A b \in Nat : row'.lastSend + Budget <= b => Old(b)
    <3>1. \A b \in Nat : row'.lastSend + Budget <= b =>
            row.lastSend + Budget <= b
            /\ (worker[w].pc \notin Unsendable => LastSent + Budget <= b)
      BY <2>1, <2>2, <2>4, Times
    <3> QED BY <2>1, <2>3, <3>1 DEF SendsRecorded, HoldsRow
  <2>6. SendsRecorded'
    BY <2>2, <2>5, SameSceneFacts DEF SendsRecorded
  <2>7. ClaimsTimed'
    BY <1>0, <1>w, <2>1, Times DEF ClaimsTimed, HoldsRow, Pending, Sent, Judging, Sending
  <2>8. UnsentSinceRead' => UnsentSinceRead
    BY <2>1, <2>2, <2>3, <2>4, Times DEF UnsentSinceRead, Pending
  <2>9. ClerkKnows'
    BY <1>0, <1>w, <2>1, <2>8, SameSceneFacts DEF ClerkKnows, RowQuiet, Pending, Sending
  <2>10. RefundsSafe'
    BY <1>w, <2>1, SameSceneFacts DEF RefundsSafe, HoldsRow, Pending, Refunded
  <2> QED BY <1>0, <1>w, <2>1, <2>6, <2>7, <2>9, <2>10
          DEF ProofsHold, BookedIsStored
<1>s. CASE row' = row
  <2>1. SendsRecorded'
    BY <1>h, <1>s, SameSceneFacts DEF SendsRecorded, LastSent, Pending
  <2>2. ClaimsTimed'
    BY <1>0, <1>w, <1>s, Times DEF ClaimsTimed, HoldsRow, Pending, Sent, Judging, Sending
  <2>3. UnsentSinceRead' => UnsentSinceRead
    BY <1>h, <1>s DEF UnsentSinceRead, Pending
  <2>4. ClerkKnows'
    BY <1>0, <1>w, <1>s, <2>3, SameSceneFacts DEF ClerkKnows, RowQuiet, Pending, Sending
  <2>5. NeverAgain => NeverAgain'
    BY <1>0, <1>w, SameSceneFacts DEF NeverAgain, NoSender, Sending
  <2>6. RefundsSafe'
    BY <1>w, <1>s, <2>5 DEF RefundsSafe, HoldsRow, Pending, Refunded
  <2> QED BY <1>0, <1>w, <1>s, <2>1, <2>2, <2>4, <2>6 DEF ProofsHold, BookedIsStored
<1> QED BY <1>k, <1>s

\* The row is settled: applied if that is stored, refunded if it never will be.
LEMMA Settles ==
  ASSUME IInv, TypeOK', SameScene, NEW s \in Statuses \ {"PENDING"}, SettledAs(s),
         s = "APPLIED" => st.led = "applied",
         s # "APPLIED" => NeverAgain,
         clerk' \in {clerk, NoClerk},
         \A v \in Workers : worker'[v] \in {worker[v], Idle}
  PROVE  RowInv' /\ BookedIsStored'
<1> USE DEF IInv, RowInv
<1>0. UNCHANGED <<now, st>>
  BY DEF SameScene
<1>1. row'.status = s
  BY SettledEffect
<1>2. ~Pending' /\ SendsRecorded'
  BY <1>1 DEF Pending, SendsRecorded
<1>3. ClaimsTimed'
  BY <1>0, <1>2, Times, IdleTypes DEF ClaimsTimed, HoldsRow
<1>4. ProofsHold'
  BY <1>0, IdleTypes DEF ProofsHold
<1>5. ClerkKnows'
  BY <1>2, IdleTypes, SameSceneFacts DEF ClerkKnows, UnsentSinceRead, RowQuiet
<1>6. NeverAgain => NeverAgain'
  BY <1>0, IdleTypes, SameSceneFacts DEF NeverAgain, NoSender, Sending
<1>7. RefundsSafe'
  BY <1>1, <1>2, <1>6 DEF RefundsSafe, HoldsRow, Refunded
<1>8. BookedIsStored'
  BY <1>0, <1>1 DEF BookedIsStored
<1> QED BY <1>2, <1>3, <1>4, <1>5, <1>7, <1>8

\* The row is claimed: by the reconcile loop, or by the abandon job with the
\* time of its round.
LEMMA Claims ==
  ASSUME IInv, TypeOK', SameScene, UNCHANGED clerk, NEW w \in Workers, ClaimRow(w),
         worker[w].pc = "idle", \A v \in Workers : v # w => worker'[v] = worker[v],
         worker'[w].lastSend = row'.lastSend,
         \/ worker'[w].pc = "claimed" /\ worker'[w].at = now
         \/ worker'[w].pc = "judging" /\ worker'[w].at <= now
  PROVE  RowInv' /\ BookedIsStored'
<1> USE DEF IInv, RowInv
<1>0. UNCHANGED <<now, st>>
  BY DEF SameScene
<1>r. /\ Pending /\ row.lease < now
      /\ row'.status = "PENDING" /\ row'.token = w /\ row'.lease = now + Lease
      /\ row'.lastSend >= row.lastSend /\ row'.lastSend >= row.lease
      /\ row'.lastSend \in Nat
  BY ClaimEffect DEF Row
<1>p. worker'[w].pc \in Unsendable /\ worker'[w].pc \notin Sent \cup {"proved", "seen", "abandoning"}
  BY DEF Unsendable, Judging, Sent
<1>n. \A v \in Workers : worker[v].pc \in Sending => now > worker[v].at + Budget
  <2> SUFFICES ASSUME NEW v \in Workers, worker[v].pc \in Sending, now <= worker[v].at + Budget
               PROVE  FALSE
    BY Times
  <2>1. HoldsRow(v) /\ worker[v].pc \in {"claimed"} \cup Sent
    BY <1>r DEF ClaimsTimed, HoldsRow, Sending, Sent
  <2>2. row.lease = worker[v].at + Lease
    BY <2>1 DEF ClaimsTimed
  <2> QED BY <1>r, <2>2, Times
<1>1. SendsRecorded'
  <2>1. LastSent' \in Nat /\ LastSent' >= row'.lastSend
    BY <1>r, Times DEF LastSent, Max2
  <2>2. \A b \in Nat : row'.lastSend + Budget <= b => Old(b)
    BY <1>r, Times DEF SendsRecorded, Max2
  <2>3. \A b \in Nat : LastSent' + Budget <= b => row'.lastSend + Budget <= b
    BY <1>r, <2>1
  <2> QED BY <2>2, <2>3, SameSceneFacts DEF SendsRecorded
<1>2. ClaimsTimed'
  <2>1. worker'[w].at \in Nat
    BY DEF TypeOK, RowTypeOK, Worker
  <2> QED BY <1>0, <1>r, <1>p, <1>n, <2>1, Times DEF ClaimsTimed, HoldsRow, Pending
<1>3. ProofsHold'
  BY <1>0, <1>p DEF ProofsHold
<1>4. UnsentSinceRead' => UnsentSinceRead
  BY <1>r, Times DEF UnsentSinceRead, Pending
<1>5. ClerkKnows'
  <2>1. worker'[w].pc \in Sending => worker'[w].at = now
    BY DEF Sending
  <2> QED BY <1>0, <1>r, <1>4, <1>n, <2>1, Times, SameSceneFacts
          DEF ClerkKnows, ClaimsTimed, RowQuiet, Pending
<1>6. RefundsSafe'
  BY <1>r, <1>p DEF RefundsSafe, HoldsRow, Refunded, Pending
<1>7. BookedIsStored'
  BY <1>r DEF BookedIsStored
<1> QED BY <1>1, <1>2, <1>3, <1>5, <1>6, <1>7

-----------------------------------------------------------------------------
(* The steps of the service's side.                                        *)

\* Only a worker within its budget sends, and then it holds the row: a request
\* is no younger than the lease tells.
LEMMA InvokeStep ==
  ASSUME IInv, TypeOK', NEW w \in Workers, invoke(w)
  PROVE  RowInv' /\ BookedIsStored' /\ SceneInv'
<1> USE DEF IInv, RowInv
<1>0. /\ UNCHANGED <<now, row, clerk, ent, save, st>>
      /\ worker[w].pc \in {"claimed", "answered"} /\ now <= worker[w].at + Budget
      /\ net' = net \cup {[by |-> w, rpc |-> rpcFor(w), at |-> now]}
      /\ worker' = [worker EXCEPT ![w] = [worker[w] EXCEPT !.pc = "waiting"]]
  BY DEF invoke, WorkerAt, sceneVars
<1>w. /\ \A v \in Workers : v # w => worker'[v] = worker[v]
      /\ worker'[w].pc = "waiting" /\ worker'[w].at = worker[w].at
      /\ worker'[w].lastSend = worker[w].lastSend
  BY <1>0 DEF TypeOK, RowTypeOK, Worker
<1>p. worker[w].pc \in Sending /\ worker[w].pc \in {"claimed"} \cup Sent
  BY <1>0 DEF Sending, Sent
<1>r. Pending => row.token = w /\ row.lease = worker[w].at + Lease
  BY <1>0, <1>p DEF ClaimsTimed, HoldsRow
<1>o. \A b \in Nat : now <= b /\ Old(b) => Old(b)'
  BY <1>0 DEF Old, Fenced
<1>q. Refused' <=> Refused
  BY <1>0 DEF Refused
<1>n. NeverAgain => Refused
  BY <1>0, <1>p, Times DEF NeverAgain, NoSender
<1>1. SendsRecorded'
  <2>1. Pending => ~HolderSentNothing'
    BY <1>0, <1>r, <1>w DEF HolderSentNothing, Unsendable, Judging
  <2>2. Pending => now <= LastSent + Budget
    BY <1>0, <1>r, Times
  <2>3. UNCHANGED <<LastSent, Pending>>
    BY <1>0 DEF LastSent, Pending
  <2> QED BY <1>o, <2>1, <2>2, <2>3, Times DEF SendsRecorded
<1>2. ClaimsTimed'
  BY <1>0, <1>w, <1>p DEF ClaimsTimed, HoldsRow, Pending, Sent, Judging, Sending
<1>3. ProofsHold'
  BY <1>0, <1>w DEF ProofsHold
<1>4. clerk.pc # "idle" /\ RowQuiet => ~UnsentSinceRead'
  <2> SUFFICES ASSUME clerk.pc # "idle", RowQuiet, UnsentSinceRead' PROVE FALSE
    OBVIOUS
  <2>1. Pending /\ row.lease < clerk.at + Lease
    BY <1>0, <1>r, <1>w DEF UnsentSinceRead, HolderSentNothing, Unsendable, Judging, Pending
  <2>2. worker[w].at >= clerk.at
    BY <1>0, <1>p, <2>1 DEF ClerkKnows
  <2> QED BY <1>r, <2>1, <2>2, Times
<1>5. ClerkKnows'
  <2>1. UNCHANGED <<RowQuiet, Pending>>
    BY <1>0 DEF RowQuiet, Pending, Unsent, Max2
  <2>2. clerk.pc # "idle" /\ Refused => QuietScene'
    BY <1>q DEF QuietScene
  <2> QED BY <1>0, <1>w, <1>p, <1>q, <1>4, <2>1, <2>2 DEF ClerkKnows
<1>6. RefundsSafe'
  BY <1>0, <1>w, <1>n, <1>q DEF RefundsSafe, HoldsRow, Pending, Refunded, NeverAgain
<1>7. BookedIsStored'
  BY <1>0 DEF BookedIsStored
<1>8. SceneInv'
  BY <1>0, Times DEF SceneInv, EpochsBounded, OneHolder, LedgerGrows, RequestsLive, ExposureShort,
                     Exposed, ExposedSave, Fenced
<1> QED BY <1>1, <1>2, <1>3, <1>5, <1>6, <1>7, <1>8

\* The abandon job refunds only a row of which nothing is under way.
LEMMA JudgeStep ==
  ASSUME IInv, TypeOK', NEW w \in Workers, judgeAbandon(w)
  PROVE  RowInv' /\ BookedIsStored'
<1> USE DEF IInv, RowInv
<1> DEFINE evidence == st.released /\ Unsent(worker[w].lastSend, worker[w].at)
           pc == IF ~evidence THEN "returning"
                 ELSE IF st.led = "unseen" THEN "abandoning" ELSE "seen"
<1>0. /\ SameScene /\ UNCHANGED <<row, clerk>> /\ worker[w].pc = "judging"
      /\ worker' = [worker EXCEPT ![w] = [worker[w] EXCEPT !.pc = pc,
                                            !.res = IF pc = "seen" THEN st.led ELSE @]]
  BY DEF judgeAbandon, WorkerAt, SameScene, sceneVars
<1>w. /\ \A v \in Workers : v # w => worker'[v] = worker[v]
      /\ worker'[w].pc = pc /\ worker'[w].at = worker[w].at
      /\ worker'[w].lastSend = worker[w].lastSend
      /\ pc = "seen" => worker'[w].res = st.led
  BY <1>0 DEF TypeOK, RowTypeOK, Worker
<1>1. pc = "seen" => st.led \in Outcomes
  BY DEF TypeOK, SceneTypeOK, Stored, Ledger
<1>2. ASSUME pc = "abandoning", HoldsRow(w)
      PROVE  NeverAgain
  <2>1. st.released /\ st.led = "unseen" /\ worker[w].at - worker[w].lastSend >= Gap
    BY <1>2 DEF Unsent
  <2>2. worker[w].lastSend = row.lastSend /\ worker[w].at <= now /\ HolderSentNothing /\ Pending
    BY <1>0, <1>2 DEF ClaimsTimed, HoldsRow, HolderSentNothing, Judging, Unsendable
  <2>3. row.lastSend + Budget \in Nat /\ row.lastSend + Budget + SaveLag < now
    BY <2>1, <2>2, Times
  <2>4. Old(row.lastSend + Budget)
    BY <2>2, <2>3 DEF SendsRecorded
  <2>5. QuietScene
    BY <2>1, <2>3, <2>4, Quieting
  <2>6. NoSender
    <3> SUFFICES ASSUME NEW v \in Workers, worker[v].pc \in Sending, now <= worker[v].at + Budget
                 PROVE  FALSE
      BY Times DEF NoSender
    <3>1. v = w
      BY <1>2, <2>2 DEF ClaimsTimed, HoldsRow
    <3> QED BY <1>0, <3>1 DEF Sending
  <2> QED BY <2>5, <2>6 DEF NeverAgain
<1>3. pc \in Judging /\ pc \notin Sending /\ pc \notin {"claimed"} \cup Sent /\ pc # "proved"
  BY DEF Judging, Sending, Sent
<1>4. "judging" \in Judging /\ "judging" \in Unsendable
  BY DEF Judging, Unsendable
<1>5. pc \in {"proved", "seen"} => worker'[w].res \in Outcomes /\ worker'[w].res = st.led
  BY <1>w, <1>1
<1> HIDE DEF pc
<1> QED BY <1>0, <1>w, <1>2, <1>3, <1>4, <1>5, Stays

\* What the clerk reads of a quiet row excludes any worker within its budget.
LEMMA ReadStep ==
  ASSUME IInv, TypeOK', ReadOp
  PROVE  RowInv' /\ BookedIsStored'
<1> USE DEF IInv, RowInv
<1>0. /\ SameScene /\ UNCHANGED <<row, worker>> /\ Pending
      /\ clerk' = [NoClerk EXCEPT !.pc = "read", !.at = now, !.lease = row.lease,
                                  !.lastSend = row.lastSend]
  BY DEF ReadOp, SameScene, sceneVars
<1>c. clerk'.pc = "read" /\ clerk'.at = now /\ clerk'.lease = row.lease
      /\ clerk'.lastSend = row.lastSend
  BY <1>0 DEF NoClerk
<1>s. UNCHANGED <<now, st>>
  BY <1>0 DEF SameScene
<1>1. SendsRecorded'
  BY <1>0, SameSceneFacts DEF SendsRecorded, LastSent, Pending, HolderSentNothing
<1>2. ClaimsTimed'
  BY <1>0, <1>c, <1>s, Times DEF ClaimsTimed, HoldsRow, Pending
<1>3. ProofsHold'
  BY <1>0, <1>c, <1>s DEF ProofsHold
<1>4. \A b \in Nat : Max2(clerk'.lastSend, clerk'.lease) + Budget <= b => Old(b)
  <2>1. LastSent <= Max2(clerk'.lastSend, clerk'.lease)
        /\ Max2(clerk'.lastSend, clerk'.lease) \in Nat
    BY <1>c, Times DEF Max2
  <2>2. \A b \in Nat : Max2(clerk'.lastSend, clerk'.lease) + Budget <= b => LastSent + Budget <= b
    BY <2>1, Times
  <2> QED BY <1>0, <2>2 DEF SendsRecorded
<1>5. RowQuiet' => \A w \in Workers : ~(worker[w].pc \in Sending /\ now <= worker[w].at + Budget)
  <2> SUFFICES ASSUME RowQuiet', NEW w \in Workers, worker[w].pc \in Sending,
                      now <= worker[w].at + Budget
               PROVE  FALSE
    OBVIOUS
  <2>1. row.lease <= now
    BY <1>c DEF RowQuiet
  <2>2. HoldsRow(w) /\ worker[w].pc \in {"claimed"} \cup Sent
    BY <1>0 DEF ClaimsTimed, HoldsRow, Sending, Sent
  <2>3. row.lease = worker[w].at + Lease
    BY <2>2 DEF ClaimsTimed
  <2> QED BY <2>1, <2>3, Times
<1>6. ClerkKnows'
  BY <1>0, <1>c, <1>s, <1>4, <1>5, SameSceneFacts DEF ClerkKnows
<1>7. RefundsSafe' /\ BookedIsStored'
  BY <1>0, <1>s, SameSceneFacts DEF RefundsSafe, HoldsRow, Refunded, Pending, NeverAgain, NoSender,
                                BookedIsStored
<1> QED BY <1>1, <1>2, <1>3, <1>6, <1>7

\* What the clerk decides holds as long as the row is as it was read.
LEMMA JudgeManualStep ==
  ASSUME IInv, TypeOK', JudgeManual
  PROVE  RowInv' /\ BookedIsStored'
<1> USE DEF IInv, RowInv
<1>0. SameScene /\ UNCHANGED <<row, worker>> /\ clerk.pc = "read"
  BY DEF JudgeManual, SameScene, sceneVars
<1>s. UNCHANGED <<now, st>>
  BY <1>0 DEF SameScene
<1>1. SendsRecorded'
  BY <1>0, SameSceneFacts DEF SendsRecorded, LastSent, Pending, HolderSentNothing
<1>2. RefundsSafe' /\ BookedIsStored'
  BY <1>0, <1>s, SameSceneFacts DEF RefundsSafe, HoldsRow, Refunded, Pending, NeverAgain, NoSender,
                                BookedIsStored
<1>3. CASE clerk' = NoClerk
  <2>1. clerk'.pc = "idle" /\ clerk'.at = 0
    BY <1>3, IdleTypes
  <2>2. ClaimsTimed' /\ ProofsHold' /\ ClerkKnows'
    BY <1>0, <1>s, <2>1, Times DEF ClaimsTimed, HoldsRow, Pending, ProofsHold, ClerkKnows
  <2> QED BY <1>1, <1>2, <2>2
<1>4. ASSUME NEW f \in {"APPLIED", "ABORTED"}, clerk' = [clerk EXCEPT !.pc = "judged", !.final = f],
             IF f = "APPLIED" THEN st.led = "applied"
             ELSE st.led \in {"rejected", "aborted"} \/ NeverApplied
      PROVE  RowInv' /\ BookedIsStored'
  <2>c. /\ clerk'.pc = "judged" /\ clerk'.final = f /\ clerk'.at = clerk.at
        /\ clerk'.lease = clerk.lease /\ clerk'.lastSend = clerk.lastSend
    BY <1>4 DEF TypeOK, RowTypeOK, Clerk
  <2>q. UNCHANGED <<RowQuiet, UnsentSinceRead, Pending>>
    BY <1>0, <2>c DEF RowQuiet, UnsentSinceRead, Pending, HolderSentNothing, Unsent, Max2
  <2>1. ClaimsTimed'
    BY <1>0, <1>s, <2>c DEF ClaimsTimed, HoldsRow, Pending
  <2>2. ProofsHold'
    BY <1>0, <1>s, <1>4, <2>c DEF ProofsHold
  <2>3. f = "ABORTED" => (Refused \/ RowQuiet) /\ (UnsentSinceRead => QuietScene)
    <3>1. CASE Refused
      BY <3>1 DEF QuietScene
    <3>2. CASE ~Refused
      <4> SUFFICES ASSUME f = "ABORTED" PROVE RowQuiet /\ (UnsentSinceRead => QuietScene)
        OBVIOUS
      <4>1. st.led = "unseen" /\ st.released /\ RowQuiet
        BY <1>4, <3>2 DEF NeverApplied, Refused
      <4> DEFINE b == Max2(clerk.lastSend, clerk.lease) + Budget
      <4>2. b \in Nat /\ b + SaveLag < now
        BY <4>1, Times DEF RowQuiet, Unsent, Max2, ClaimsTimed
      <4>3. UnsentSinceRead => Old(b)
        BY <1>0, <4>1, <4>2 DEF ClerkKnows
      <4> HIDE DEF b
      <4> QED BY <4>1, <4>2, <4>3, Quieting
    <3> QED BY <3>1, <3>2
  <2>4. ClerkKnows'
    BY <1>0, <1>s, <2>c, <2>q, <2>3, SameSceneFacts DEF ClerkKnows
  <2> QED BY <1>1, <1>2, <2>1, <2>2, <2>4
<1>5. \/ clerk' = NoClerk
      \/ \E f \in {"APPLIED", "ABORTED"} :
           /\ clerk' = [clerk EXCEPT !.pc = "judged", !.final = f]
           /\ IF f = "APPLIED" THEN st.led = "applied"
              ELSE st.led \in {"rejected", "aborted"} \/ NeverApplied
  BY DEF JudgeManual
<1> QED BY <1>3, <1>4, <1>5

LEMMA ResolveStep ==
  ASSUME IInv, TypeOK', ResolveManually
  PROVE  RowInv' /\ BookedIsStored'
<1> USE DEF IInv, RowInv
<1>0. SameScene /\ UNCHANGED worker /\ clerk' = NoClerk /\ clerk.pc = "judged"
  BY DEF ResolveManually, SameScene, sceneVars
<1>s. UNCHANGED <<now, st>>
  BY <1>0 DEF SameScene
<1>1. CASE Pending /\ row.lease = clerk.lease /\ row.lastSend = clerk.lastSend
  <2>1. SettledAs(clerk.final)
    BY <1>1 DEF ResolveManually, ResolveManuallyIfQuiet, SettledAs
  <2>2. clerk.final \in {"APPLIED", "ABORTED"}
    BY <1>0 DEF ProofsHold, TypeOK, RowTypeOK, Clerk
  <2>3. clerk.final = "APPLIED" => st.led = "applied"
    BY <1>0 DEF ProofsHold
  <2>4. ASSUME clerk.final = "ABORTED", ~Refused PROVE NeverAgain
    <3>1. RowQuiet /\ (UnsentSinceRead => QuietScene)
      BY <1>0, <2>4 DEF ClerkKnows
    <3>2. row.lease <= clerk.at /\ row.lastSend < clerk.at
      BY <1>1, <3>1, Times DEF RowQuiet, Unsent, Max2
    <3>3. QuietScene
      BY <1>1, <3>1, <3>2, Times DEF UnsentSinceRead
    <3>4. NoSender
      <4> SUFFICES ASSUME NEW v \in Workers, worker[v].pc \in Sending, now <= worker[v].at + Budget
                   PROVE  FALSE
        BY Times DEF NoSender
      <4>1. worker[v].at >= clerk.at
        BY <1>0, <1>1, <3>1 DEF ClerkKnows
      <4>2. HoldsRow(v) /\ worker[v].pc \in {"claimed"} \cup Sent
        BY <1>1 DEF ClaimsTimed, HoldsRow, Sending, Sent
      <4>3. row.lease = worker[v].at + Lease
        BY <4>2 DEF ClaimsTimed
      <4> QED BY <3>2, <4>1, <4>3, Times
    <3> QED BY <3>3, <3>4 DEF NeverAgain
  <2>5. clerk.final # "APPLIED" => NeverAgain
    BY <2>2, <2>4 DEF NeverAgain
  <2> QED BY <1>0, <2>1, <2>2, <2>3, <2>5, Settles DEF Statuses
<1>2. CASE ~(Pending /\ row.lease = clerk.lease /\ row.lastSend = clerk.lastSend)
  <2>1. row' = row
    BY <1>2 DEF ResolveManually, ResolveManuallyIfQuiet
  <2>2. clerk'.pc = "idle" /\ clerk'.at = 0
    BY <1>0, IdleTypes
  <2>3. SendsRecorded'
    BY <1>0, <2>1, SameSceneFacts DEF SendsRecorded, LastSent, Pending, HolderSentNothing
  <2>4. ClaimsTimed' /\ ProofsHold' /\ ClerkKnows'
    BY <1>0, <1>s, <2>1, <2>2, Times DEF ClaimsTimed, HoldsRow, Pending, ProofsHold, ClerkKnows
  <2>5. RefundsSafe' /\ BookedIsStored'
    BY <1>0, <1>s, <2>1, SameSceneFacts DEF RefundsSafe, HoldsRow, Refunded, Pending, NeverAgain,
                                            NoSender, BookedIsStored
  <2> QED BY <2>3, <2>4, <2>5
<1> QED BY <1>1, <1>2

LEMMA RowSideStep ==
  ASSUME IInv, RowSide
  PROVE  IInv'
<1> USE DEF IInv
<1>0. RowTypeOK'
  BY RowTyping DEF RowInv
<1>i. ASSUME NEW w \in Workers, invoke(w)
      PROVE  IInv'
  <2>1. [by |-> w, rpc |-> rpcFor(w), at |-> now] \in Request
    BY DEF Request, rpcFor, TypeOK, SceneTypeOK
  <2>2. SceneTypeOK'
    BY <1>i, <2>1 DEF invoke, TypeOK, SceneTypeOK, sceneVars
  <2> QED BY <1>0, <1>i, <2>2, InvokeStep DEF TypeOK
<1>n. ASSUME \A w \in Workers : ~invoke(w)
      PROVE  IInv'
  <2>0. SameScene
    BY <1>n, RowSideScene DEF SameScene
  <2>s. SceneTypeOK' /\ SceneInv'
    BY <2>0 DEF SameScene, TypeOK, SceneTypeOK, SceneInv, EpochsBounded, OneHolder, LedgerGrows,
                RequestsLive, ExposureShort, Exposed, ExposedSave, Fenced
  <2>t. TypeOK'
    BY <1>0, <2>s DEF TypeOK
  <2>w. \A w \in Workers : worker[w] \in Worker
    BY DEF TypeOK, RowTypeOK
  <2>1. ASSUME NEW w \in Workers, claimAndProcess(w)
        PROVE  RowInv' /\ BookedIsStored'
    <3>1. /\ \A v \in Workers : v # w => worker'[v] = worker[v]
          /\ worker'[w].pc = "claimed" /\ worker'[w].at = now
          /\ worker'[w].lastSend = row'.lastSend
      BY <2>1 DEF claimAndProcess, WorkerAt, Idle, TypeOK, RowTypeOK
    <3> QED BY <2>0, <2>1, <2>t, <3>1, Claims DEF claimAndProcess
  <2>2. ASSUME NEW w \in Workers, NEW t \in {now - 1, now}, abandonOne(w, t)
        PROVE  RowInv' /\ BookedIsStored'
    <3>1. /\ \A v \in Workers : v # w => worker'[v] = worker[v]
          /\ worker'[w].pc = "judging" /\ worker'[w].at = t
          /\ worker'[w].lastSend = row'.lastSend
      BY <2>2 DEF abandonOne, WorkerAt, Idle, TypeOK, RowTypeOK
    <3>2. t <= now
      BY Times
    <3> QED BY <2>0, <2>2, <2>t, <3>1, <3>2, Claims DEF abandonOne
  <2>3. ASSUME NEW w \in Workers, TransportFails(w)
        PROVE  RowInv' /\ BookedIsStored'
    <3>1. /\ \A v \in Workers : v # w => worker'[v] = worker[v]
          /\ worker[w].pc = "waiting" /\ worker'[w].pc \in {"answered", "failed"}
          /\ worker'[w].at = worker[w].at /\ worker'[w].lastSend = worker[w].lastSend
      BY <2>3, <2>w DEF TransportFails, WorkerAt, TypeOK, RowTypeOK, Worker
    <3> QED BY <2>0, <2>3, <2>t, <3>1, Stays
            DEF TransportFails, Unsendable, Judging, Sending, Sent
  <2>4. ASSUME NEW w \in Workers, tryPersistedLedger(w) \/ verifySQLCommit(w)
        PROVE  RowInv' /\ BookedIsStored'
    <3>1. /\ \A v \in Workers : v # w => worker'[v] = worker[v]
          /\ worker[w].pc \in {"claimed", "answered"} /\ worker'[w].pc = "proved"
          /\ worker'[w].res = st.led /\ st.led \in Outcomes
          /\ worker'[w].at = worker[w].at /\ worker'[w].lastSend = worker[w].lastSend
          /\ UNCHANGED <<row, clerk>>
      BY <2>4, <2>w DEF tryPersistedLedger, verifySQLCommit, WorkerAt, TypeOK, RowTypeOK, Worker
    <3> QED BY <2>0, <2>t, <3>1, Stays DEF Unsendable, Judging, Sending, Sent
  <2>5. ASSUME NEW w \in Workers, NotLocated(w)
        PROVE  RowInv' /\ BookedIsStored'
    BY <2>0, <2>5, <2>t, RescheduleEffect, Quits DEF NotLocated, Unsendable
  <2>6. ASSUME NEW w \in Workers, reschedule(w)
        PROVE  RowInv' /\ BookedIsStored'
    BY <2>0, <2>6, <2>t, RescheduleEffect, Quits DEF reschedule
  <2>7. ASSUME NEW w \in Workers, WorkerStops(w)
        PROVE  RowInv' /\ BookedIsStored'
    BY <2>0, <2>7, <2>t, Quits DEF WorkerStops
  <2>8. ASSUME NEW w \in Workers, releaseAbandonLease(w)
        PROVE  RowInv' /\ BookedIsStored'
    <3>1. worker[w].pc \in Unsendable /\ worker[w].pc # "idle"
      BY <2>8 DEF releaseAbandonLease, Unsendable, Judging
    <3>2. /\ row' \in Row
          /\ ~HoldsRow(w) => row' = row
          /\ HoldsRow(w) => /\ row'.status = row.status /\ row'.token = row.token
                            /\ row'.lease = 0 /\ row'.lastSend = row.lastSend
      BY <2>8, ReleaseEffect DEF releaseAbandonLease
    <3>3. HoldsRow(w) => row'.lastSend >= row.lastSend
      BY <3>2, Times
    <3> QED BY <2>0, <2>8, <2>t, <3>1, <3>2, <3>3, Quits DEF releaseAbandonLease
  <2>9. ASSUME NEW w \in Workers, finalize(w)
        PROVE  RowInv' /\ BookedIsStored'
    <3> DEFINE s == FinalStatus(rpcFor(w), worker[w].res)
    <3>1. worker[w].res \in Outcomes /\ worker[w].res = st.led
      BY <2>9 DEF finalize, RowInv, ProofsHold
    <3>2. CASE Pending
      <4>1. SettledAs(s)
        BY <2>9, <3>2 DEF finalize, Finalize, SettledAs
      <4>2. s \in Statuses \ {"PENDING"} /\ (s = "APPLIED" <=> st.led = "applied")
        BY <3>1, FinalStatusType
      <4>3. s # "APPLIED" => NeverAgain
        BY <3>1, <4>2 DEF NeverAgain, Refused, Outcomes
      <4>4. UNCHANGED clerk /\ \A v \in Workers : worker'[v] \in {worker[v], Idle}
        BY <2>9 DEF finalize, Done, WorkerAt, TypeOK, RowTypeOK
      <4> HIDE DEF s
      <4> QED BY <2>0, <2>t, <4>1, <4>2, <4>3, <4>4, Settles
    <3>3. CASE ~Pending
      BY <2>0, <2>9, <2>t, <3>3, Quits DEF finalize, Finalize
    <3> QED BY <3>2, <3>3
  <2>10. ASSUME NEW w \in Workers, judgeAbandon(w)
         PROVE  RowInv' /\ BookedIsStored'
    BY <2>10, <2>t, JudgeStep
  <2>11. ASSUME NEW w \in Workers, commitAbandon(w)
         PROVE  RowInv' /\ BookedIsStored'
    <3>1. CASE HoldsRow(w)
      <4>1. SettledAs("ABANDONED")
        BY <2>11, <3>1 DEF commitAbandon, Abandon, SettledAs
      <4>2. NeverAgain
        BY <2>11, <3>1 DEF commitAbandon, RowInv, RefundsSafe
      <4>3. UNCHANGED clerk /\ \A v \in Workers : worker'[v] \in {worker[v], Idle}
        BY <2>11 DEF commitAbandon, Done, WorkerAt, TypeOK, RowTypeOK
      <4> QED BY <2>0, <2>t, <4>1, <4>2, <4>3, Settles DEF Statuses
    <3>2. CASE ~HoldsRow(w)
      BY <2>0, <2>11, <2>t, <3>2, Quits DEF commitAbandon, Abandon
    <3> QED BY <3>1, <3>2
  <2>12. ASSUME ReadOp
         PROVE  RowInv' /\ BookedIsStored'
    BY <2>12, <2>t, ReadStep
  <2>13. ASSUME JudgeManual
         PROVE  RowInv' /\ BookedIsStored'
    BY <2>13, <2>t, JudgeManualStep
  <2>14. ASSUME ResolveManually
         PROVE  RowInv' /\ BookedIsStored'
    BY <2>14, <2>t, ResolveStep
  <2>15. RowInv' /\ BookedIsStored'
    BY <1>n, <2>1, <2>2, <2>3, <2>4, <2>5, <2>6, <2>7, <2>8, <2>9, <2>10, <2>11, <2>12, <2>13, <2>14
       DEF RowSide, Reconcile, AbandonJob
  <2> QED BY <2>s, <2>t, <2>15
<1> QED BY <1>i, <1>n

-----------------------------------------------------------------------------
(* Steps of the scene's side.                                              *)

LEMMA SceneSideStep ==
  ASSUME IInv, SceneSide
  PROVE  IInv'
<1> USE DEF IInv, RowInv
<1>t. TypeOK' /\ SceneInv'
  <2>1. SceneTypeOK'
    BY SceneTyping
  <2>2. RowTypeOK'
    BY SceneSideRow DEF TypeOK, RowTypeOK
  <2>3. Holding' /\ RequestsLive' /\ ExposureShort'
    BY <2>1, HoldingStep, ClockStep DEF SceneInv, Holding
  <2> QED BY <2>1, <2>2, <2>3 DEF TypeOK, SceneInv, Holding
<1>h. Holding
  BY DEF SceneInv, Holding
<1>r. UNCHANGED <<row, clerk>>
  BY SceneSideRow
<1>w. \A w \in Workers :
        /\ worker'[w].at = worker[w].at /\ worker'[w].lastSend = worker[w].lastSend
        /\ \/ worker'[w].pc = worker[w].pc /\ worker'[w].res = worker[w].res
           \/ worker[w].pc = "waiting" /\ worker'[w].pc \in {"answered", "failed"}
  BY SceneSideRow
<1>p. \A w \in Workers :
        /\ worker'[w].pc \in Sending => worker[w].pc \in Sending
        /\ worker'[w].pc \in Unsendable <=> worker[w].pc \in Unsendable
        /\ worker'[w].pc \in Judging <=> worker[w].pc \in Judging
        /\ worker'[w].pc \in {"claimed"} \cup Sent <=> worker[w].pc \in {"claimed"} \cup Sent
        /\ worker'[w].pc = "abandoning" <=> worker[w].pc = "abandoning"
  BY <1>w DEF Sending, Unsendable, Judging, Sent
<1>c. now' \in Nat /\ now' >= now
  <2>1. now \in Nat /\ now' \in Nat
    BY <1>t DEF TypeOK, SceneTypeOK
  <2>2. now' = now \/ now' = now + 1
    BY DEF SceneSide, Scene, Execute, Enter, Leave, Reconnect, SubmitSave, SaveSettles, Crash,
           ReleaseDeadHolder, Tick
  <2> QED BY <2>1, <2>2
<1>o. /\ \A b \in Nat : Old(b) => Old(b)'
      /\ QuietScene => QuietScene'
      /\ Refused => Refused'
      /\ st.led # "unseen" => st'.led = st.led
  BY <1>h, OldStep, QuietStep, OutcomeStays DEF Refused
<1>1. SendsRecorded'
  BY <1>r, <1>p, <1>o, Times DEF SendsRecorded, LastSent, Pending, HolderSentNothing
<1>2. ClaimsTimed'
  <2>1. \A w \in Workers : now' <= worker[w].at + Budget => now <= worker[w].at + Budget
    BY <1>c, Times
  <2> QED BY <1>r, <1>w, <1>p, <1>c, <2>1, Times DEF ClaimsTimed, HoldsRow, Pending
<1>3. ProofsHold'
  BY <1>r, <1>w, <1>o DEF ProofsHold, Outcomes
<1>4. NoSender => NoSender'
  BY <1>w, <1>p, <1>c, Times DEF NoSender
<1>5. NeverAgain => NeverAgain'
  BY <1>o, <1>4 DEF NeverAgain
<1>6. ClerkKnows'
  <2>1. UnsentSinceRead' => UnsentSinceRead
    BY <1>r, <1>p, Times DEF UnsentSinceRead, Pending, HolderSentNothing
  <2>2. \A w \in Workers : now' <= worker[w].at + Budget => now <= worker[w].at + Budget
    BY <1>c, Times
  <2>3. (RowQuiet <=> RowQuiet') /\ (Pending <=> Pending')
    BY <1>r DEF RowQuiet, Pending
  <2> QED BY <1>r, <1>w, <1>p, <1>o, <2>1, <2>2, <2>3 DEF ClerkKnows
<1>7. RefundsSafe'
  BY <1>r, <1>p, <1>5 DEF RefundsSafe, HoldsRow, Pending, Refunded
<1>8. BookedIsStored'
  BY <1>r, <1>o DEF BookedIsStored
<1> QED BY <1>t, <1>1, <1>2, <1>3, <1>6, <1>7, <1>8

-----------------------------------------------------------------------------
(* The inductive invariant.                                                *)

LEMMA Start == Init => IInv
<1> SUFFICES ASSUME Init PROVE IInv
  OBVIOUS
<1>1. PICK w \in Workers :
        /\ row = [status |-> "PENDING", lease |-> Created + Lease, token |-> w,
                  lastSend |-> Created]
        /\ worker = [v \in Workers |->
             IF v = w THEN [Idle EXCEPT !.pc = "claimed", !.at = Created, !.lastSend = Created]
             ELSE Idle]
  BY DEF Init
<1>2. PICK home \in SUBSET Nodes :
        /\ \A m \in home, n \in home : m = n
        /\ ent = [n \in Nodes |-> IF n \in home THEN [NoEntity EXCEPT !.on = TRUE, !.epoch = 1]
                                  ELSE NoEntity]
        /\ st = [epoch |-> 1, released |-> home = {}, led |-> "unseen"]
  BY DEF Init
<1>3. now = Created /\ clerk = NoClerk /\ net = {} /\ save = [n \in Nodes |-> NoSave]
  BY DEF Init
<1>a. Created + Lease \in Nat /\ Created \in Nat
  BY DEF Created
<1>4. [Idle EXCEPT !.pc = "claimed", !.at = Created, !.lastSend = Created] \in Worker
  <2>1. "claimed" \in Pcs
    BY DEF Pcs, Unsendable
  <2> QED BY <1>a, <2>1 DEF Worker, Idle
<1>5. [NoEntity EXCEPT !.on = TRUE, !.epoch = 1] \in Entity
  BY RecordTypes DEF Entity
<1>6. row \in Row
  BY <1>1, <1>a DEF Row, Statuses
<1>7. TypeOK
  BY <1>1, <1>2, <1>3, <1>a, <1>4, <1>5, <1>6, IdleTypes, RecordTypes
     DEF TypeOK, RowTypeOK, SceneTypeOK, Stored, Ledger
<1>8. /\ \A n \in Nodes : ent[n].led = "unseen" /\ ent[n].epoch \in {0, 1}
      /\ \A n \in Nodes : ent[n].on => n \in home
      /\ \A n \in Nodes : ~save[n].on /\ save[n].epoch = 0 /\ save[n].led = "unseen"
      /\ st.led = "unseen" /\ st.epoch = 1
  BY <1>2, <1>3 DEF NoEntity, NoSave
<1>9. SceneInv
  BY <1>2, <1>3, <1>8 DEF SceneInv, EpochsBounded, OneHolder, LedgerGrows, RequestsLive,
                          ExposureShort, Exposed, ExposedSave, Fenced
<1>10. \A b \in Nat : Old(b)
  BY <1>3, <1>8 DEF Old
<1>11. /\ row.status = "PENDING" /\ row.lease = Created + Lease /\ row.token = w
       /\ worker[w].pc = "claimed" /\ worker[w].at = Created
       /\ \A v \in Workers : v # w => worker[v].pc = "idle" /\ worker[v].at = 0
       /\ clerk.pc = "idle" /\ clerk.at = 0
  BY <1>1, <1>3, IdleTypes DEF Idle
<1>12. SendsRecorded /\ ProofsHold /\ ClerkKnows /\ BookedIsStored
  BY <1>10, <1>11 DEF SendsRecorded, ProofsHold, ClerkKnows, BookedIsStored
<1>13. ClaimsTimed
  <2>1. "claimed" \notin Judging
    BY DEF Judging
  <2> QED BY <1>3, <1>11, <2>1 DEF ClaimsTimed, HoldsRow, Sent, Judging, Sending, Created
<1>14. RefundsSafe
  BY <1>11 DEF RefundsSafe, Refunded
<1> QED BY <1>7, <1>9, <1>12, <1>13, <1>14 DEF IInv, RowInv

LEMMA Step == IInv /\ [Next]_vars => IInv'
<1> SUFFICES ASSUME IInv, [Next]_vars PROVE IInv'
  OBVIOUS
<1>1. CASE RowSide
  BY <1>1, RowSideStep
<1>2. CASE SceneSide
  BY <1>2, SceneSideStep
<1>3. CASE UNCHANGED vars
  <2>1. UNCHANGED <<now, row, worker, clerk, net, ent, save, st>>
    BY <1>3 DEF vars, rowVars, sceneVars
  <2>2. TypeOK' /\ SceneInv' /\ BookedIsStored'
    BY <2>1 DEF IInv, TypeOK, RowTypeOK, SceneTypeOK, SceneInv, EpochsBounded, OneHolder,
                LedgerGrows, RequestsLive, ExposureShort, Exposed, ExposedSave, Fenced,
                BookedIsStored
  <2>3. SameScene
    BY <2>1 DEF SameScene
  <2>4. SendsRecorded' /\ ClaimsTimed' /\ ProofsHold'
    BY <2>1, <2>3, SameSceneFacts
       DEF IInv, RowInv, SendsRecorded, LastSent, Pending, HolderSentNothing, ClaimsTimed, HoldsRow,
           ProofsHold
  <2>5. ClerkKnows' /\ RefundsSafe'
    BY <2>1, <2>3, SameSceneFacts
       DEF IInv, RowInv, ClerkKnows, UnsentSinceRead, RowQuiet, Pending, HolderSentNothing,
           RefundsSafe, HoldsRow, Refunded, NeverAgain, NoSender
  <2> QED BY <2>2, <2>4, <2>5 DEF IInv, RowInv
<1> QED BY <1>1, <1>2, <1>3 DEF Next, RowSide, SceneSide

\* The conjunction above holds in every reachable state: types, one holder of
\* the player's row, sends that the row's lease or last_send covers, and what
\* the workers and the repair tool concluded from what they read.
THEOREM Invariance == Spec => []IInv
BY Start, Step, PTL DEF Spec

-----------------------------------------------------------------------------
LEMMA RefundedUnapplied == IInv => RefundedNeverApplied
BY DEF IInv, RowInv, RefundsSafe, NeverAgain, QuietScene, Refused, RefundedNeverApplied

\* Whoever claims, delivers, abandons or repairs the row in whatever order: a
\* service that took its part back never sees the player's side carried out.
THEOREM RefundSafe == Spec => []RefundedNeverApplied
BY Invariance, RefundedUnapplied, PTL

\* A row finalized as applied is backed by the stored ledger of the player.
THEOREM BookedStored == Spec => []BookedIsStored
<1>1. IInv => BookedIsStored
  BY DEF IInv
<1> QED BY <1>1, Invariance, PTL

LEMMA OutcomeStep ==
  ASSUME IInv, [Next]_vars, st.led # "unseen"
  PROVE  st'.led = st.led
<1>h. Holding
  BY DEF IInv, SceneInv, Holding
<1>1. CASE RowSide
  BY <1>1, RowSideScene
<1>2. CASE SceneSide
  BY <1>2, <1>h, OutcomeStays DEF IInv
<1>3. CASE UNCHANGED vars
  BY <1>3 DEF vars, sceneVars
<1> QED BY <1>1, <1>2, <1>3 DEF Next, RowSide, SceneSide

\* A stored outcome never changes: a deposed node's saves are refused.
THEOREM OutcomesFixed == Spec => OutcomeFixed
<1>1. IInv /\ [Next]_vars => [st.led # "unseen" => st'.led = st.led]_vars
  BY OutcomeStep
<1> QED BY <1>1, Invariance, PTL DEF Spec, OutcomeFixed

-----------------------------------------------------------------------------
(* The refinement.                                                         *)

LEMMA RowStays ==
  ASSUME RowSide, ~Pending
  PROVE  row' = row
BY DEF RowSide, Reconcile, AbandonJob, claimAndProcess, ClaimRow, invoke, TransportFails,
       NotLocated, Reschedule, HoldsRow, tryPersistedLedger, verifySQLCommit, finalize, Finalize,
       reschedule, WorkerStops, abandonOne, judgeAbandon, commitAbandon, Abandon,
       releaseAbandonLease, ReleaseLease, ReadOp, JudgeManual, ResolveManually,
       ResolveManuallyIfQuiet

LEMMA TransferStep ==
  ASSUME IInv, [Next]_vars
  PROVE  [Transfer!Next]_(Transfer!vars)
<1> USE DEF Transfer!Next, Transfer!Settle, Transfer!Book, Transfer!vars
<1>i. IInv'
  BY Step
<1>v. /\ row'.status \in Statuses /\ row.status \in Statuses
      /\ RefundedNeverApplied' /\ BookedIsStored'
  <2>1. RefundedNeverApplied'
    BY <1>i DEF IInv, RowInv, RefundsSafe, NeverAgain, QuietScene, Refused, RefundedNeverApplied
  <2> QED BY <1>i, <2>1 DEF IInv, TypeOK, RowTypeOK, Row
<1>1. CASE RowSide
  <2>1. UNCHANGED st
    BY <1>1, RowSideScene
  <2>2. ~Pending => row' = row
    BY <1>1, RowStays
  <2> QED BY <1>v, <2>1, <2>2 DEF Pending, Statuses, RefundedNeverApplied, Refunded, BookedIsStored
<1>2. CASE SceneSide
  <2>1. UNCHANGED row
    BY <1>2, SceneSideRow DEF IInv
  <2>2. st.led # "unseen" => st'.led = st.led
    BY OutcomeStep
  <2> QED BY <1>v, <2>1, <2>2 DEF Pending, Statuses, RefundedNeverApplied, Refunded, BookedIsStored
<1>3. CASE UNCHANGED vars
  BY <1>3 DEF vars, rowVars, sceneVars, Pending
<1> QED BY <1>1, <1>2, <1>3 DEF Next, RowSide, SceneSide

\* The channel implements one transfer: whatever leases expire, requests are
\* repeated or lost, nodes crash and operators repair, each side is settled
\* once and the two sides agree.
THEOREM TransferImplemented == Spec => ImplementsTransfer
<1>1. Init => Transfer!Init
  BY DEF Init, Transfer!Init, Pending
<1>2. IInv /\ [Next]_vars => [Transfer!Next]_(Transfer!vars)
  BY TransferStep
<1> QED BY <1>1, <1>2, Invariance, PTL DEF Spec, ImplementsTransfer, Transfer!Spec
=============================================================================
