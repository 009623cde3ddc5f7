----------------------- MODULE PlayerSession_refinement -----------------------
(***************************************************************************)
(* Session records only move forward; player_locator with its leases,      *)
(* claims and retries implements SessionLifecycle; and the location of the *)
(* player in scene_manager follows the session: that of a session that is  *)
(* gone is still to be removed, that of the live one is never removed.     *)
(***************************************************************************)
EXTENDS PlayerSession_proofs

Replacing == {"SetSession", "Reconnect"}

\* What a handler about to commit has checked against the record it read.
CallForward(x) ==
  /\ x.op \in Replacing => x.upd.gen > 0
  /\ x.op \in Replacing /\ x.pc = "cas" /\ x.exp # NoSession =>
       \/ x.upd = x.exp
       \/ x.upd.ver > x.exp.ver /\ x.upd.gen > x.exp.gen
  /\ x.op = "SetDisconnecting" =>
       /\ x.exp \in Session /\ x.exp.state = "ONLINE"
       /\ x.upd.ver > x.exp.ver /\ x.upd.gen = x.exp.gen

\* Generations of records are positive, so that the rule for requests without
\* a generation (0 always advances) never applies.
ForwardInv ==
  /\ \A r \in Calls : rpc[r] # Idle => CallForward(rpc[r])
  /\ \A p \in Players : session[p] # NoSession => session[p].gen > 0

RInv == IInv /\ ForwardInv

-----------------------------------------------------------------------------
(* Commits.                                                                *)

\* The three scripts, with the record they compare.
Commits(r) ==
  LET x == rpc[r] IN
  /\ x # Idle /\ x.pc = "cas" /\ session[x.p] = x.exp
  /\ \/ /\ x.op \in Replacing
        /\ x.exp = NoSession => ~CleanupPending(x.p)
        /\ Script(x.p, x.upd, "none")
     \/ x.op = "SetDisconnecting" /\ Script(x.p, x.upd, "waiting")
     \/ x.op = "MarkOffline" /\ Script(x.p, NoSession, "none")

LEMMA CallCommits ==
  ASSUME TypeOK, NEW r \in Calls, CallNext(r)
  PROVE  \/ Commits(r)
         \/ MarkOfflineEnqueue(r)
         \/ UNCHANGED <<sessionVars, leaseVars>>
<1>1. CASE ReplaceCas(r)
  BY <1>1 DEF ReplaceCas, ReplaceApplies, replaceSessionAndCancelLease, Commits, Replacing, Script,
     envVars
<1>2. CASE SetDisconnectingCas(r)
  BY <1>2 DEF SetDisconnectingCas, setDisconnecting, Commits, Script, envVars
<1>3. CASE MarkOfflineCas(r)
  BY <1>3 DEF MarkOfflineCas, deleteSessionIfUnchanged, Commits, Script, envVars
<1> QED
  BY <1>1, <1>2, <1>3 DEF CallNext, EnterGame, SetSessionGet, ReconnectGet, Replay, EnterScene,
     SetDisconnectingGet, MarkOfflineGet, MarkOfflineLeave, Abort, GiveUp

\* What a commit does to the record of its player; the others are untouched.
LEMMA CommitsRecord ==
  ASSUME TypeOK, CallInv, ForwardInv, NEW r \in Calls, Commits(r)
  PROVE  LET p == rpc[r].p
             old == session[p]
             new == session'[p]
         IN /\ p \in Players
            /\ session' = [session EXCEPT ![p] = new]
            /\ \/ /\ new \in Session /\ new.state = "ONLINE" /\ new.gen > 0
                  /\ old = NoSession => ~CleanupPending(p)
                  /\ old # NoSession => \/ new = old
                                        \/ new.ver > old.ver /\ new.gen > old.gen
               \/ /\ old \in Session /\ old.state = "ONLINE"
                  /\ new \in Session /\ new.state = "DISCONNECTING"
                  /\ new.ver > old.ver /\ new.gen = old.gen
               \/ old \in Session /\ new = NoSession
<1>1. /\ rpc[r] # Idle /\ rpc[r] \in Call /\ rpc[r].p \in Players
      /\ CallGood(rpc[r]) /\ CallForward(rpc[r])
  BY DEF Commits, TypeOK, Call, CallInv, ForwardInv
<1>2. \A s : WriteSession(rpc[r].p, s) => /\ session' = [session EXCEPT ![rpc[r].p] = s]
                                          /\ session'[rpc[r].p] = s
  BY <1>1 DEF WriteSession, TypeOK
<1> QED
  BY <1>1, <1>2 DEF Commits, Script, CallGood, CallForward, Replacing

-----------------------------------------------------------------------------
(* Handlers only build updates that move forward.                          *)

\* Records change by commits and by the expiry, which deletes.
LEMMA RecordWriters ==
  ASSUME TypeOK, [Next]_vars
  PROVE  \/ \E r \in Calls : CallNext(r) /\ Commits(r)
         \/ \E w \in Workers : CommitExpiry(w)
         \/ UNCHANGED session
<1>1. ASSUME NEW r \in Calls, CallNext(r) PROVE Commits(r) \/ UNCHANGED session
  BY <1>1, CallCommits DEF MarkOfflineEnqueue, sessionVars
<1>2. ASSUME NEW w \in Workers, WorkerNext(w) PROVE CommitExpiry(w) \/ UNCHANGED session
  BY <1>2 DEF WorkerNext, RoundStep, ClaimExpired, PinPayload, ProbeAny, Probe, RearmClaim,
     SendLeaseExpired, NotifyLeave, NotifyLeaveFails, AckClaim, RenewClaim, WorkerCrash, sessionVars
<1>3. CASE UNCHANGED vars
  BY <1>3 DEF vars, sessionVars
<1> QED
  BY <1>1, <1>2, <1>3 DEF Next, ReadyElapses, ClaimElapses, RecoverClaim, HolderRelease, CloseConn, GateLost,
     sessionVars

\* A handler moved to another step, or replaced, and no other.
LEMMA OneCallMoves ==
  ASSUME TypeOK, ForwardInv, NEW r \in Calls, NEW x,
         rpc' = [rpc EXCEPT ![r] = x], x # Idle => CallForward(x)
  PROVE  \A q \in Calls : rpc'[q] # Idle => CallForward(rpc'[q])
BY DEF TypeOK, ForwardInv

LEMMA CallsForward ==
  ASSUME TypeOK, CallInv, ForwardInv, NEW r \in Calls, CallNext(r)
  PROVE  \A q \in Calls : rpc'[q] # Idle => CallForward(rpc'[q])
<1>1. ASSUME NEW p \in Players, NEW c \in Conns, EnterGame(r, p, c)
      PROVE  \A q \in Calls : rpc'[q] # Idle => CallForward(rpc'[q])
  <2> DEFINE floor == IF session[p] = NoSession THEN 0 ELSE session[p].gen
             g == MintLoginGeneration(p, floor)
             s == NewOnlineSession(session[p], c, g)
  <2>1. minted[p] \in Nat /\ floor \in Nat
    BY DEF TypeOK, Session
  <2>2. g \in Nat /\ g > 0
    BY <2>1 DEF MintLoginGeneration
  <2>3. s.gen > 0
    BY <2>2 DEF NewOnlineSession
  <2>4. PICK op \in Replacing :
          rpc' = [rpc EXCEPT ![r] = [op |-> op, pc |-> "get", p |-> p, exp |-> NoSession,
                                     upd |-> s]]
    BY <1>1 DEF EnterGame, Replacing
  <2> HIDE DEF s
  <2>5. CallForward([op |-> op, pc |-> "get", p |-> p, exp |-> NoSession, upd |-> s])
    BY <2>3 DEF CallForward, Replacing
  <2> QED
    BY <2>4, <2>5, OneCallMoves
<1>2. ASSUME rpc[r] # Idle
      PROVE  rpc[r] \in Call /\ CallGood(rpc[r]) /\ CallForward(rpc[r]) /\ rpc[r].p \in Players
  BY <1>2 DEF TypeOK, Call, CallInv, ForwardInv
<1>3. CASE SetSessionGet(r)
  <2> DEFINE cur == session[rpc[r].p]
             s == rpc[r].upd
             x == [rpc[r] EXCEPT !.pc = "cas", !.exp = cur]
  <2>1. /\ rpc[r] # Idle /\ rpc[r].op = "SetSession"
        /\ rpc' = [rpc EXCEPT ![r] = Idle] \/ rpc' = [rpc EXCEPT ![r] = x]
        /\ rpc' # [rpc EXCEPT ![r] = Idle] =>
             \/ cur = NoSession \/ s = cur
             \/ s.ver = cur.ver + 1 /\ loginGenerationAdvances(cur.gen, s.gen)
    BY <1>3 DEF SetSessionGet
  <2>2. x.op = rpc[r].op /\ x.upd = s /\ x.exp = cur
    BY <1>2, <2>1 DEF Call
  <2>3. s \in Session /\ s.gen > 0
    BY <1>2, <2>1 DEF CallGood, CallForward, Replacing
  <2>4. cur # NoSession => cur \in Session /\ cur.gen > 0
    BY <1>2, <2>1 DEF TypeOK, ForwardInv
  <2>5. rpc' # [rpc EXCEPT ![r] = Idle] => CallForward(x)
    BY <2>1, <2>2, <2>3, <2>4 DEF CallForward, Replacing, loginGenerationAdvances, Session
  <2>6. CASE rpc' = [rpc EXCEPT ![r] = Idle]
    BY <2>6, OneCallMoves
  <2>7. CASE rpc' # [rpc EXCEPT ![r] = Idle]
    BY <2>1, <2>5, <2>7, OneCallMoves
  <2> QED
    BY <2>6, <2>7
<1>4. CASE ReconnectGet(r)
  <2> DEFINE cur == session[rpc[r].p]
             s == rpc[r].upd
             x == [rpc[r] EXCEPT !.pc = "cas", !.exp = cur, !.upd.ver = cur.ver + 1]
             y == [rpc[r] EXCEPT !.pc = "enter"]
  <2>1. /\ rpc[r] # Idle /\ rpc[r].op = "Reconnect"
        /\ \/ rpc' = [rpc EXCEPT ![r] = Idle]
           \/ rpc' = [rpc EXCEPT ![r] = y]
           \/ /\ rpc' = [rpc EXCEPT ![r] = x]
              /\ cur # NoSession /\ loginGenerationAdvances(cur.gen, s.gen)
    BY <1>4 DEF ReconnectGet
  <2>2. s \in Session /\ s.gen > 0
    BY <1>2, <2>1 DEF CallGood, CallForward, Replacing
  <2>3. cur # NoSession => cur \in Session /\ cur.gen > 0
    BY <1>2, <2>1 DEF TypeOK, ForwardInv
  <2>4. y.op = rpc[r].op /\ y.upd = s /\ y.pc = "enter"
    BY <1>2, <2>1 DEF Call
  <2>5. CASE rpc' = [rpc EXCEPT ![r] = Idle]
    BY <2>5, OneCallMoves
  <2>6. CASE rpc' = [rpc EXCEPT ![r] = y]
    <3>1. CallForward(y)
      BY <2>1, <2>2, <2>4 DEF CallForward, Replacing
    <3> QED
      BY <2>6, <3>1, OneCallMoves
  <2>7. CASE /\ rpc' = [rpc EXCEPT ![r] = x]
             /\ cur # NoSession /\ loginGenerationAdvances(cur.gen, s.gen)
    <3>1. x.op = rpc[r].op /\ x.exp = cur /\ x.upd = [s EXCEPT !.ver = cur.ver + 1]
      BY <1>2, <2>1 DEF Call
    <3>2. x.upd.gen = s.gen /\ x.upd.ver = cur.ver + 1
      BY <2>2, <3>1 DEF Session
    <3>3. CallForward(x)
      BY <2>1, <2>2, <2>3, <2>7, <3>1, <3>2
      DEF CallForward, Replacing, loginGenerationAdvances, Session
    <3> QED
      BY <2>7, <3>3, OneCallMoves
  <2> QED
    BY <2>1, <2>5, <2>6, <2>7
<1>5. ASSUME NEW p \in Players, NEW c \in Conns, SetDisconnectingGet(r, p, c)
      PROVE  \A q \in Calls : rpc'[q] # Idle => CallForward(rpc'[q])
  <2> DEFINE u == [session[p] EXCEPT !.state = "DISCONNECTING", !.ver = @ + 1]
  <2>1. session[p] \in Session /\ session[p].state = "ONLINE"
    BY <1>5 DEF SetDisconnectingGet, ReportMatches, TypeOK
  <2>2. u.ver = session[p].ver + 1 /\ u.gen = session[p].gen /\ session[p].ver \in Nat
    BY <2>1 DEF Session
  <2>3. rpc' = [rpc EXCEPT ![r] = [op |-> "SetDisconnecting", pc |-> "cas", p |-> p,
                                   exp |-> session[p], upd |-> u]]
    BY <1>5 DEF SetDisconnectingGet
  <2> HIDE DEF u
  <2>4. CallForward([op |-> "SetDisconnecting", pc |-> "cas", p |-> p,
                     exp |-> session[p], upd |-> u])
    BY <2>1, <2>2 DEF CallForward, Replacing
  <2> QED
    BY <2>3, <2>4, OneCallMoves
<1>6. ASSUME NEW p \in Players, NEW c \in Conns, MarkOfflineGet(r, p, c)
      PROVE  \A q \in Calls : rpc'[q] # Idle => CallForward(rpc'[q])
  <2>1. CallForward([op |-> "MarkOffline", pc |-> "cas", p |-> p, exp |-> session[p],
                     upd |-> NoSession])
    BY DEF CallForward, Replacing
  <2> QED
    BY <1>6, <2>1, OneCallMoves DEF MarkOfflineGet
<1>7. CASE ReplaceCas(r) \/ Replay(r) \/ MarkOfflineCas(r) \/ MarkOfflineLeave(r)
  <2>1. rpc[r] # Idle
    BY <1>7 DEF ReplaceCas, Replay, MarkOfflineCas, MarkOfflineLeave
  <2>2. PICK t \in {"get", "enter", "leave", "enqueue"} :
          rpc' = [rpc EXCEPT ![r] = Idle] \/ rpc' = [rpc EXCEPT ![r] = [rpc[r] EXCEPT !.pc = t]]
    BY <1>7 DEF ReplaceCas, Replay, MarkOfflineCas, MarkOfflineLeave, Goto, Return
  <2>3. CallForward([rpc[r] EXCEPT !.pc = t])
    <3> DEFINE y == [rpc[r] EXCEPT !.pc = t]
    <3>1. y.op = rpc[r].op /\ y.pc = t /\ y.upd = rpc[r].upd /\ y.exp = rpc[r].exp
      BY <1>2, <2>1 DEF Call
    <3>2. CallForward(rpc[r])
      BY <1>2, <2>1
    <3> HIDE DEF y
    <3>3. CallForward(y)
      BY <3>1, <3>2 DEF CallForward
    <3> QED
      BY <3>3 DEF y
  <2>4. CASE rpc' = [rpc EXCEPT ![r] = Idle]
    BY <2>4, OneCallMoves
  <2>5. CASE rpc' = [rpc EXCEPT ![r] = [rpc[r] EXCEPT !.pc = t]]
    BY <2>3, <2>5, OneCallMoves
  <2> QED
    BY <2>2, <2>4, <2>5
<1>8. CASE EnterScene(r) \/ SetDisconnectingCas(r) \/ MarkOfflineEnqueue(r) \/ Abort(r) \/ GiveUp(r)
  <2>1. rpc' = [rpc EXCEPT ![r] = Idle]
    BY <1>8 DEF EnterScene, SetDisconnectingCas, MarkOfflineEnqueue, Abort, GiveUp, Return
  <2> QED
    BY <2>1, OneCallMoves
<1> QED
  BY <1>1, <1>3, <1>4, <1>5, <1>6, <1>7, <1>8 DEF CallNext

LEMMA ForwardStep ==
  ASSUME IInv, ForwardInv, [Next]_vars
  PROVE  ForwardInv'
<1> USE DEF IInv
<1>1. \A q \in Calls : rpc'[q] # Idle => CallForward(rpc'[q])
  <2>1. ASSUME NEW r \in Calls, CallNext(r)
        PROVE  \A q \in Calls : rpc'[q] # Idle => CallForward(rpc'[q])
    BY <2>1, CallsForward
  <2>2. CASE rpc' = rpc
    BY <2>2 DEF ForwardInv
  <2>3. ASSUME NEW w \in Workers, WorkerNext(w) PROVE rpc' = rpc
    BY <2>3 DEF WorkerNext, RoundStep, ClaimExpired, PinPayload, ProbeAny, Probe, RearmClaim,
       CommitExpiry, SendLeaseExpired, NotifyLeave, NotifyLeaveFails, AckClaim, RenewClaim,
       WorkerCrash
  <2>4. CASE UNCHANGED vars
    BY <2>2, <2>4 DEF vars
  <2> QED
    BY <2>1, <2>2, <2>3, <2>4 DEF Next, ReadyElapses, ClaimElapses, RecoverClaim, HolderRelease,
       CloseConn, GateLost
<1>2. \A p \in Players : session'[p] # NoSession => session'[p].gen > 0
  <2>1. ASSUME NEW r \in Calls, Commits(r)
        PROVE  \A p \in Players : session'[p] # NoSession => session'[p].gen > 0
    <3>1. /\ rpc[r].p \in Players
          /\ session' = [session EXCEPT ![rpc[r].p] = session'[rpc[r].p]]
          /\ session'[rpc[r].p] # NoSession => session'[rpc[r].p].gen > 0
      BY <2>1, CommitsRecord, NullAssumption DEF ForwardInv
    <3> QED
      BY <3>1 DEF ForwardInv, TypeOK
  <2>2. ASSUME NEW w \in Workers, CommitExpiry(w)
        PROVE  \A p \in Players : session'[p] # NoSession => session'[p].gen > 0
    BY <2>2, CommitEffect DEF ForwardInv, TypeOK
  <2> QED
    BY <2>1, <2>2, RecordWriters DEF ForwardInv
<1> QED
  BY <1>1, <1>2 DEF ForwardInv

\* The inductive invariant of this module: records and updates in flight
\* only lead forward.
THEOREM Forward == Spec => []RInv
<1>1. Init => RInv
  BY InitIInv DEF RInv, ForwardInv, Init
<1>2. RInv /\ [Next]_vars => RInv'
  BY StepIInv, ForwardStep DEF RInv
<1> QED
  BY <1>1, <1>2, PTL DEF Spec

-----------------------------------------------------------------------------
(* Records move forward.                                                   *)

MovesForward ==
  \A p \in Players :
    session[p] # NoSession /\ session'[p] # NoSession /\ session'[p] # session[p]
      => /\ session'[p].ver > session[p].ver
         /\ session'[p].gen >= session[p].gen
         /\ IsOnline(p)' => session'[p].gen > session[p].gen

LEMMA RecordStep ==
  ASSUME RInv, [Next]_vars
  PROVE  MovesForward
<1> USE DEF RInv, IInv
<1>1. ASSUME NEW r \in Calls, Commits(r) PROVE MovesForward
  <2> DEFINE p == rpc[r].p
             old == session[p]
             new == session'[p]
  <2>1. /\ p \in Players
        /\ session' = [session EXCEPT ![p] = new]
        /\ new # NoSession => new \in Session
        /\ old # NoSession => old \in Session
        /\ old # NoSession /\ new # NoSession /\ new # old =>
             /\ new.ver > old.ver
             /\ \/ new.gen > old.gen
                \/ new.gen = old.gen /\ new.state = "DISCONNECTING"
    BY <1>1, CommitsRecord DEF TypeOK
  <2>2. \A q \in Players : q # p => session'[q] = session[q]
    BY <2>1 DEF TypeOK
  <2>3. old # NoSession /\ new # NoSession /\ new # old =>
          new.ver > old.ver /\ new.gen >= old.gen /\ (new.state = "ONLINE" => new.gen > old.gen)
    BY <2>1 DEF Session
  <2> HIDE DEF p
  <2> QED
    BY <2>1, <2>2, <2>3 DEF MovesForward, IsOnline
<1>2. ASSUME NEW w \in Workers, CommitExpiry(w) PROVE MovesForward
  BY <1>2, CommitEffect DEF MovesForward, TypeOK
<1>3. CASE UNCHANGED session
  BY <1>3 DEF MovesForward
<1> QED
  BY <1>1, <1>2, <1>3, RecordWriters

\* For any number of players, handlers and workers, and also when the player
\* lock lapses and requests are repeated: of two handlers that read the same
\* record one commits, and no login replaces a newer one.
THEOREM RecordsForward == Spec => RecordMovesForward
<1>1. RInv /\ [Next]_vars => [MovesForward]_vars
  BY RecordStep
<1> QED
  BY <1>1, Forward, PTL DEF Spec, RecordMovesForward, MovesForward

-----------------------------------------------------------------------------
(* The refinement.                                                         *)

Phases == [p \in Players |-> phaseOf(p)]
Gens == [p \in Players |-> IF session[p] = NoSession THEN 0 ELSE session[p].gen]

\* Only the record or the lease of player p changes.
OnlyPlayer(p) ==
  \A q \in Players : q # p => /\ session'[q] = session[q]
                              /\ CleanupPending(q)' = CleanupPending(q)

LEMMA OthersStay ==
  ASSUME TypeOK, NEW p \in Players, OnlyPlayer(p)
  PROVE  /\ Phases' = [Phases EXCEPT ![p] = phaseOf(p)']
         /\ Gens' = [Gens EXCEPT ![p] = Gens'[p]]
         /\ Phases[p] = phaseOf(p)
<1>1. \A q \in Players : q # p => phaseOf(q)' = phaseOf(q) /\ Gens'[q] = Gens[q]
  BY DEF OnlyPlayer, phaseOf, IsOnline, IsDisconnecting, Gens
<1> QED
  BY <1>1 DEF Phases, Gens

LifecycleStep == [Lifecycle!Next]_(Lifecycle!vars)

\* One player moving from a phase to another, in terms of the life cycle.
LEMMA PhaseMoves ==
  ASSUME TypeOK, NEW p \in Players, OnlyPlayer(p),
         LET from == phaseOf(p)
             to == phaseOf(p)'
             g == Gens[p]
             h == Gens'[p]
         IN \/ from = to /\ g = h
            \/ from # "cleaning" /\ to = "online" /\ h > g
            \/ from = "online" /\ to = "away" /\ h = g
            \/ from \in {"online", "away"} /\ to = "absent" /\ h = 0
            \/ from = "away" /\ to = "cleaning" /\ h = 0
            \/ from = "absent" /\ to = "cleaning" /\ h = 0
            \/ from = "cleaning" /\ to = "absent" /\ h = 0
  PROVE  LifecycleStep
<1>1. /\ Phases' = [Phases EXCEPT ![p] = phaseOf(p)']
      /\ Gens' = [Gens EXCEPT ![p] = Gens'[p]]
      /\ Phases[p] = phaseOf(p)
  BY OthersStay
<1>2. Phases \in [Players -> {"absent", "online", "away", "cleaning"}] /\ DOMAIN Gens = Players
  BY DEF Phases, phaseOf, Gens
<1>3. CASE phaseOf(p) = phaseOf(p)' /\ Gens[p] = Gens'[p]
  <2>1. Phases' = Phases /\ Gens' = Gens
    BY <1>1, <1>2, <1>3 DEF Phases, Gens
  <2> QED
    BY <2>1 DEF LifecycleStep, Lifecycle!vars, Phases, Gens
<1>4. CASE phaseOf(p) # "cleaning" /\ phaseOf(p)' = "online" /\ Gens'[p] > Gens[p]
  <2>1. Lifecycle!Login(p)
    BY <1>1, <1>4 DEF Lifecycle!Login, Lifecycle!Move, Phases, Gens
  <2> QED
    BY <2>1 DEF LifecycleStep, Lifecycle!Next
<1>5. CASE phaseOf(p) = "online" /\ phaseOf(p)' = "away" /\ Gens'[p] = Gens[p]
  <2>1. Lifecycle!Lose(p)
    BY <1>1, <1>5 DEF Lifecycle!Lose, Lifecycle!Move, Phases, Gens
  <2> QED
    BY <2>1 DEF LifecycleStep, Lifecycle!Next
<1>6. CASE phaseOf(p) \in {"online", "away"} /\ phaseOf(p)' = "absent" /\ Gens'[p] = 0
  <2>1. Lifecycle!LogOut(p)
    BY <1>1, <1>6 DEF Lifecycle!LogOut, Lifecycle!Move, Phases, Gens
  <2> QED
    BY <2>1 DEF LifecycleStep, Lifecycle!Next
<1>7. CASE phaseOf(p) = "away" /\ phaseOf(p)' = "cleaning" /\ Gens'[p] = 0
  <2>1. Lifecycle!Expire(p)
    BY <1>1, <1>7 DEF Lifecycle!Expire, Lifecycle!Move, Phases, Gens
  <2> QED
    BY <2>1 DEF LifecycleStep, Lifecycle!Next
<1>8. CASE phaseOf(p) = "absent" /\ phaseOf(p)' = "cleaning" /\ Gens'[p] = 0
  <2>1. Lifecycle!QueueCleanup(p)
    BY <1>1, <1>8 DEF Lifecycle!QueueCleanup, Lifecycle!Move, Phases, Gens
  <2> QED
    BY <2>1 DEF LifecycleStep, Lifecycle!Next
<1>9. CASE phaseOf(p) = "cleaning" /\ phaseOf(p)' = "absent" /\ Gens'[p] = 0
  <2>1. Lifecycle!CleanupDone(p)
    BY <1>1, <1>9 DEF Lifecycle!CleanupDone, Lifecycle!Move, Phases, Gens
  <2> QED
    BY <2>1 DEF LifecycleStep, Lifecycle!Next
<1> QED
  BY <1>3, <1>4, <1>5, <1>6, <1>7, <1>8, <1>9

\* A step that leaves the records alone begins or ends a cleanup at most.
LEMMA LeaseMoves ==
  ASSUME TypeOK, NEW p \in Players, OnlyPlayer(p), session' = session
  PROVE  LifecycleStep
<1>1. Gens'[p] = Gens[p] /\ (session[p] = NoSession => Gens[p] = 0)
  BY DEF Gens
<1>2. session[p] # NoSession => phaseOf(p)' = phaseOf(p)
  BY DEF phaseOf, IsOnline, IsDisconnecting, TypeOK, Session
<1>3. session[p] = NoSession =>
        phaseOf(p) \in {"absent", "cleaning"} /\ phaseOf(p)' \in {"absent", "cleaning"}
  BY DEF phaseOf, IsOnline, IsDisconnecting
<1> QED
  BY <1>1, <1>2, <1>3, PhaseMoves

\* The three scripts.
LEMMA CommitMoves ==
  ASSUME RInv, NEW r \in Calls, Commits(r)
  PROVE  LifecycleStep
<1> USE DEF RInv, IInv
<1>p. rpc[r].p \in Players
  BY CommitsRecord
<1>0. PICK p \in Players : p = rpc[r].p
  BY <1>p
<1> DEFINE old == session[p]
           new == session'[p]
<1>1. /\ p \in Players
      /\ session' = [session EXCEPT ![p] = new]
      /\ \/ /\ new \in Session /\ new.state = "ONLINE" /\ new.gen > 0
            /\ old = NoSession => ~CleanupPending(p)
            /\ old # NoSession => new = old \/ (new.ver > old.ver /\ new.gen > old.gen)
         \/ /\ old \in Session /\ old.state = "ONLINE"
            /\ new \in Session /\ new.state = "DISCONNECTING"
            /\ new.ver > old.ver /\ new.gen = old.gen
         \/ old \in Session /\ new = NoSession
  BY <1>0, CommitsRecord
<1>2. \E q \in {"none", "waiting"} : SetLease(p, q)
  BY <1>0 DEF Commits, Script
<1>3. OnlyPlayer(p) /\ ~CleanupPending(p)'
  BY <1>1, <1>2 DEF OnlyPlayer, SetLease, CleanupPending, TypeOK
<1>4. /\ Gens[p] = IF old = NoSession THEN 0 ELSE old.gen
      /\ Gens'[p] = IF new = NoSession THEN 0 ELSE new.gen
  BY <1>1 DEF Gens
<1>5. /\ phaseOf(p) = IF old = NoSession
                      THEN IF CleanupPending(p) THEN "cleaning" ELSE "absent"
                      ELSE IF old.state = "ONLINE" THEN "online" ELSE "away"
      /\ phaseOf(p)' = IF new = NoSession THEN "absent"
                       ELSE IF new.state = "ONLINE" THEN "online" ELSE "away"
  <2>1. old \in Session \cup {NoSession} /\ new \in Session \cup {NoSession}
    BY <1>1 DEF TypeOK
  <2> QED
    BY <1>3, <2>1 DEF phaseOf, IsOnline, IsDisconnecting, Session
<1>6. NoSession \notin Session
  BY NullAssumption
<1> QED
  BY <1>1, <1>3, <1>4, <1>5, <1>6, PhaseMoves

\* The expiry of a lease.
LEMMA ExpiryMoves ==
  ASSUME RInv, NEW w \in Workers, CommitExpiry(w)
  PROVE  LifecycleStep
<1> USE DEF RInv, IInv
<1>1. claim[w] # Idle /\ claim[w].p \in Players
  BY DEF CommitExpiry, TypeOK, Claim
<1>2. CASE session' = session
  <2>0. PICK p \in Players : p = claim[w].p
    BY <1>1
  <2>1. OnlyPlayer(p)
    BY <1>2, <2>0 DEF CommitExpiry, OnlyPlayer, ClaimGone, CleanupPending, TypeOK, leaseVars
  <2> QED
    BY <1>1, <1>2, <2>1, LeaseMoves
<1>3. CASE session' # session
  <2>0. PICK p \in Players : p = claim[w].p
    BY <1>1
  <2>1. session' = [session EXCEPT ![p] = NoSession] /\ UNCHANGED leaseVars /\ Owns(w)
    BY <1>3, <2>0 DEF CommitExpiry
  <2>2. OnlyPlayer(p) /\ (CleanupPending(p)' = CleanupPending(p)) /\ session'[p] = NoSession
    BY <1>1, <2>1 DEF OnlyPlayer, CleanupPending, TypeOK, leaseVars
  <2>3. processing[p] # "none" /\ ~IsOnline(p)
    BY <1>1, <2>0, <2>1, OwnerFacts DEF LeaseInv
  <2>4. session[p] \in Session /\ session[p].state # "ONLINE"
    BY <1>1, <1>3, <2>1, <2>3 DEF TypeOK, IsOnline
  <2>5. phaseOf(p) = "away" /\ phaseOf(p)' = "cleaning" /\ Gens'[p] = 0
    BY <1>1, <2>2, <2>3, <2>4, NullAssumption
    DEF phaseOf, IsOnline, IsDisconnecting, CleanupPending, Session, Gens
  <2> QED
    BY <1>1, <2>2, <2>5, PhaseMoves
<1> QED
  BY <1>2, <1>3

\* The other steps of a lease monitor.
LEMMA WorkerMoves ==
  ASSUME RInv, NEW w \in Workers,
         PinPayload(w) \/ RearmClaim(w) \/ AckClaim(w) \/ RenewClaim(w)
  PROVE  LifecycleStep
<1> USE DEF RInv, IInv
<1>1. PICK p \in Players : p = claim[w].p
  BY DEF PinPayload, RearmClaim, AckClaim, RenewClaim, TypeOK, Claim
<1>2. session' = session
  BY DEF PinPayload, RearmClaim, AckClaim, RenewClaim, sessionVars
<1>3. OnlyPlayer(p)
  BY <1>1, <1>2 DEF PinPayload, RearmClaim, AckClaim, RenewClaim, ClaimGone, OnlyPlayer,
     CleanupPending, TypeOK, leaseVars
<1> QED
  BY <1>2, <1>3, LeaseMoves

\* Every step of the handlers and monitors is one of the life cycle.
LEMMA RefinementStep ==
  ASSUME RInv, [Next]_vars
  PROVE  LifecycleStep
<1> USE DEF RInv, IInv
<1>1. ASSUME NEW p \in Players, UNCHANGED <<session, leaseVars>> PROVE LifecycleStep
  <2>1. session' = session /\ OnlyPlayer(p)
    BY <1>1 DEF OnlyPlayer, CleanupPending, leaseVars
  <2> QED
    BY <2>1, LeaseMoves
<1>2. CASE UNCHANGED <<session, leaseVars>>
  <2>1. CASE Players = {}
    <3>1. Phases' = Phases /\ Gens' = Gens
      BY <2>1 DEF Phases, Gens
    <3> QED
      BY <3>1 DEF LifecycleStep, Lifecycle!vars, Phases, Gens
  <2> QED
    BY <1>1, <1>2, <2>1
<1>3. ASSUME NEW r \in Calls, CallNext(r) PROVE LifecycleStep
  <2>1. CASE MarkOfflineEnqueue(r)
    <3>1. PICK p \in Players : p = rpc[r].p
      BY <2>1 DEF MarkOfflineEnqueue, TypeOK, Call
    <3>2. session' = session /\ OnlyPlayer(p)
      BY <2>1, <3>1 DEF MarkOfflineEnqueue, enqueueOfflineCleanup, OnlyPlayer, CleanupPending,
         TypeOK, sessionVars
    <3> QED
      BY <3>2, LeaseMoves
  <2> QED
    BY <1>2, <1>3, <2>1, CallCommits, CommitMoves DEF sessionVars
<1>4. ASSUME NEW w \in Workers, NEW p \in Players, ClaimExpired(w, p) PROVE LifecycleStep
  <2>1. PICK t : claimTokens' = [claimTokens EXCEPT ![p] = t]
    BY <1>4 DEF ClaimExpired
  <2>2. session' = session /\ OnlyPlayer(p)
    BY <1>4, <2>1 DEF ClaimExpired, OnlyPlayer, CleanupPending, TypeOK, sessionVars
  <2> QED
    BY <2>2, LeaseMoves
<1>5. ASSUME NEW w \in Workers, WorkerNext(w) PROVE LifecycleStep
  <2>1. CASE \/ ProbeAny(w) \/ \E ok \in BOOLEAN : SendLeaseExpired(w, ok)
             \/ NotifyLeave(w) \/ NotifyLeaveFails(w) \/ WorkerCrash(w)
    <3>1. UNCHANGED <<session, leaseVars>>
      BY <2>1 DEF ProbeAny, Probe, SendLeaseExpired, NotifyLeave, NotifyLeaveFails, WorkerCrash,
         sessionVars
    <3> QED
      BY <1>2, <3>1
  <2> QED
    BY <1>4, <1>5, <2>1, ExpiryMoves, WorkerMoves DEF WorkerNext, RoundStep
<1>6. ASSUME NEW p \in Players, ReadyElapses(p) \/ ClaimElapses(p) \/ RecoverClaim(p)
      PROVE  LifecycleStep
  <2>1. session' = session /\ OnlyPlayer(p)
    BY <1>6 DEF ReadyElapses, ClaimElapses, RecoverClaim, OnlyPlayer, CleanupPending, TypeOK,
       sessionVars
  <2> QED
    BY <2>1, LeaseMoves
<1>7. CASE UNCHANGED vars
  BY <1>2, <1>7 DEF vars, leaseVars, sessionVars
<1> QED
  BY <1>2, <1>3, <1>5, <1>6, <1>7 DEF Next, HolderRelease, CloseConn, GateLost, sessionVars

\* player_locator implements SessionLifecycle for any number of players,
\* handlers and workers, with every fault allowed: a first login never overtakes
\* a cleanup, only a lost session expires, and a login replaces only an older
\* one.
THEOREM LifecycleImplemented == Spec => ImplementsLifecycle
<1>1. Init => Lifecycle!Init
  <2> SUFFICES ASSUME Init PROVE Lifecycle!Init
    OBVIOUS
  <2>1. \A p \in Players : session[p] = NoSession /\ ~CleanupPending(p)
    BY DEF Init, CleanupPending
  <2> QED
    BY <2>1 DEF Lifecycle!Init, phaseOf, IsOnline, IsDisconnecting
<1>2. RInv /\ [Next]_vars => [Lifecycle!Next]_(Lifecycle!vars)
  BY RefinementStep DEF LifecycleStep
<1> QED
  BY <1>1, <1>2, Forward, PTL DEF Spec, ImplementsLifecycle, Lifecycle!Spec

-----------------------------------------------------------------------------
(* The location of the player in scene_manager.                            *)

\* A logout that has deleted its record and not yet removed or queued the
\* location.
Ending(x) == x # Idle /\ x.pc \in {"leave", "enqueue"}

\* No login is committed between the deletion of a logout and its end.
Undisturbed ==
  \A r \in Calls : Ending(rpc[r]) => session[rpc[r].p] = NoSession

\* The handlers of one player do not overlap.
OneAtATime ==
  \A q, r \in Calls : rpc[q] # Idle /\ rpc[r] # Idle /\ rpc[q].p = rpc[r].p => q = r

(* Which logins of a player something still refers to.                     *)

Bears(s, n, g) == s # NoSession /\ s.sid = n /\ s.gen = g

Known(p, n, g) ==
  \/ Bears(session[p], n, g)
  \/ Bears(claimPayloads[p], n, g)
  \/ location[p] # NoLocation /\ location[p].sid = n /\ location[p].gen = g
  \/ \E r \in Calls : /\ rpc[r] # Idle /\ rpc[r].p = p
                      /\ Bears(rpc[r].upd, n, g) \/ Bears(rpc[r].exp, n, g)
  \/ \E w \in Workers : /\ claim[w] # Idle /\ claim[w].p = p
                        /\ Bears(claim[w].payload, n, g)

\* A generation was minted for one login, so it names one connection.
LoginsInv ==
  \A p \in Players :
    /\ \A n, g \in Nat : Known(p, n, g) => 0 < g /\ g <= minted[p]
    /\ \A m, n, g \in Nat : Known(p, m, g) /\ Known(p, n, g) => m = n

(* Leases, claims and logouts.                                             *)

TokensDiffer ==
  \A v, w \in Workers :
    claim[v] # Idle /\ claim[w] # Idle /\ claim[v].token = claim[w].token => v = w

\* Only sessions that have ended are pinned.
PayloadsEnded ==
  /\ \A p \in Players :
       claimPayloads[p] # NoSession => claimPayloads[p].state = "DISCONNECTING"
  /\ \A w \in Workers : claim[w] # Idle /\ claim[w].payload # NoSession
                          => claim[w].payload.state = "DISCONNECTING"

\* What is pinned is the record, as long as there is one, ...
PinnedRecord ==
  \A p \in Players : session[p] # NoSession => claimPayloads[p] \in {NoSession, session[p]}

\* ... and what the owner of the claim has in hand.
PinnedClaim ==
  \A w \in Workers : claim[w] # Idle /\ Owns(w) /\ claim[w].pc # "pin"
                       => claimPayloads[claim[w].p] = claim[w].payload

\* A logout has no lease, claim or payload next to it, nor another logout.
EndingAlone ==
  /\ \A r \in Calls : Ending(rpc[r]) => /\ ready[rpc[r].p] = "none"
                                        /\ ~CleanupPending(rpc[r].p)
  /\ \A q, r \in Calls : Ending(rpc[q]) /\ Ending(rpc[r]) /\ rpc[q].p = rpc[r].p => q = r

\* An owner gives up its payload for a record that exists, or for a location
\* that is gone.
Concludes ==
  \A w \in Workers : claim[w] # Idle /\ Owns(w) =>
    /\ claim[w].pc = "rearm" => session[claim[w].p] # NoSession
    /\ claim[w].pc = "ack" /\ claim[w].payload # NoSession =>
         location[claim[w].p] = NoLocation \/ location[claim[w].p].late

PinsInv ==
  TokensDiffer /\ PayloadsEnded /\ PinnedRecord /\ PinnedClaim /\ EndingAlone

GhostInv == RInv /\ LoginsInv /\ PinsInv /\ Concludes /\ NoGhostLocation

-----------------------------------------------------------------------------
(* Who changes what.                                                       *)

\* The fields of a claim that a worker has in hand.
Continues(x, y) == y # Idle /\ x # Idle /\ y.p = x.p /\ y.token = x.token

\* A worker moves its own claim only, along its player and token.
LEMMA RoundMoves ==
  ASSUME TypeOK, NEW w \in Workers, RoundStep(w) \/ RenewClaim(w)
  PROVE  /\ claim[w] # Idle /\ claim[w] \in Claim /\ claim[w].p \in Players
         /\ \A v \in Workers : v # w => claim'[v] = claim[v]
         /\ rpc' = rpc /\ minted' = minted
         /\ claim'[w] # Idle =>
              /\ Continues(claim[w], claim'[w])
              /\ claim'[w].payload = claim[w].payload \/ PinPayload(w)
<1>1. claim[w] # Idle /\ rpc' = rpc /\ minted' = minted
  BY DEF RoundStep, PinPayload, ProbeAny, Probe, RearmClaim, CommitExpiry, SendLeaseExpired,
     NotifyLeave, NotifyLeaveFails, AckClaim, WorkerCrash, RenewClaim, envVars
<1>2. claim[w] \in Claim /\ claim[w].p \in Players
  BY <1>1 DEF TypeOK, Claim
<1>3. \A v \in Workers : v # w => claim'[v] = claim[v]
  BY DEF RoundStep, PinPayload, ProbeAny, Probe, RearmClaim, CommitExpiry, SendLeaseExpired,
     NotifyLeave, NotifyLeaveFails, AckClaim, WorkerCrash, RenewClaim, Drop, TypeOK
<1>4. ASSUME claim'[w] # Idle
      PROVE  /\ Continues(claim[w], claim'[w])
             /\ claim'[w].payload = claim[w].payload \/ PinPayload(w)
  <2>1. CASE PinPayload(w)
    <3>1. PICK s : claim'[w] = [claim[w] EXCEPT !.pc = "probe", !.payload = s]
      BY <1>4, <2>1 DEF PinPayload, Drop, TypeOK
    <3> QED BY <1>1, <1>2, <1>4, <2>1, <3>1 DEF Claim, Continues
  <2>2. CASE ~PinPayload(w)
    <3>1. CASE ProbeAny(w) \/ CommitExpiry(w) \/ NotifyLeave(w)
      <4>1. PICK t \in {"commit", "ack", "rearm", "kick"} :
              claim'[w] = [claim[w] EXCEPT !.pc = t]
        <5>1. CASE ProbeAny(w)
          <6>1. PICK afk, fails : Probe(w, afk, fails)
            BY <5>1 DEF ProbeAny
          <6>2. /\ claim'[w] = [claim[w] EXCEPT !.pc = ProbeNext(w, afk, fails)]
                /\ ProbeNext(w, afk, fails) \in {"commit", "ack", "rearm", "kick"}
            BY <6>1 DEF Probe, ProbeNext, TypeOK
          <6> QED BY <6>2
        <5>2. CASE CommitExpiry(w)
          BY <1>4, <5>2 DEF CommitExpiry, Drop, TypeOK
        <5>3. CASE NotifyLeave(w)
          BY <1>4, <5>3 DEF NotifyLeave, TypeOK
        <5> QED BY <3>1, <5>1, <5>2, <5>3
      <4> QED BY <1>1, <1>2, <1>4, <4>1 DEF Claim, Continues
    <3>2. ASSUME NEW ok \in BOOLEAN, SendLeaseExpired(w, ok)
          PROVE  Continues(claim[w], claim'[w]) /\ claim'[w].payload = claim[w].payload
      <4>1. claim'[w] = [claim[w] EXCEPT !.pc = "leave", !.kicked = ok]
        BY <3>2 DEF SendLeaseExpired, TypeOK
      <4> QED BY <1>1, <1>2, <1>4, <4>1 DEF Claim, Continues
    <3>3. CASE RearmClaim(w) \/ NotifyLeaveFails(w) \/ AckClaim(w) \/ WorkerCrash(w)
      BY <1>4, <3>3 DEF RearmClaim, NotifyLeaveFails, AckClaim, WorkerCrash, Drop, TypeOK
    <3>4. CASE RenewClaim(w)
      BY <1>1, <1>4, <3>4 DEF RenewClaim, Continues
    <3> QED BY <2>2, <3>1, <3>2, <3>3, <3>4 DEF RoundStep
  <2> QED BY <2>1, <2>2
<1> QED BY <1>1, <1>2, <1>3, <1>4

\* The steps that move no claim.
LEMMA ClaimsMove ==
  ASSUME TypeOK, [Next]_vars
  PROVE  \/ \E w \in Workers : RoundStep(w) \/ RenewClaim(w)
         \/ \E w \in Workers, p \in Players : ClaimExpired(w, p)
         \/ claim' = claim
<1>1. ASSUME NEW r \in Calls, CallNext(r) PROVE claim' = claim
  BY <1>1 DEF CallNext, EnterGame, SetSessionGet, ReconnectGet, ReplaceCas, Replay, EnterScene,
     SetDisconnectingGet, SetDisconnectingCas, MarkOfflineGet, MarkOfflineCas,
     MarkOfflineLeave, MarkOfflineEnqueue, Abort, GiveUp
<1> QED
  BY <1>1 DEF Next, WorkerNext, ReadyElapses, ClaimElapses, RecoverClaim, HolderRelease,
     CloseConn, GateLost, vars

\* A new claim, with the token it draws.
LEMMA NewClaim ==
  ASSUME TypeOK, NEW w \in Workers, NEW p \in Players, ClaimExpired(w, p)
  PROVE  \E t \in FreshTokens :
           /\ claimTokens' = [claimTokens EXCEPT ![p] = t]
           /\ claim'[w] = [pc |-> "pin", p |-> p, token |-> t, payload |-> NoSession,
                           kicked |-> FALSE]
           /\ \A v \in Workers : v # w => claim'[v] = claim[v]
<1>1. PICK t \in FreshTokens :
        /\ claimTokens' = [claimTokens EXCEPT ![p] = t]
        /\ claim' = [claim EXCEPT ![w] = [pc |-> "pin", p |-> p, token |-> t,
                                          payload |-> NoSession, kicked |-> FALSE]]
  BY DEF ClaimExpired
<1>2. /\ claim'[w] = [pc |-> "pin", p |-> p, token |-> t, payload |-> NoSession,
                      kicked |-> FALSE]
      /\ \A v \in Workers : v # w => claim'[v] = claim[v]
  BY <1>1 DEF TypeOK
<1> QED BY <1>1, <1>2

\* What is claimed now and past its pin was claimed before, and owned if it is.
LEMMA OwnedBefore ==
  ASSUME TypeOK, [Next]_vars, NEW v \in Workers, claim'[v] # Idle, claim'[v].pc # "pin"
  PROVE  /\ Continues(claim[v], claim'[v])
         /\ Owns(v)' => Owns(v)
         /\ \/ claim'[v] = claim[v]
            \/ RoundStep(v) /\ claim'[v].payload = claim[v].payload
            \/ PinPayload(v)
<1>1. ASSUME NEW w \in Workers, NEW p \in Players, ClaimExpired(w, p)
      PROVE  v # w /\ claim'[v] = claim[v] /\ (Owns(v)' => Owns(v))
  <2>1. PICK t \in FreshTokens :
          /\ claimTokens' = [claimTokens EXCEPT ![p] = t]
          /\ claim'[w] = [pc |-> "pin", p |-> p, token |-> t, payload |-> NoSession,
                          kicked |-> FALSE]
          /\ \A u \in Workers : u # w => claim'[u] = claim[u]
    BY <1>1, NewClaim
  <2>2. v # w /\ claim'[v] = claim[v] /\ claim[v].token # t /\ claim[v].p \in Players
    BY <2>1 DEF FreshTokens, TypeOK, Claim
  <2> QED BY <2>1, <2>2 DEF Owns, TypeOK
<1>2. CASE \A w \in Workers, p \in Players : ~ClaimExpired(w, p)
  <2>1. Continues(claim[v], claim'[v])
    BY <1>2, ClaimsMove, RoundMoves DEF Continues
  <2>2. \A q \in Players : claimTokens'[q] \in {claimTokens[q], NoToken}
    <3>1. ASSUME NEW r \in Calls, CallNext(r)
          PROVE  \A q \in Players : claimTokens'[q] \in {claimTokens[q], NoToken}
      <4>1. CASE Commits(r)
        BY <4>1 DEF Commits, Script, SetLease, TypeOK
      <4> QED BY <3>1, <4>1, CallCommits DEF MarkOfflineEnqueue, leaseVars
    <3>2. ASSUME NEW w \in Workers, WorkerNext(w)
          PROVE  \A q \in Players : claimTokens'[q] \in {claimTokens[q], NoToken}
      BY <1>2, <3>2 DEF WorkerNext, RoundStep, PinPayload, ProbeAny, Probe, RearmClaim, ClaimGone,
         CommitExpiry, SendLeaseExpired, NotifyLeave, NotifyLeaveFails, AckClaim, RenewClaim,
         WorkerCrash, TypeOK, leaseVars
    <3> QED
      BY <3>1, <3>2 DEF Next, ReadyElapses, ClaimElapses, RecoverClaim, HolderRelease, CloseConn, GateLost,
         vars, leaseVars, TypeOK
  <2>3. claim[v].token \in Tokens /\ claim[v].p \in Players
    BY <2>1 DEF Continues, TypeOK, Claim
  <2>4. Owns(v)' => Owns(v)
    BY <2>1, <2>2, <2>3, NullAssumption DEF Owns, Continues
  <2>5. \/ claim'[v] = claim[v]
        \/ RoundStep(v) /\ claim'[v].payload = claim[v].payload
        \/ PinPayload(v)
    BY <1>2, ClaimsMove, RoundMoves DEF RenewClaim
  <2> QED BY <2>1, <2>4, <2>5
<1> QED BY <1>1, <1>2 DEF Continues

\* A worker takes what it has in hand from a pin.
LEMMA PayloadMoves ==
  ASSUME TypeOK, [Next]_vars, NEW v \in Workers, claim'[v] # Idle
  PROVE  \/ claim'[v].payload = NoSession
         \/ /\ claim[v] # Idle /\ claim'[v].p = claim[v].p
            /\ claim'[v].payload = claim[v].payload
         \/ PinPayload(v) /\ claim[v] # Idle /\ claim'[v].p = claim[v].p
<1>1. ASSUME NEW w \in Workers, NEW p \in Players, ClaimExpired(w, p)
      PROVE  claim'[v] = claim[v] \/ claim'[v].payload = NoSession
  <2>1. PICK t \in FreshTokens :
          /\ claim'[w] = [pc |-> "pin", p |-> p, token |-> t, payload |-> NoSession,
                          kicked |-> FALSE]
          /\ \A u \in Workers : u # w => claim'[u] = claim[u]
    BY <1>1, NewClaim
  <2> QED BY <2>1
<1>2. ASSUME NEW w \in Workers, RoundStep(w) \/ RenewClaim(w)
      PROVE  \/ claim'[v] = claim[v]
             \/ /\ claim[v] # Idle /\ claim'[v].p = claim[v].p
                /\ claim'[v].payload = claim[v].payload \/ PinPayload(v)
  BY <1>2, RoundMoves DEF Continues
<1> QED BY <1>1, <1>2, ClaimsMove

\* Two owners of the claim of one player are one.
LEMMA OneOwner ==
  ASSUME TokensDiffer, NEW v \in Workers, NEW w \in Workers, claim[v] # Idle, claim[w] # Idle,
         claim[v].p = claim[w].p, Owns(v), Owns(w)
  PROVE  v = w
BY DEF TokensDiffer, Owns

\* How the payload pinned for a player changes.
LEMMA PayloadWriters ==
  ASSUME TypeOK, [Next]_vars, NEW p \in Players
  PROVE  \/ claimPayloads'[p] = claimPayloads[p]
         \/ /\ claimPayloads'[p] = NoSession
            /\ \/ \E r \in Calls : Commits(r) /\ rpc[r].p = p
               \/ \E w \in Workers : /\ claim[w].p = p /\ Owns(w) /\ claim'[w] = Idle
                                     /\ \/ RearmClaim(w) \/ AckClaim(w)
                                        \/ /\ CommitExpiry(w)
                                           /\ session[p] \notin {NoSession, claim[w].payload}
         \/ \E r \in Calls : /\ MarkOfflineEnqueue(r) /\ rpc[r].p = p /\ session[p] = NoSession
                             /\ claimPayloads'[p] = RetrySnapshot(rpc[r].exp)
         \/ \E w \in Workers :
              /\ PinPayload(w) /\ claim[w].p = p /\ Owns(w)
              /\ claimPayloads'[p] = IF session[p] # NoSession THEN session[p]
                                     ELSE claimPayloads[p]
<1> DEFINE Same == claimPayloads'[p] = claimPayloads[p]
<1>1. ASSUME NEW r \in Calls, CallNext(r)
      PROVE  \/ Same
             \/ claimPayloads'[p] = NoSession /\ Commits(r) /\ rpc[r].p = p
             \/ /\ MarkOfflineEnqueue(r) /\ rpc[r].p = p /\ session[p] = NoSession
                /\ claimPayloads'[p] = RetrySnapshot(rpc[r].exp)
  <2>1. CASE Commits(r)
    BY <2>1 DEF Commits, Script, SetLease, TypeOK
  <2>2. CASE MarkOfflineEnqueue(r)
    BY <2>2 DEF MarkOfflineEnqueue, enqueueOfflineCleanup, TypeOK
  <2> QED BY <1>1, <2>1, <2>2, CallCommits DEF leaseVars
<1>2. ASSUME NEW w \in Workers, PinPayload(w)
      PROVE  \/ Same
             \/ /\ claim[w].p = p /\ Owns(w)
                /\ claimPayloads'[p] = IF session[p] # NoSession THEN session[p]
                                       ELSE claimPayloads[p]
  BY <1>2 DEF PinPayload, TypeOK
<1>3. ASSUME NEW w \in Workers, RearmClaim(w) \/ AckClaim(w) \/ CommitExpiry(w)
      PROVE  \/ Same
             \/ /\ claim[w].p = p /\ Owns(w) /\ claim'[w] = Idle
                /\ claimPayloads'[p] = NoSession
                /\ CommitExpiry(w) => session[p] \notin {NoSession, claim[w].payload}
  <2>1. CASE RearmClaim(w)
    BY <2>1 DEF RearmClaim, ClaimGone, CommitExpiry, Drop, TypeOK, leaseVars
  <2>2. CASE AckClaim(w)
    BY <2>2 DEF AckClaim, ClaimGone, CommitExpiry, Drop, TypeOK
  <2>3. CASE CommitExpiry(w)
    BY <2>3 DEF CommitExpiry, ClaimGone, Drop, TypeOK, leaseVars
  <2> QED BY <1>3, <2>1, <2>2, <2>3
<1>4. ASSUME NEW w \in Workers, WorkerNext(w)
      PROVE  Same \/ PinPayload(w) \/ RearmClaim(w) \/ AckClaim(w) \/ CommitExpiry(w)
  BY <1>4 DEF WorkerNext, RoundStep, ClaimExpired, ProbeAny, Probe, SendLeaseExpired, NotifyLeave,
     NotifyLeaveFails, RenewClaim, WorkerCrash, leaseVars
<1> QED
  BY <1>1, <1>2, <1>3, <1>4 DEF Next, ReadyElapses, ClaimElapses, RecoverClaim, HolderRelease,
     CloseConn, GateLost, vars, leaseVars

\* How the record of a player changes.
LEMMA RecordChanges ==
  ASSUME TypeOK, [Next]_vars, NEW p \in Players
  PROVE  \/ session'[p] = session[p]
         \/ \E r \in Calls : CallNext(r) /\ Commits(r) /\ rpc[r].p = p
         \/ \E w \in Workers : /\ CommitExpiry(w) /\ claim[w].p = p /\ Owns(w)
                               /\ session[p] = claim[w].payload /\ session'[p] = NoSession
                               /\ UNCHANGED leaseVars
<1>1. ASSUME NEW r \in Calls, Commits(r)
      PROVE  session'[p] = session[p] \/ rpc[r].p = p
  BY <1>1 DEF Commits, Script, WriteSession, TypeOK
<1>2. ASSUME NEW w \in Workers, CommitExpiry(w)
      PROVE  \/ session'[p] = session[p]
             \/ /\ claim[w].p = p /\ Owns(w) /\ session[p] = claim[w].payload
                /\ session'[p] = NoSession /\ UNCHANGED leaseVars
  BY <1>2 DEF CommitExpiry, TypeOK
<1> QED BY <1>1, <1>2, RecordWriters

\* A handler moves its own call only.
LEMMA OwnCall ==
  ASSUME TypeOK, NEW r \in Calls, CallNext(r)
  PROVE  \A q \in Calls : q # r => rpc'[q] = rpc[q]
BY DEF CallNext, EnterGame, SetSessionGet, ReconnectGet, ReplaceCas, Replay, EnterScene,
   SetDisconnectingGet, SetDisconnectingCas, MarkOfflineGet, MarkOfflineCas, MarkOfflineLeave,
   MarkOfflineEnqueue, Abort, GiveUp, Goto, Return, TypeOK

\* Nobody else moves calls.
LEMMA CallsMove ==
  ASSUME [Next]_vars
  PROVE  rpc' = rpc \/ \E r \in Calls : CallNext(r)
BY DEF Next, WorkerNext, RoundStep, ClaimExpired, PinPayload, ProbeAny, Probe, RearmClaim,
   CommitExpiry, SendLeaseExpired, NotifyLeave, NotifyLeaveFails, AckClaim, RenewClaim, WorkerCrash,
   ReadyElapses, ClaimElapses, RecoverClaim, HolderRelease, CloseConn, GateLost, vars

\* A logout is ending because it was, or because it has just deleted its record.
LEMMA EndingMoves ==
  ASSUME TypeOK, CallInv, [Next]_vars, NEW q \in Calls, Ending(rpc'[q])
  PROVE  /\ rpc[q] # Idle /\ rpc'[q].p = rpc[q].p /\ rpc'[q].exp = rpc[q].exp
         /\ \/ Ending(rpc[q])
            \/ Commits(q) /\ rpc[q].op = "MarkOffline"
<1>1. CASE rpc'[q] = rpc[q]
  BY <1>1 DEF Ending
<1>2. CASE CallNext(q)
  <2>1. CASE MarkOfflineCas(q)
    <3>1. /\ rpc[q] # Idle /\ rpc[q] \in Call /\ rpc[q].op = "MarkOffline"
          /\ rpc'[q] = [rpc[q] EXCEPT !.pc = "leave"] /\ Commits(q)
      BY <2>1 DEF MarkOfflineCas, deleteSessionIfUnchanged, Commits, Script, envVars, Goto, Return,
         Ending, TypeOK
    <3> QED BY <3>1 DEF Call
  <2>2. CASE MarkOfflineLeave(q)
    <3>1. /\ rpc[q] # Idle /\ rpc[q] \in Call /\ rpc[q].pc = "leave"
          /\ rpc'[q] = [rpc[q] EXCEPT !.pc = "enqueue"]
      BY <2>2 DEF MarkOfflineLeave, Goto, Return, Ending, TypeOK
    <3> QED BY <3>1 DEF Call, Ending
  <2>3. CASE \/ EnterScene(q) \/ SetDisconnectingCas(q) \/ MarkOfflineEnqueue(q) \/ Abort(q)
             \/ GiveUp(q)
    BY <2>3 DEF EnterScene, SetDisconnectingCas, MarkOfflineEnqueue, Abort, GiveUp, Return, Ending, TypeOK
  <2>4. ASSUME NEW p \in Players, NEW c \in Conns,
               EnterGame(q, p, c) \/ SetDisconnectingGet(q, p, c) \/ MarkOfflineGet(q, p, c)
        PROVE  FALSE
    BY <2>4 DEF EnterGame, SetDisconnectingGet, MarkOfflineGet, Ending, TypeOK
  <2>5. CASE SetSessionGet(q) \/ ReconnectGet(q) \/ ReplaceCas(q) \/ Replay(q)
    <3>1. rpc[q] # Idle /\ rpc[q] \in Call
      BY <2>5 DEF SetSessionGet, ReconnectGet, ReplaceCas, Replay, TypeOK
    <3>2. CASE SetSessionGet(q)
      <4>1. rpc'[q] = [rpc[q] EXCEPT !.pc = "cas", !.exp = session[rpc[q].p]]
        BY <3>2 DEF SetSessionGet, Ending, TypeOK
      <4> QED BY <3>1, <4>1 DEF Call, Ending
    <3>3. CASE ReconnectGet(q)
      <4>1. \/ rpc'[q] = [rpc[q] EXCEPT !.pc = "enter"]
            \/ rpc'[q] = [rpc[q] EXCEPT !.pc = "cas", !.exp = session[rpc[q].p],
                                        !.upd.ver = session[rpc[q].p].ver + 1]
        BY <3>3 DEF ReconnectGet, Ending, TypeOK
      <4> QED BY <3>1, <4>1 DEF Call, Ending
    <3>4. CASE ReplaceCas(q) \/ Replay(q)
      <4>1. \/ rpc'[q] = [rpc[q] EXCEPT !.pc = "enter"]
            \/ rpc'[q] = [rpc[q] EXCEPT !.pc = "get"]
        BY <3>4 DEF ReplaceCas, Replay, Goto, Return, Ending, TypeOK
      <4> QED BY <3>1, <4>1 DEF Call, Ending
    <3> QED BY <2>5, <3>2, <3>3, <3>4
  <2> QED BY <1>2, <2>1, <2>2, <2>3, <2>4, <2>5 DEF CallNext
<1> QED BY <1>1, <1>2, CallsMove, OwnCall

-----------------------------------------------------------------------------
(* Pins.                                                                   *)

LEMMA TokensStep ==
  ASSUME TypeOK, TokensDiffer, [Next]_vars
  PROVE  TokensDiffer'
<1>1. ASSUME NEW w \in Workers, NEW p \in Players, ClaimExpired(w, p) PROVE TokensDiffer'
  <2>1. PICK t \in FreshTokens :
          /\ claimTokens' = [claimTokens EXCEPT ![p] = t]
          /\ claim'[w] = [pc |-> "pin", p |-> p, token |-> t, payload |-> NoSession,
                          kicked |-> FALSE]
          /\ \A u \in Workers : u # w => claim'[u] = claim[u]
    BY <1>1, NewClaim
  <2>2. claim'[w].token = t
    BY <2>1
  <2>3. \A u \in Workers : claim[u] # Idle => claim[u].token # t
    BY DEF FreshTokens
  <2> QED BY <2>1, <2>2, <2>3 DEF TokensDiffer
<1>2. ASSUME NEW w \in Workers, RoundStep(w) \/ RenewClaim(w) PROVE TokensDiffer'
  <2>1. \A v \in Workers : claim'[v] # Idle => claim[v] # Idle /\ claim'[v].token = claim[v].token
    BY <1>2, RoundMoves DEF Continues
  <2> QED BY <2>1 DEF TokensDiffer
<1>3. CASE claim' = claim
  BY <1>3 DEF TokensDiffer
<1> QED BY <1>1, <1>2, <1>3, ClaimsMove

\* What PinPayload pins under a claim that counts.
LEMMA PinsEnded ==
  ASSUME RInv, PayloadsEnded, NEW w \in Workers, PinPayload(w), Owns(w)
  PROVE  LET p == claim[w].p
             payload == IF session[p] # NoSession THEN session[p] ELSE claimPayloads[p]
         IN /\ claim[w] # Idle /\ p \in Players
            /\ claim'[w].payload = payload /\ claimPayloads'[p] = payload
            /\ payload # NoSession => payload.state = "DISCONNECTING"
<1> USE DEF RInv, IInv
<1> DEFINE p == claim[w].p
           payload == IF session[p] # NoSession THEN session[p] ELSE claimPayloads[p]
<1>1. claim[w] # Idle /\ claim[w] \in Claim /\ p \in Players /\ ~IsOnline(p)
  BY OwnerFacts DEF PinPayload, TypeOK, LeaseInv
<1>2. /\ claim'[w] = [claim[w] EXCEPT !.pc = "probe", !.payload = payload]
      /\ claimPayloads'[p] = payload
  BY <1>1 DEF PinPayload, TypeOK
<1>3. claim'[w].payload = payload
  BY <1>1, <1>2 DEF Claim
<1>4. session[p] # NoSession => session[p].state = "DISCONNECTING"
  BY <1>1 DEF TypeOK, IsOnline, Session
<1> QED BY <1>1, <1>2, <1>3, <1>4 DEF PayloadsEnded

LEMMA PayloadsEndedStep ==
  ASSUME RInv, PayloadsEnded, [Next]_vars
  PROVE  PayloadsEnded'
<1> USE DEF RInv, IInv
<1>1. ASSUME NEW p \in Players, claimPayloads'[p] # NoSession
      PROVE  claimPayloads'[p].state = "DISCONNECTING"
  <2>1. CASE claimPayloads'[p] = claimPayloads[p]
    BY <1>1, <2>1 DEF PayloadsEnded
  <2>2. ASSUME NEW r \in Calls, MarkOfflineEnqueue(r),
               claimPayloads'[p] = RetrySnapshot(rpc[r].exp)
        PROVE  claimPayloads'[p].state = "DISCONNECTING"
    <3>1. rpc[r].exp \in Session
      BY <2>2 DEF MarkOfflineEnqueue, CallInv, CallGood
    <3> QED BY <2>2, <3>1 DEF RetrySnapshot, Session
  <2>3. ASSUME NEW w \in Workers, PinPayload(w), claim[w].p = p, Owns(w)
        PROVE  claimPayloads'[p].state = "DISCONNECTING"
    BY <1>1, <2>3, PinsEnded
  <2> QED BY <1>1, <2>1, <2>2, <2>3, PayloadWriters
<1>2. ASSUME NEW v \in Workers, claim'[v] # Idle, claim'[v].payload # NoSession
      PROVE  claim'[v].payload.state = "DISCONNECTING"
  <2>1. CASE PinPayload(v)
    <3>1. Owns(v)
      BY <1>2, <2>1 DEF PinPayload, Drop, TypeOK
    <3> QED BY <1>2, <2>1, <3>1, PinsEnded
  <2>2. CASE ~PinPayload(v)
    BY <1>2, <2>2, PayloadMoves DEF PayloadsEnded
  <2> QED BY <2>1, <2>2
<1> QED BY <1>1, <1>2 DEF PayloadsEnded

\* The lease of a player after a commit of one of its handlers.
LEMMA CommitClears ==
  ASSUME TypeOK, NEW r \in Calls, Commits(r)
  PROVE  /\ rpc[r] # Idle /\ rpc[r].p \in Players
         /\ claimPayloads'[rpc[r].p] = NoSession /\ claimTokens'[rpc[r].p] = NoToken
         /\ processing'[rpc[r].p] = "none"
         /\ \/ ready'[rpc[r].p] = "none"
            \/ ready'[rpc[r].p] = "waiting" /\ rpc[r].op = "SetDisconnecting"
<1>1. rpc[r] # Idle /\ rpc[r].p \in Players
  BY DEF Commits, TypeOK, Call
<1> QED BY <1>1 DEF Commits, Script, SetLease, TypeOK

LEMMA PinnedRecordStep ==
  ASSUME RInv, PinnedRecord, [Next]_vars
  PROVE  PinnedRecord'
<1> USE DEF RInv, IInv
<1> SUFFICES ASSUME NEW p \in Players, session'[p] # NoSession
             PROVE  claimPayloads'[p] \in {NoSession, session'[p]}
  BY DEF PinnedRecord
<1>1. ASSUME NEW r \in Calls, Commits(r), rpc[r].p = p
      PROVE  claimPayloads'[p] = NoSession
  BY <1>1, CommitClears
<1>2. CASE session'[p] = session[p]
  BY <1>2, PayloadWriters DEF PinnedRecord
<1> QED BY <1>1, <1>2, RecordChanges

LEMMA PinnedClaimStep ==
  ASSUME RInv, PinsInv, Undisturbed, [Next]_vars
  PROVE  PinnedClaim'
<1> USE DEF RInv, IInv, PinsInv
<1> SUFFICES ASSUME NEW v \in Workers, claim'[v] # Idle, Owns(v)', claim'[v].pc # "pin"
             PROVE  claimPayloads'[claim'[v].p] = claim'[v].payload
  BY DEF PinnedClaim
<1>1. /\ claim[v] # Idle /\ claim'[v].p = claim[v].p /\ Owns(v)
      /\ claim'[v].token = claim[v].token /\ claim[v].token \in Tokens /\ claim[v].p \in Players
  BY OwnedBefore DEF Continues, TypeOK, Claim
<1>2. CASE PinPayload(v)
  BY <1>1, <1>2, PinsEnded
<1>3. CASE ~PinPayload(v)
  <2>1. claim'[v].payload = claim[v].payload /\ claim[v].pc # "pin"
    <3>1. claim'[v] = claim[v] \/ (RoundStep(v) /\ claim'[v].payload = claim[v].payload)
      BY <1>3, OwnedBefore
    <3>2. RoundStep(v) => claim[v].pc # "pin" \/ claim'[v] = Idle
      BY <1>3 DEF RoundStep, ProbeAny, Probe, RearmClaim, CommitExpiry, SendLeaseExpired,
         NotifyLeave, NotifyLeaveFails, AckClaim, WorkerCrash, Drop, TypeOK
    <3> QED BY <3>1, <3>2
  <2>2. PICK p \in Players : p = claim[v].p
    BY <1>1
  <2>3. claimPayloads[p] = claim[v].payload
    BY <1>1, <2>1, <2>2 DEF PinnedClaim
  <2>4. claimTokens'[p] # NoToken /\ claimTokens[p] # NoToken
    BY <1>1, <2>2, NullAssumption DEF Owns
  <2>5. ASSUME NEW r \in Calls, Commits(r), rpc[r].p = p PROVE FALSE
    BY <2>4, <2>5, CommitClears
  <2>6. ASSUME NEW r \in Calls, MarkOfflineEnqueue(r), rpc[r].p = p PROVE FALSE
    <3>1. Ending(rpc[r])
      BY <2>6 DEF MarkOfflineEnqueue, Ending
    <3> QED BY <2>4, <2>6, <3>1 DEF EndingAlone, CleanupPending
  <2>7. ASSUME NEW w \in Workers, claim[w].p = p, Owns(w), claim[w] # Idle PROVE w = v
    BY <1>1, <2>2, <2>7, OneOwner
  <2>8. ASSUME NEW w \in Workers, RearmClaim(w) \/ AckClaim(w) \/ CommitExpiry(w) \/ PinPayload(w)
        PROVE  claim[w] # Idle
    BY <2>8 DEF RearmClaim, AckClaim, CommitExpiry, PinPayload
  <2>9. claimPayloads'[p] = claimPayloads[p]
    BY <1>3, <2>5, <2>6, <2>7, <2>8, PayloadWriters
  <2> QED BY <1>1, <2>1, <2>2, <2>3, <2>9
<1> QED BY <1>2, <1>3

\* Without a token, a claim, a deadline or a payload the lease of a player
\* only changes by a commit or by a logout that queues its cleanup.
LEMMA ClearStays ==
  ASSUME TypeOK, [Next]_vars, NEW p \in Players, ready[p] = "none", ~CleanupPending(p),
         \A r \in Calls : ~(Commits(r) /\ rpc[r].p = p),
         \A r \in Calls : ~(MarkOfflineEnqueue(r) /\ rpc[r].p = p)
  PROVE  ready'[p] = "none" /\ ~CleanupPending(p)'
<1> DEFINE Clear == ready'[p] = "none" /\ ~CleanupPending(p)'
<1>0. /\ ready[p] = "none" /\ processing[p] = "none" /\ claimTokens[p] = NoToken
      /\ claimPayloads[p] = NoSession
  BY DEF CleanupPending
<1>1. CASE UNCHANGED leaseVars
  BY <1>1 DEF leaseVars, CleanupPending
<1>2. ASSUME NEW r \in Calls, CallNext(r) PROVE Clear
  <2>1. CASE Commits(r)
    <3>1. rpc[r].p \in Players /\ rpc[r].p # p
      BY <2>1, CommitClears
    <3> QED BY <1>0, <2>1, <3>1 DEF Commits, Script, SetLease, CleanupPending, TypeOK
  <2>2. CASE MarkOfflineEnqueue(r)
    BY <1>0, <2>2 DEF MarkOfflineEnqueue, enqueueOfflineCleanup, CleanupPending, TypeOK
  <2> QED BY <1>1, <1>2, <2>1, <2>2, CallCommits
<1>3. ASSUME NEW w \in Workers, claim[w] # Idle PROVE ~(Owns(w) /\ claim[w].p = p)
  BY <1>0, <1>3, NullAssumption DEF Owns, TypeOK, Claim
<1>4. ASSUME NEW w \in Workers, RoundStep(w) \/ RenewClaim(w) PROVE Clear
  <2>1. CASE PinPayload(w)
    BY <1>0, <1>3, <2>1 DEF PinPayload, CleanupPending, TypeOK
  <2>2. CASE RearmClaim(w)
    BY <1>0, <1>1, <1>3, <2>2 DEF RearmClaim, ClaimGone, CleanupPending, TypeOK
  <2>3. CASE CommitExpiry(w)
    BY <1>0, <1>1, <1>3, <2>3 DEF CommitExpiry, ClaimGone, CleanupPending, TypeOK
  <2>4. CASE AckClaim(w)
    BY <1>0, <1>3, <2>4 DEF AckClaim, ClaimGone, CleanupPending, TypeOK
  <2>5. CASE RenewClaim(w)
    BY <1>0, <1>3, <2>5 DEF RenewClaim, CleanupPending, TypeOK
  <2>6. CASE \/ ProbeAny(w) \/ NotifyLeave(w) \/ NotifyLeaveFails(w) \/ WorkerCrash(w)
             \/ \E ok \in BOOLEAN : SendLeaseExpired(w, ok)
    BY <1>1, <2>6 DEF ProbeAny, Probe, NotifyLeave, NotifyLeaveFails, WorkerCrash, SendLeaseExpired
  <2> QED BY <1>4, <2>1, <2>2, <2>3, <2>4, <2>5, <2>6 DEF RoundStep
<1>5. ASSUME NEW w \in Workers, NEW q \in Players, ClaimExpired(w, q) PROVE Clear
  BY <1>0, <1>5 DEF ClaimExpired, CleanupPending, TypeOK
<1>6. ASSUME NEW q \in Players, ReadyElapses(q) \/ ClaimElapses(q) \/ RecoverClaim(q)
      PROVE  Clear
  BY <1>0, <1>6 DEF ReadyElapses, ClaimElapses, RecoverClaim, CleanupPending, TypeOK
<1>7. CASE \/ \E q \in Players : HolderRelease(q) \/ \E c \in Conns : CloseConn(c)
           \/ \E g \in Gates : GateLost(g)
           \/ UNCHANGED vars
  BY <1>1, <1>7 DEF HolderRelease, CloseConn, GateLost, vars, leaseVars
<1> QED BY <1>2, <1>4, <1>5, <1>6, <1>7 DEF Next, WorkerNext

LEMMA EndingAloneStep ==
  ASSUME RInv, EndingAlone, Undisturbed, [Next]_vars
  PROVE  EndingAlone'
<1> USE DEF RInv, IInv
<1>0. ASSUME NEW r \in Calls, Commits(r), rpc[r].op # "SetSession", rpc[r].op # "Reconnect"
      PROVE  session[rpc[r].p] \in Session
  BY <1>0 DEF Commits, Replacing, CallInv, CallGood, ForwardInv, CallForward
<1>1. ASSUME NEW r \in Calls, Ending(rpc'[r]), NEW p \in Players, p = rpc'[r].p
      PROVE  ready'[p] = "none" /\ ~CleanupPending(p)'
  <2>1. p = rpc[r].p
    BY <1>1, EndingMoves
  <2>2. CASE Commits(r) /\ rpc[r].op = "MarkOffline"
    BY <2>1, <2>2, CommitClears DEF CleanupPending
  <2>3. CASE Ending(rpc[r])
    <3>1. session[p] = NoSession /\ ready[p] = "none" /\ ~CleanupPending(p)
      BY <2>1, <2>3 DEF Undisturbed, EndingAlone
    <3>2. ASSUME NEW q \in Calls, Commits(q), rpc[q].p = p
          PROVE  ready'[p] = "none" /\ ~CleanupPending(p)'
      <4>1. rpc[q].op # "SetDisconnecting"
        BY <1>0, <3>1, <3>2, NullAssumption
      <4> QED BY <3>2, <4>1, CommitClears DEF CleanupPending
    <3>3. ASSUME NEW q \in Calls, MarkOfflineEnqueue(q), rpc[q].p = p
          PROVE  FALSE
      <4>1. Ending(rpc[q])
        BY <3>3 DEF MarkOfflineEnqueue, Ending
      <4>2. q = r
        BY <2>1, <2>3, <3>3, <4>1 DEF EndingAlone
      <4> QED BY <1>1, <3>3, <4>2 DEF MarkOfflineEnqueue, Return, Ending, TypeOK
    <3> QED BY <3>1, <3>2, <3>3, ClearStays
  <2> QED BY <1>1, <2>2, <2>3, EndingMoves
<1>2. ASSUME NEW q \in Calls, NEW r \in Calls, Ending(rpc'[q]), Ending(rpc'[r]),
             rpc'[q].p = rpc'[r].p
      PROVE  q = r
  <2>1. rpc[q].p = rpc[r].p
    BY <1>2, EndingMoves
  <2>2. CASE Ending(rpc[q]) /\ Ending(rpc[r])
    BY <2>1, <2>2 DEF EndingAlone
  <2>3. ASSUME NEW a \in Calls, NEW b \in Calls, Commits(a), rpc[a].op = "MarkOffline",
               Ending(rpc[b]), rpc[a].p = rpc[b].p
        PROVE  FALSE
    BY <1>0, <2>3, NullAssumption DEF Undisturbed
  <2>4. CASE Commits(q) /\ Commits(r)
    <3>1. CASE q # r
      <4>1. PICK a \in Calls : CallNext(a)
        <5>1. rpc'[q] # rpc[q]
          BY <1>2, <2>4 DEF Commits, Ending
        <5> QED BY <5>1, CallsMove
      <4>2. rpc'[q] = rpc[q] \/ rpc'[r] = rpc[r]
        BY <3>1, <4>1, OwnCall
      <4> QED BY <1>2, <2>4, <4>2 DEF Commits, Ending
    <3> QED BY <3>1
  <2> QED BY <1>2, <2>1, <2>2, <2>3, <2>4, EndingMoves
<1>3. ASSUME NEW r \in Calls, Ending(rpc'[r]) PROVE rpc'[r].p \in Players
  BY <1>3, EndingMoves DEF TypeOK, Call
<1>4. \A r \in Calls : Ending(rpc[r])' => (ready[rpc[r].p] = "none" /\ ~CleanupPending(rpc[r].p))'
  BY <1>1, <1>3 DEF Ending, CleanupPending
<1> QED BY <1>2, <1>4 DEF EndingAlone, Ending

\* While no login is committed in the middle of a logout, pins are kept.
LEMMA PinsStep ==
  ASSUME RInv, PinsInv, Undisturbed, [Next]_vars
  PROVE  PinsInv'
BY TokensStep, PayloadsEndedStep, PinnedRecordStep, PinnedClaimStep, EndingAloneStep
DEF PinsInv, RInv, IInv

-----------------------------------------------------------------------------
(* Logins.                                                                 *)

\* What EnterScene decides for the login of record s.
Placement(p, s) ==
  decidePlacementIdentity(IF location[p] = NoLocation THEN NoIdentity ELSE IdentityOf(location[p]),
                          location[p] # NoLocation, IdentityOf(s))

\* The location it writes.
PlacedAt(p, id) ==
  [sid |-> id.sid, gen |-> id.gen, released |-> FALSE,
   late |-> session[p] = NoSession \/ session[p].gen < id.gen]

\* How the location of a player changes.
LEMMA LocationChanges ==
  ASSUME TypeOK, [Next]_vars, NEW p \in Players
  PROVE  \/ location'[p] = location[p]
         \/ /\ location[p] # NoLocation /\ session' = session
            /\ location'[p] = [location[p] EXCEPT !.released = TRUE]
         \/ \E r \in Calls :
              /\ EnterScene(r) /\ rpc[r].p = p
              /\ PlacementAdmits(Placement(p, rpc[r].upd))
              /\ location'[p] = PlacedAt(p, Placement(p, rpc[r].upd).identity)
         \/ /\ location'[p] = NoLocation
            /\ \/ \E r \in Calls : /\ MarkOfflineLeave(r) /\ rpc[r].p = p
                                   /\ LeaveSceneVerdict(p, rpc[r].exp) = "delete"
               \/ \E w \in Workers : /\ NotifyLeave(w) \/ NotifyLeaveFails(w)
                                     /\ claim[w].p = p
                                     /\ LeaveSceneVerdict(p, claim[w].payload) = "delete"
<1> DEFINE Same == location'[p] = location[p]
<1>1. ASSUME NEW r \in Calls, EnterScene(r)
      PROVE  \/ Same
             \/ /\ rpc[r].p = p
                /\ PlacementAdmits(Placement(p, rpc[r].upd))
                /\ location'[p] = PlacedAt(p, Placement(p, rpc[r].upd).identity)
  BY <1>1 DEF EnterScene, Placement, PlacedAt, TypeOK
<1>2. ASSUME NEW r \in Calls, MarkOfflineLeave(r)
      PROVE  \/ Same
             \/ /\ location'[p] = NoLocation /\ rpc[r].p = p
                /\ LeaveSceneVerdict(p, rpc[r].exp) = "delete"
  <2>1. PICK v \in {LeaveSceneVerdict(rpc[r].p, rpc[r].exp), "lost"} : LeaveScene(rpc[r].p, v)
    BY <1>2 DEF MarkOfflineLeave
  <2> QED BY <2>1 DEF LeaveScene, TypeOK
<1>3. ASSUME NEW w \in Workers, NotifyLeave(w) \/ NotifyLeaveFails(w)
      PROVE  \/ Same
             \/ /\ location'[p] = NoLocation /\ claim[w].p = p
                /\ LeaveSceneVerdict(p, claim[w].payload) = "delete"
  <2>1. PICK v \in {LeaveSceneVerdict(claim[w].p, claim[w].payload), "lost"} :
          LeaveScene(claim[w].p, v)
    BY <1>3 DEF NotifyLeave, NotifyLeaveFails
  <2> QED BY <2>1 DEF LeaveScene, TypeOK
<1>4. ASSUME NEW r \in Calls, CallNext(r)
      PROVE  Same \/ EnterScene(r) \/ MarkOfflineLeave(r)
  BY <1>4 DEF CallNext, EnterGame, SetSessionGet, ReconnectGet, ReplaceCas, Replay,
     SetDisconnectingGet, SetDisconnectingCas, MarkOfflineGet, MarkOfflineCas, MarkOfflineEnqueue,
     Abort, GiveUp, envVars
<1>5. ASSUME NEW w \in Workers, WorkerNext(w)
      PROVE  Same \/ NotifyLeave(w) \/ NotifyLeaveFails(w)
  BY <1>5 DEF WorkerNext, RoundStep, ClaimExpired, PinPayload, ProbeAny, Probe, RearmClaim,
     CommitExpiry, SendLeaseExpired, AckClaim, RenewClaim, WorkerCrash, envVars
<1>6. ASSUME NEW q \in Players, HolderRelease(q)
      PROVE  \/ Same
             \/ /\ location[p] # NoLocation /\ session' = session
                /\ location'[p] = [location[p] EXCEPT !.released = TRUE]
  BY <1>6 DEF HolderRelease, TypeOK, sessionVars
<1> QED
  BY <1>1, <1>2, <1>3, <1>4, <1>5, <1>6 DEF Next, ReadyElapses, ClaimElapses, RecoverClaim,
     CloseConn, GateLost, vars, envVars

\* An admitted placement records the login of the request or keeps the one
\* that is there.
LEMMA PlacementKnown ==
  ASSUME NEW cur \in Identity, NEW req \in Identity, NEW exists \in BOOLEAN,
         req.gen > 0, exists => cur.gen > 0,
         exists /\ cur.gen = req.gen => cur.sid = req.sid,
         PlacementAdmits(decidePlacementIdentity(cur, exists, req))
  PROVE  LET v == decidePlacementIdentity(cur, exists, req)
         IN \/ v.identity.sid = req.sid /\ v.identity.gen = req.gen
            \/ exists /\ v.identity.sid = cur.sid /\ v.identity.gen = cur.gen
BY DEF decidePlacementIdentity, PlacementAdmits, Verdict, Identity, NoIdentity

LEMMA KnownTypes ==
  ASSUME TypeOK, CallInv, NEW p \in Players
  PROVE  /\ session[p] # NoSession => Known(p, session[p].sid, session[p].gen)
         /\ session[p] # NoSession => session[p].sid \in Nat /\ session[p].gen \in Nat
         /\ claimPayloads[p] # NoSession =>
              /\ Known(p, claimPayloads[p].sid, claimPayloads[p].gen)
              /\ claimPayloads[p].sid \in Nat /\ claimPayloads[p].gen \in Nat
         /\ location[p] # NoLocation =>
              /\ Known(p, location[p].sid, location[p].gen)
              /\ location[p].sid \in Nat /\ location[p].gen \in Nat
         /\ \A r \in Calls : rpc[r] # Idle /\ rpc[r].p = p =>
              /\ rpc[r].upd # NoSession => /\ Known(p, rpc[r].upd.sid, rpc[r].upd.gen)
                                           /\ rpc[r].upd.sid \in Nat /\ rpc[r].upd.gen \in Nat
              /\ rpc[r].exp # NoSession => /\ Known(p, rpc[r].exp.sid, rpc[r].exp.gen)
                                           /\ rpc[r].exp.sid \in Nat /\ rpc[r].exp.gen \in Nat
         /\ \A w \in Workers : claim[w] # Idle /\ claim[w].p = p /\ claim[w].payload # NoSession =>
              /\ Known(p, claim[w].payload.sid, claim[w].payload.gen)
              /\ claim[w].payload.sid \in Nat /\ claim[w].payload.gen \in Nat
BY DEF Known, Bears, TypeOK, Session, Location, Call, Claim

\* What a step of a handler puts into its call.
LEMMA CallKnown ==
  ASSUME TypeOK, CallInv, NEW r \in Calls, CallNext(r), rpc'[r] # Idle, NEW p \in Players,
         rpc'[r].p = p, NEW n \in Nat, NEW g \in Nat,
         Bears(rpc'[r].upd, n, g) \/ Bears(rpc'[r].exp, n, g),
         \A c \in Conns : ~EnterGame(r, p, c)
  PROVE  Known(p, n, g)
<1>1. ASSUME rpc[r] # Idle, rpc[r].p = p,
             \/ rpc'[r].upd = rpc[r].upd
             \/ /\ rpc'[r].upd # NoSession => rpc[r].upd # NoSession
                /\ rpc'[r].upd.sid = rpc[r].upd.sid /\ rpc'[r].upd.gen = rpc[r].upd.gen,
             rpc'[r].exp \in {rpc[r].exp, session[p]}
      PROVE  Known(p, n, g)
  BY <1>1 DEF Known, Bears
<1>2. CASE SetSessionGet(r)
  <2>1. /\ rpc[r] # Idle /\ rpc[r] \in Call
        /\ rpc'[r] = [rpc[r] EXCEPT !.pc = "cas", !.exp = session[rpc[r].p]]
    BY <1>2 DEF SetSessionGet, TypeOK
  <2>2. rpc'[r].p = rpc[r].p /\ rpc'[r].upd = rpc[r].upd /\ rpc'[r].exp = session[rpc[r].p]
    BY <2>1 DEF Call
  <2> QED BY <1>1, <2>1, <2>2
<1>3. CASE ReconnectGet(r)
  <2> DEFINE k == session[rpc[r].p].ver + 1
  <2>1. /\ rpc[r] # Idle /\ rpc[r] \in Call /\ rpc[r].op = "Reconnect"
        /\ \/ rpc'[r] = [rpc[r] EXCEPT !.pc = "enter"]
           \/ rpc'[r] = [rpc[r] EXCEPT !.pc = "cas", !.exp = session[rpc[r].p], !.upd.ver = k]
    BY <1>3 DEF ReconnectGet, TypeOK
  <2>2. rpc[r].upd \in Session /\ rpc[r].upd # NoSession
    BY <2>1, NullAssumption DEF CallInv, CallGood
  <2>3. /\ rpc'[r].p = rpc[r].p /\ rpc'[r].exp \in {rpc[r].exp, session[rpc[r].p]}
        /\ rpc'[r].upd = rpc[r].upd \/ rpc'[r].upd = [rpc[r].upd EXCEPT !.ver = k]
    BY <2>1 DEF Call
  <2>4. rpc'[r].upd.sid = rpc[r].upd.sid /\ rpc'[r].upd.gen = rpc[r].upd.gen
    BY <2>2, <2>3 DEF Session
  <2> QED BY <1>1, <2>1, <2>2, <2>3, <2>4
<1>4. CASE ReplaceCas(r) \/ Replay(r) \/ MarkOfflineCas(r) \/ MarkOfflineLeave(r)
  <2>1. PICK t \in {"get", "enter", "leave", "enqueue"} :
          rpc[r] # Idle /\ rpc[r] \in Call /\ rpc'[r] = [rpc[r] EXCEPT !.pc = t]
    BY <1>4 DEF ReplaceCas, Replay, MarkOfflineCas, MarkOfflineLeave, Goto, Return, TypeOK
  <2>2. rpc'[r].p = rpc[r].p /\ rpc'[r].upd = rpc[r].upd /\ rpc'[r].exp = rpc[r].exp
    BY <2>1 DEF Call
  <2> QED BY <1>1, <2>1, <2>2
<1>5. CASE EnterScene(r) \/ SetDisconnectingCas(r) \/ MarkOfflineEnqueue(r) \/ Abort(r) \/ GiveUp(r)
  BY <1>5 DEF EnterScene, SetDisconnectingCas, MarkOfflineEnqueue, Abort, GiveUp, Return, TypeOK
<1>6. ASSUME NEW q \in Players, NEW c \in Conns, SetDisconnectingGet(r, q, c)
      PROVE  Known(p, n, g)
  <2> DEFINE u == [session[q] EXCEPT !.state = "DISCONNECTING", !.ver = @ + 1]
  <2>1. /\ session[q] \in Session /\ session[q] # NoSession
        /\ rpc'[r] = [op |-> "SetDisconnecting", pc |-> "cas", p |-> q, exp |-> session[q],
                      upd |-> u]
    BY <1>6 DEF SetDisconnectingGet, ReportMatches, TypeOK
  <2>2. u.sid = session[q].sid /\ u.gen = session[q].gen
    BY <2>1 DEF Session
  <2> HIDE DEF u
  <2>3. p = q /\ rpc'[r].exp = session[p] /\ rpc'[r].upd = u
    BY <2>1
  <2> QED BY <2>1, <2>2, <2>3 DEF Known, Bears
<1>7. ASSUME NEW q \in Players, NEW c \in Conns, MarkOfflineGet(r, q, c)
      PROVE  Known(p, n, g)
  <2>1. rpc'[r] = [op |-> "MarkOffline", pc |-> "cas", p |-> q, exp |-> session[q],
                   upd |-> NoSession]
    BY <1>7 DEF MarkOfflineGet, TypeOK
  <2>2. p = q /\ rpc'[r].exp = session[p] /\ rpc'[r].upd = NoSession
    BY <2>1
  <2> QED BY <2>2 DEF Known, Bears
<1>8. ASSUME NEW q \in Players, NEW c \in Conns, EnterGame(r, q, c) PROVE q = p
  BY <1>8 DEF EnterGame, TypeOK
<1> QED BY <1>2, <1>3, <1>4, <1>5, <1>6, <1>7, <1>8 DEF CallNext

\* The placement of a login that is known records a known login.
LEMMA PlacedKnown ==
  ASSUME TypeOK, CallInv, LoginsInv, NEW p \in Players, NEW r \in Calls, rpc[r] # Idle,
         rpc[r].p = p, rpc[r].upd \in Session, PlacementAdmits(Placement(p, rpc[r].upd))
  PROVE  LET id == Placement(p, rpc[r].upd).identity IN Known(p, id.sid, id.gen)
<1> DEFINE s == rpc[r].upd
           cur == IF location[p] = NoLocation THEN NoIdentity ELSE IdentityOf(location[p])
           exists == location[p] # NoLocation
           req == IdentityOf(s)
<1>1. /\ s # NoSession /\ s.sid \in Nat /\ s.gen \in Nat /\ Known(p, s.sid, s.gen)
      /\ exists => /\ location[p].sid \in Nat /\ location[p].gen \in Nat
                   /\ Known(p, location[p].sid, location[p].gen)
  BY KnownTypes, NullAssumption
<1>2. /\ s.gen > 0
      /\ exists => location[p].gen > 0
      /\ exists /\ location[p].gen = s.gen => location[p].sid = s.sid
  BY <1>1 DEF LoginsInv
<1>3. req \in Identity /\ req.sid = s.sid /\ req.gen = s.gen
  BY <1>1 DEF IdentityOf, Identity
<1>4. cur \in Identity /\ (exists => cur.sid = location[p].sid /\ cur.gen = location[p].gen)
  BY <1>1 DEF IdentityOf, Identity, NoIdentity
<1>5. Placement(p, s) = decidePlacementIdentity(cur, exists, req)
  BY DEF Placement
<1> HIDE DEF cur, exists, req
<1>6. exists \in BOOLEAN
  BY DEF exists
<1>7. LET v == decidePlacementIdentity(cur, exists, req)
      IN \/ v.identity.sid = req.sid /\ v.identity.gen = req.gen
         \/ exists /\ v.identity.sid = cur.sid /\ v.identity.gen = cur.gen
  BY <1>2, <1>3, <1>4, <1>5, <1>6, PlacementKnown
<1> QED BY <1>1, <1>3, <1>4, <1>5, <1>7

\* Only EnterGame brings a new login into play.
LEMMA KnownKept ==
  ASSUME RInv, LoginsInv, [Next]_vars, NEW p \in Players, NEW n \in Nat, NEW g \in Nat,
         Known(p, n, g)', \A r \in Calls, c \in Conns : ~EnterGame(r, p, c)
  PROVE  Known(p, n, g)
<1> USE DEF RInv, IInv
<1>1. CASE Bears(session'[p], n, g)
  <2>1. ASSUME NEW r \in Calls, Commits(r), rpc[r].p = p PROVE Known(p, n, g)
    <3>1. session'[p] \in {rpc[r].upd, NoSession} /\ rpc[r] # Idle
      BY <2>1 DEF Commits, Script, WriteSession, TypeOK
    <3> QED BY <1>1, <2>1, <3>1 DEF Known, Bears
  <2> QED BY <1>1, <2>1, RecordChanges DEF Known, Bears
<1>2. CASE Bears(claimPayloads'[p], n, g)
  <2>1. ASSUME NEW r \in Calls, MarkOfflineEnqueue(r), rpc[r].p = p,
               claimPayloads'[p] = RetrySnapshot(rpc[r].exp)
        PROVE  Known(p, n, g)
    <3>1. rpc[r] # Idle /\ rpc[r].exp \in Session
      BY <2>1 DEF MarkOfflineEnqueue, CallInv, CallGood
    <3>2. /\ claimPayloads'[p].sid = rpc[r].exp.sid /\ claimPayloads'[p].gen = rpc[r].exp.gen
          /\ rpc[r].exp # NoSession
      BY <2>1, <3>1, NullAssumption DEF RetrySnapshot, Session
    <3> QED BY <1>2, <2>1, <3>1, <3>2 DEF Known, Bears
  <2> QED BY <1>2, <2>1, PayloadWriters DEF Known, Bears
<1>3. CASE location'[p] # NoLocation /\ location'[p].sid = n /\ location'[p].gen = g
  <2>1. CASE /\ location[p] # NoLocation
             /\ location'[p] = [location[p] EXCEPT !.released = TRUE]
    <3>1. location'[p].sid = location[p].sid /\ location'[p].gen = location[p].gen
      BY <2>1 DEF TypeOK, Location
    <3> QED BY <1>3, <2>1, <3>1 DEF Known
  <2>2. ASSUME NEW r \in Calls, EnterScene(r), rpc[r].p = p,
               PlacementAdmits(Placement(p, rpc[r].upd)),
               location'[p] = PlacedAt(p, Placement(p, rpc[r].upd).identity)
        PROVE  Known(p, n, g)
    <3> DEFINE id == Placement(p, rpc[r].upd).identity
    <3>1. rpc[r] # Idle /\ rpc[r].upd \in Session
      BY <2>2 DEF EnterScene, CallInv, CallGood, TypeOK, Call
    <3>2. Known(p, id.sid, id.gen)
      BY <2>2, <3>1, PlacedKnown
    <3>3. location'[p].sid = id.sid /\ location'[p].gen = id.gen
      BY <2>2 DEF PlacedAt
    <3> QED BY <1>3, <3>2, <3>3
  <2>3. CASE location'[p] = location[p]
    BY <1>3, <2>3 DEF Known
  <2> QED BY <1>3, <2>1, <2>2, <2>3, LocationChanges
<1>4. ASSUME NEW r \in Calls, rpc'[r] # Idle, rpc'[r].p = p,
             Bears(rpc'[r].upd, n, g) \/ Bears(rpc'[r].exp, n, g)
      PROVE  Known(p, n, g)
  <2>1. CASE rpc'[r] = rpc[r]
    BY <1>4, <2>1 DEF Known
  <2>2. CASE CallNext(r)
    BY <1>4, <2>2, CallKnown
  <2> QED BY <2>1, <2>2, CallsMove, OwnCall
<1>5. ASSUME NEW w \in Workers, claim'[w] # Idle, claim'[w].p = p, Bears(claim'[w].payload, n, g)
      PROVE  Known(p, n, g)
  <2>1. CASE PinPayload(w) /\ claim[w] # Idle /\ claim'[w].p = claim[w].p
    <3>1. claim[w] \in Claim
      BY <2>1 DEF TypeOK
    <3>2. claim'[w] = [claim[w] EXCEPT !.pc = "probe",
                         !.payload = IF session[claim[w].p] # NoSession THEN session[claim[w].p]
                                     ELSE claimPayloads[claim[w].p]]
      BY <1>5, <2>1 DEF PinPayload, Drop, TypeOK
    <3>3. claim'[w].payload \in {session[p], claimPayloads[p]}
      BY <1>5, <2>1, <3>1, <3>2 DEF Claim
    <3> QED BY <1>5, <3>3 DEF Known, Bears
  <2> QED BY <1>5, <2>1, PayloadMoves DEF Known, Bears
<1> QED BY <1>1, <1>2, <1>3, <1>4, <1>5 DEF Known, Bears

\* EnterGame mints a generation above all that are known.
LEMMA EnterKnown ==
  ASSUME RInv, LoginsInv, NEW r \in Calls, NEW q \in Players, NEW c \in Conns, EnterGame(r, q, c)
  PROVE  /\ minted'[q] \in Nat /\ minted'[q] > minted[q]
         /\ \A p \in Players : p # q => minted'[p] = minted[p]
         /\ \A n, g \in Nat : Known(q, n, g)' =>
              Known(q, n, g) \/ (n = c[1] /\ g = minted'[q])
<1> USE DEF RInv, IInv
<1> DEFINE floor == IF session[q] = NoSession THEN 0 ELSE session[q].gen
           m == MintLoginGeneration(q, floor)
           s == NewOnlineSession(session[q], c, m)
<1>1. minted[q] \in Nat /\ floor \in Nat
  BY DEF TypeOK, Session
<1>2. m \in Nat /\ m > minted[q]
  BY <1>1 DEF MintLoginGeneration
<1>3. s.sid = c[1] /\ s.gen = m
  BY DEF NewOnlineSession
<1>4. PICK op \in Replacing :
        rpc' = [rpc EXCEPT ![r] = [op |-> op, pc |-> "get", p |-> q, exp |-> NoSession,
                                   upd |-> s]]
  BY DEF EnterGame, Replacing
<1>5. minted' = [minted EXCEPT ![q] = m]
  BY DEF EnterGame
<1> HIDE DEF s, m
<1>6. /\ minted'[q] = m
      /\ \A p \in Players : p # q => minted'[p] = minted[p]
  BY <1>5 DEF TypeOK
<1>7. /\ rpc'[r].upd = s /\ rpc'[r].exp = NoSession
      /\ \A x \in Calls : x # r => rpc'[x] = rpc[x]
  BY <1>4 DEF TypeOK
<1>8. UNCHANGED <<session, claimPayloads, location, claim>>
  BY DEF EnterGame, sessionVars, leaseVars
<1>9. ASSUME NEW n \in Nat, NEW g \in Nat, Known(q, n, g)'
      PROVE  Known(q, n, g) \/ (n = c[1] /\ g = minted'[q])
  BY <1>3, <1>6, <1>7, <1>8, <1>9 DEF Known, Bears
<1> QED BY <1>2, <1>6, <1>9

LEMMA MintedStays ==
  ASSUME [Next]_vars
  PROVE  \/ minted' = minted
         \/ \E r \in Calls, p \in Players, c \in Conns : EnterGame(r, p, c)
BY DEF Next, CallNext, SetSessionGet, ReconnectGet, ReplaceCas, Replay, EnterScene,
   SetDisconnectingGet, SetDisconnectingCas, MarkOfflineGet, MarkOfflineCas, MarkOfflineLeave,
   MarkOfflineEnqueue, Abort, GiveUp, WorkerNext, RoundStep, ClaimExpired, PinPayload, ProbeAny, Probe,
   RearmClaim, CommitExpiry, SendLeaseExpired, NotifyLeave, NotifyLeaveFails, AckClaim, RenewClaim,
   WorkerCrash, ReadyElapses, ClaimElapses, RecoverClaim, HolderRelease, CloseConn, GateLost, vars, envVars

LEMMA LoginsStep ==
  ASSUME RInv, LoginsInv, [Next]_vars
  PROVE  LoginsInv'
<1> USE DEF RInv, IInv
<1> SUFFICES ASSUME NEW p \in Players
             PROVE  /\ \A n, g \in Nat : Known(p, n, g)' => 0 < g /\ g <= minted'[p]
                    /\ \A m, n, g \in Nat : Known(p, m, g)' /\ Known(p, n, g)' => m = n
  BY DEF LoginsInv
<1>0. minted[p] \in Nat
  BY DEF TypeOK
<1>1. CASE \A r \in Calls, c \in Conns : ~EnterGame(r, p, c)
  <2>1. minted'[p] = minted[p]
    BY <1>1, MintedStays, EnterKnown
  <2>2. \A n, g \in Nat : Known(p, n, g)' => Known(p, n, g)
    BY <1>1, KnownKept
  <2> QED BY <2>1, <2>2 DEF LoginsInv
<1>2. ASSUME NEW r \in Calls, NEW c \in Conns, EnterGame(r, p, c)
      PROVE  /\ \A n, g \in Nat : Known(p, n, g)' => 0 < g /\ g <= minted'[p]
             /\ \A m, n, g \in Nat : Known(p, m, g)' /\ Known(p, n, g)' => m = n
  <2>1. /\ minted'[p] \in Nat /\ minted'[p] > minted[p]
        /\ \A n, g \in Nat : Known(p, n, g)' => Known(p, n, g) \/ (n = c[1] /\ g = minted'[p])
    BY <1>2, EnterKnown
  <2>2. \A n, g \in Nat : Known(p, n, g) => 0 < g /\ g <= minted[p]
    BY DEF LoginsInv
  <2>3. \A m, n, g \in Nat : Known(p, m, g) /\ Known(p, n, g) => m = n
    BY DEF LoginsInv
  <2> QED BY <1>0, <2>1, <2>2, <2>3
<1> QED BY <1>1, <1>2

-----------------------------------------------------------------------------
(* No ghosts.                                                              *)

\* LeaveScene for a known login keeps exactly the locations of newer ones.
LEMMA LeaveKeepsNewer ==
  ASSUME TypeOK, CallInv, LoginsInv, NEW p \in Players, NEW s \in Session,
         Known(p, s.sid, s.gen), location[p] # NoLocation
  PROVE  /\ LeaveSceneVerdict(p, s) \in {"kept", "delete", "pending"}
         /\ LeaveSceneVerdict(p, s) = "kept" <=> location[p].gen > s.gen
         /\ location[p].gen \in Nat /\ s.gen \in Nat
<1>1. /\ location[p].sid \in Nat /\ location[p].gen \in Nat /\ s.sid \in Nat /\ s.gen \in Nat
      /\ Known(p, location[p].sid, location[p].gen)
  BY KnownTypes DEF Session
<1>2. /\ location[p].gen > 0 /\ s.gen > 0
      /\ location[p].gen = s.gen => location[p].sid = s.sid
  BY <1>1 DEF LoginsInv
<1>3. LeaveDeletes(decideLeaveIdentity(IdentityOf(location[p]), IdentityOf(s)))
        <=> ~(location[p].gen > s.gen)
  BY <1>1, <1>2 DEF LeaveDeletes, decideLeaveIdentity, IdentityOf
<1> QED BY <1>1, <1>3 DEF LeaveSceneVerdict

\* A location nobody answers for is gone or was written too late.
LEMMA Unanswered ==
  ASSUME NoGhostLocation, NEW p \in Players, ~Answered(p)
  PROVE  location[p] = NoLocation \/ location[p].late
BY DEF NoGhostLocation

LEMMA ConcludesStep ==
  ASSUME ~ReadFaults, GhostInv, Undisturbed, [Next]_vars
  PROVE  Concludes'
<1> USE DEF GhostInv, RInv, IInv, PinsInv
<1> SUFFICES ASSUME NEW v \in Workers, claim'[v] # Idle, Owns(v)'
             PROVE  /\ claim'[v].pc = "rearm" => session'[claim'[v].p] # NoSession
                    /\ claim'[v].pc = "ack" /\ claim'[v].payload # NoSession =>
                         \/ location'[claim'[v].p] = NoLocation
                         \/ location'[claim'[v].p].late
  BY DEF Concludes
<1> SUFFICES ASSUME claim'[v].pc \in {"rearm", "ack"}
             PROVE  /\ claim'[v].pc = "rearm" => session'[claim'[v].p] # NoSession
                    /\ claim'[v].pc = "ack" /\ claim'[v].payload # NoSession =>
                         \/ location'[claim'[v].p] = NoLocation
                         \/ location'[claim'[v].p].late
  OBVIOUS
<1>1. /\ claim[v] # Idle /\ claim[v] \in Claim /\ claim'[v].p = claim[v].p /\ Owns(v)
      /\ claim'[v].token = claim[v].token /\ claim[v].token \in Tokens /\ claim[v].p \in Players
  BY OwnedBefore DEF Continues, TypeOK, Claim
<1>2. PICK p \in Players : p = claim[v].p /\ p = claim'[v].p
  BY <1>1
<1>3. claimTokens'[p] # NoToken
  BY <1>1, <1>2, NullAssumption DEF Owns
<1>4. session[p] \in {NoSession, claim[v].payload} \/ claim[v].pc = "pin"
  BY <1>1, <1>2 DEF ClaimInv, ClaimGood
<1>5. CASE claim'[v] = claim[v]
  <2>1. claim[v].pc = "rearm" => session'[p] # NoSession
    <3>1. ASSUME NEW r \in Calls, Commits(r), rpc[r].p = p PROVE FALSE
      BY <1>3, <3>1, CommitClears
    <3>2. ASSUME NEW w \in Workers, CommitExpiry(w), claim[w].p = p, Owns(w)
          PROVE  claim[v].pc = "commit"
      <4>1. claim[w] # Idle /\ claim[w].pc = "commit"
        BY <3>2 DEF CommitExpiry
      <4>2. w = v
        BY <1>1, <1>2, <3>2, <4>1, OneOwner
      <4> QED BY <4>1, <4>2
    <3>3. session'[p] = session[p] \/ claim[v].pc = "commit"
      BY <3>1, <3>2, RecordChanges
    <3> QED BY <1>1, <1>2, <3>3 DEF Concludes
  <2>2. ASSUME claim[v].pc = "ack", claim[v].payload # NoSession
        PROVE  location'[p] = NoLocation \/ location'[p].late
    <3>1. location[p] = NoLocation \/ location[p].late
      BY <1>1, <1>2, <2>2 DEF Concludes
    <3>2. session[p] = NoSession
      <4>1. ~IsDisconnecting(p) /\ session[p] \in {NoSession, claim[v].payload}
        BY <1>1, <1>2, <2>2 DEF ClaimInv, ClaimGood
      <4>2. claim[v].payload.state = "DISCONNECTING"
        BY <1>1, <2>2 DEF PayloadsEnded
      <4> QED BY <4>1, <4>2 DEF IsDisconnecting
    <3>3. CASE location[p] # NoLocation /\ location'[p] = [location[p] EXCEPT !.released = TRUE]
      BY <3>1, <3>3 DEF TypeOK, Location
    <3>4. ASSUME NEW id, location'[p] = PlacedAt(p, id) PROVE location'[p].late
      <4>1. location'[p].late = (session[p] = NoSession \/ session[p].gen < id.gen)
        BY <3>4 DEF PlacedAt
      <4> QED BY <3>2, <4>1
    <3> QED BY <3>1, <3>3, <3>4, LocationChanges
  <2> QED BY <1>2, <1>5, <2>1, <2>2
<1>6. CASE claim'[v] # claim[v]
  <2>1. RoundStep(v)
    BY <1>6, OwnedBefore DEF RoundStep
  <2>2. CASE ProbeAny(v)
    <3>1. PICK afk, fails : Probe(v, afk, fails) /\ fails \in BOOLEAN
      BY <2>2 DEF ProbeAny
    <3>2. /\ claim'[v] = [claim[v] EXCEPT !.pc = ProbeNext(v, afk, fails)] /\ ~fails
          /\ session' = session
      BY <3>1, FaultsAssumption DEF Probe, TypeOK, sessionVars
    <3>3. claim'[v].pc = ProbeNext(v, afk, fails)
      BY <1>1, <3>2 DEF Claim
    <3>4. claim[v].payload # NoSession => claim[v].payload.state = "DISCONNECTING"
      BY <1>1 DEF PayloadsEnded
    <3>5. claim'[v].pc = "rearm" /\ session[p] # NoSession
      BY <1>2, <3>2, <3>3, <3>4 DEF ProbeNext
    <3> QED BY <1>2, <3>2, <3>5
  <2>3. CASE CommitExpiry(v)
    <3>1. claim'[v] = [claim[v] EXCEPT
            !.pc = IF claim[v].payload = NoSession THEN "ack" ELSE "kick"]
      BY <2>3 DEF CommitExpiry, Drop, TypeOK
    <3> QED BY <1>1, <3>1 DEF Claim
  <2>4. CASE NotifyLeave(v)
    <3> DEFINE s == claim[v].payload
               verdict == LeaveSceneVerdict(p, s)
    <3>1. /\ claim[v].pc = "leave" /\ claim'[v] = [claim[v] EXCEPT !.pc = "ack"]
          /\ verdict # "pending" /\ session' = session
          /\ location'[p] = IF verdict = "delete" THEN NoLocation ELSE location[p]
      BY <1>2, <2>4 DEF NotifyLeave, LeaveScene, TypeOK, sessionVars
    <3>2. claim'[v].pc = "ack"
      BY <1>1, <3>1 DEF Claim
    <3>3. session[p] = NoSession /\ s # NoSession /\ s \in Session
      BY <1>1, <1>2, <3>1 DEF ClaimInv, ClaimGood, Claim
    <3>4. claimPayloads[p] = s
      BY <1>1, <1>2, <3>1 DEF PinnedClaim
    <3>5. ASSUME NEW r \in Calls, Ending(rpc[r]), rpc[r].p = p PROVE FALSE
      BY <3>3, <3>4, <3>5 DEF EndingAlone, CleanupPending
    <3>6. CASE location[p] # NoLocation /\ verdict # "delete"
      <4>1. Known(p, s.sid, s.gen)
        BY <1>1, <1>2, <3>3, KnownTypes
      <4>2. location[p].gen > s.gen /\ location[p].gen \in Nat /\ s.gen \in Nat
        BY <3>1, <3>3, <3>6, <4>1, LeaveKeepsNewer
      <4>3. ~Answered(p)
        BY <3>3, <3>4, <3>5, <4>2 DEF Answered, Ending
      <4>4. location[p].late
        BY <3>6, <4>3, Unanswered
      <4> QED BY <1>2, <3>1, <3>2, <3>6, <4>4
    <3>7. CASE location[p] = NoLocation \/ verdict = "delete"
      BY <1>2, <3>1, <3>2, <3>7
    <3> QED BY <3>6, <3>7
  <2>5. CASE RearmClaim(v) \/ NotifyLeaveFails(v) \/ AckClaim(v) \/ WorkerCrash(v)
    BY <2>5 DEF RearmClaim, NotifyLeaveFails, AckClaim, WorkerCrash, Drop, TypeOK
  <2>6. CASE PinPayload(v)
    BY <1>1, <2>6 DEF PinPayload, Drop, TypeOK, Claim
  <2>7. ASSUME NEW ok \in BOOLEAN, SendLeaseExpired(v, ok) PROVE FALSE
    <3>1. claim'[v] = [claim[v] EXCEPT !.pc = "leave", !.kicked = ok]
      BY <2>7 DEF SendLeaseExpired, TypeOK
    <3> QED BY <1>1, <3>1 DEF Claim
  <2> QED BY <2>1, <2>2, <2>3, <2>4, <2>5, <2>6, <2>7 DEF RoundStep
<1> QED BY <1>5, <1>6

Covers(p, s) == s # NoSession /\ s.gen >= location[p].gen

\* A logout that answers for a location passes it on, or removes it.
LEMMA LogoutAnswers ==
  ASSUME ~HandlerFaults, GhostInv, Undisturbed, [Next]_vars, NEW p \in Players, NEW r \in Calls,
         Ending(rpc[r]), rpc[r].p = p, Covers(p, rpc[r].exp), location[p] # NoLocation,
         location'[p] # NoLocation
  PROVE  \/ Ending(rpc'[r]) /\ rpc'[r].p = p /\ rpc'[r].exp = rpc[r].exp
         \/ claimPayloads'[p] # NoSession /\ claimPayloads'[p].gen = rpc[r].exp.gen
<1> USE DEF GhostInv, RInv, IInv, PinsInv
<1>1. CASE rpc'[r] = rpc[r]
  BY <1>1
<1>2. CASE CallNext(r)
  <2>0. rpc[r] # Idle /\ rpc[r] \in Call /\ rpc[r].pc \in {"leave", "enqueue"}
        /\ rpc[r].op \notin {"SetSession", "Reconnect", "SetDisconnecting"}
        /\ rpc[r].exp \in Session
    BY DEF Ending, TypeOK, Call, CallInv, CallGood
  <2>1. CASE MarkOfflineLeave(r)
    <3> DEFINE verdict == LeaveSceneVerdict(p, rpc[r].exp)
    <3>1. CASE rpc'[r] = [rpc[r] EXCEPT !.pc = "enqueue"]
      <4>1. /\ rpc'[r] \in Call /\ rpc'[r].pc = "enqueue" /\ rpc'[r].p = p
            /\ rpc'[r].exp = rpc[r].exp
        BY <2>0, <3>1 DEF Call
      <4> QED BY <4>1, NullAssumption DEF Ending
    <3>2. CASE rpc'[r] # [rpc[r] EXCEPT !.pc = "enqueue"]
      <4>1. verdict # "pending" /\ LeaveScene(p, verdict)
        BY <2>1, <3>2 DEF MarkOfflineLeave, Goto, TypeOK
      <4>2. verdict = "kept"
        <5>1. Known(p, rpc[r].exp.sid, rpc[r].exp.gen)
          BY <2>0, KnownTypes DEF Covers
        <5>2. verdict \in {"kept", "delete", "pending"}
          BY <2>0, <5>1, LeaveKeepsNewer
        <5>3. verdict # "delete"
          BY <4>1 DEF LeaveScene, TypeOK
        <5> QED BY <4>1, <5>2, <5>3
      <4>3. location[p].gen > rpc[r].exp.gen /\ location[p].gen \in Nat /\ rpc[r].exp.gen \in Nat
        <5>1. Known(p, rpc[r].exp.sid, rpc[r].exp.gen)
          BY <2>0, KnownTypes DEF Covers
        <5> QED BY <2>0, <4>2, <5>1, LeaveKeepsNewer
      <4> QED BY <4>3 DEF Covers
    <3> QED BY <3>1, <3>2
  <2>2. CASE MarkOfflineEnqueue(r)
    <3>1. session[p] = NoSession
      BY DEF Undisturbed
    <3>2. claimPayloads'[p] = RetrySnapshot(rpc[r].exp)
      BY <2>2, <3>1 DEF MarkOfflineEnqueue, enqueueOfflineCleanup, TypeOK
    <3>3. RetrySnapshot(rpc[r].exp).gen = rpc[r].exp.gen
      BY <2>0 DEF RetrySnapshot, Session
    <3>4. RetrySnapshot(rpc[r].exp) \in [sid : Nat, gate : Gates \cup {NoGate},
                                         gen : Nat, ver : Nat,
                                         state : {"ONLINE", "DISCONNECTING"}]
      BY <2>0 DEF RetrySnapshot, Session
    <3> QED BY <3>2, <3>3, <3>4, NullAssumption DEF Session
  <2>3. CASE Abort(r)
    BY <2>0, <2>3 DEF Abort
  <2> QED
    BY <1>2, <2>0, <2>1, <2>2, <2>3 DEF CallNext, EnterGame, SetSessionGet, ReconnectGet,
       ReplaceCas, Replay, EnterScene, SetDisconnectingGet, SetDisconnectingCas, MarkOfflineGet,
       MarkOfflineCas, GiveUp
<1> QED BY <1>1, <1>2, CallsMove, OwnCall

\* A handler that deletes a record is a logout, which goes on to the location.
LEMMA LogoutEnds ==
  ASSUME TypeOK, CallInv, NEW r \in Calls, CallNext(r), Commits(r), NEW p \in Players,
         p = rpc[r].p, session[p] # NoSession, session'[p] = NoSession
  PROVE  Ending(rpc'[r]) /\ rpc'[r].p = p /\ rpc'[r].exp = session[p]
<1>1. /\ rpc[r].op = "MarkOffline" /\ session[p] = rpc[r].exp /\ rpc[r] # Idle
      /\ rpc[r] \in Call /\ rpc[r].pc = "cas"
  BY NullAssumption DEF Commits, Script, WriteSession, TypeOK, CallInv, CallGood, Replacing
<1>2. MarkOfflineCas(r)
  BY <1>1 DEF CallNext, EnterGame, SetSessionGet, ReconnectGet, ReplaceCas, Replay, EnterScene,
     SetDisconnectingGet, SetDisconnectingCas, MarkOfflineGet, MarkOfflineLeave,
     MarkOfflineEnqueue, Abort, GiveUp, sessionVars
<1>3. rpc'[r] = [rpc[r] EXCEPT !.pc = "leave"]
  BY <1>1, <1>2 DEF MarkOfflineCas, Goto, TypeOK
<1>4. /\ rpc'[r] \in Call /\ rpc'[r].pc = "leave" /\ rpc'[r].p = p /\ rpc'[r].exp = session[p]
  BY <1>1, <1>3 DEF Call
<1> QED BY <1>4, NullAssumption DEF Ending

LEMMA NoGhostStep ==
  ASSUME ~ReadFaults, ~HandlerFaults, GhostInv, Undisturbed, [Next]_vars
  PROVE  NoGhostLocation'
<1> USE DEF GhostInv, RInv, IInv, PinsInv
<1> SUFFICES ASSUME NEW p \in Players, location'[p] # NoLocation, ~location'[p].late
             PROVE  Answered(p)'
  BY DEF NoGhostLocation
<1>0. \A s : s # NoSession /\ s.gen >= location'[p].gen /\
               \/ s = session'[p]
               \/ s = claimPayloads'[p]
               \/ \E r \in Calls : Ending(rpc'[r]) /\ rpc'[r].p = p /\ s = rpc'[r].exp
        => Answered(p)'
  BY DEF Answered, Ending
<1>1. ASSUME NEW r \in Calls, EnterScene(r), rpc[r].p = p,
             PlacementAdmits(Placement(p, rpc[r].upd)),
             location'[p] = PlacedAt(p, Placement(p, rpc[r].upd).identity)
      PROVE  Answered(p)'
  <2> DEFINE id == Placement(p, rpc[r].upd).identity
  <2>1. /\ location'[p].gen = id.gen
        /\ location'[p].late = (session[p] = NoSession \/ session[p].gen < id.gen)
    BY <1>1 DEF PlacedAt
  <2>2. session[p] # NoSession /\ ~(session[p].gen < id.gen) /\ session[p].gen \in Nat
    BY <2>1 DEF TypeOK, Session
  <2>3. session' = session
    BY <1>1 DEF EnterScene, sessionVars
  <2>4. id.gen \in Nat
    <3>1. location' \in [Players -> Location \cup {NoLocation}]
      BY TypeStep DEF TypeOK
    <3> QED BY <2>1, <3>1 DEF Location
  <2>5. session'[p].gen >= location'[p].gen
    BY <2>1, <2>2, <2>3, <2>4
  <2> QED BY <1>0, <2>2, <2>3, <2>5
<1>2. ASSUME location[p] # NoLocation, ~location[p].late, location'[p].gen = location[p].gen
      PROVE  Answered(p)'
  <2>1. \A s : Covers(p, s) /\ \/ s = session'[p]
                               \/ s = claimPayloads'[p]
                               \/ \E r \in Calls : /\ Ending(rpc'[r]) /\ rpc'[r].p = p
                                                   /\ s = rpc'[r].exp
          => Answered(p)'
    BY <1>0, <1>2 DEF Covers
  <2>2. /\ location[p].gen \in Nat
        /\ \A s \in Session : s.gen \in Nat
    BY <1>2 DEF TypeOK, Location, Session
  <2>3. CASE Covers(p, session[p])
    <3>1. ASSUME NEW r \in Calls, CallNext(r), Commits(r), rpc[r].p = p PROVE Answered(p)'
      <4>1. CASE session'[p] = NoSession
        <5>1. /\ Ending(rpc'[r]) /\ rpc'[r].p = p /\ rpc'[r].exp = session[p]
          BY <2>3, <3>1, <4>1, LogoutEnds DEF Covers
        <5> QED BY <2>1, <2>3, <5>1
      <4>2. CASE session'[p] # NoSession
        <5>1. session'[p] \in Session /\ session[p] \in Session /\ session'[p].gen >= session[p].gen
          BY <2>2, <2>3, <3>1, <4>2, CommitsRecord DEF Covers, TypeOK
        <5> QED BY <2>1, <2>2, <2>3, <4>2, <5>1 DEF Covers
      <4> QED BY <4>1, <4>2
    <3>2. ASSUME NEW w \in Workers, CommitExpiry(w), claim[w].p = p, Owns(w),
                 session[p] = claim[w].payload, UNCHANGED leaseVars
          PROVE  Answered(p)'
      <4>1. claim[w] # Idle /\ claim[w].pc = "commit"
        BY <3>2 DEF CommitExpiry
      <4>2. claimPayloads'[p] = session[p]
        BY <3>2, <4>1 DEF PinnedClaim, leaseVars
      <4> QED BY <2>1, <2>3, <4>2
    <3> QED BY <2>1, <2>3, <3>1, <3>2, RecordChanges
  <2>4. CASE Covers(p, claimPayloads[p]) /\ ~Covers(p, session[p])
    <3>1. session[p] = NoSession /\ claimPayloads[p] # NoSession /\ CleanupPending(p)
      BY <2>4 DEF PinnedRecord, Covers, CleanupPending
    <3>2. ASSUME NEW r \in Calls, Commits(r), rpc[r].p = p PROVE FALSE
      <4>1. rpc[r] # Idle /\ rpc[r].exp = NoSession
        BY <3>1, <3>2 DEF Commits
      <4>2. rpc[r].op \in Replacing
        BY <3>2, <4>1, NullAssumption
        DEF Commits, Replacing, CallInv, CallGood, ForwardInv, CallForward
      <4> QED BY <3>1, <3>2, <4>1, <4>2 DEF Commits, Replacing
    <3>3. ASSUME NEW w \in Workers, claim[w].p = p, Owns(w),
                 \/ RearmClaim(w) \/ AckClaim(w)
                 \/ CommitExpiry(w) /\ session[p] \notin {NoSession, claim[w].payload}
          PROVE  FALSE
      <4>1. claim[w] # Idle /\ claim[w].pc # "pin"
        BY <3>3 DEF RearmClaim, AckClaim, CommitExpiry
      <4>2. claim[w].payload = claimPayloads[p]
        BY <3>3, <4>1 DEF PinnedClaim
      <4>3. CASE RearmClaim(w)
        BY <3>1, <3>3, <4>1, <4>3 DEF RearmClaim, Concludes
      <4>4. CASE AckClaim(w)
        BY <1>2, <3>1, <3>3, <4>1, <4>2, <4>4 DEF AckClaim, Concludes
      <4> QED BY <3>1, <3>3, <4>3, <4>4
    <3>4. ASSUME NEW r \in Calls, MarkOfflineEnqueue(r), rpc[r].p = p PROVE FALSE
      <4>1. Ending(rpc[r])
        BY <3>4 DEF MarkOfflineEnqueue, Ending
      <4> QED BY <3>1, <3>4, <4>1 DEF EndingAlone
    <3>5. claimPayloads'[p] = claimPayloads[p]
      BY <3>1, <3>2, <3>3, <3>4, PayloadWriters
    <3> QED BY <2>1, <2>4, <3>5
  <2>5. ASSUME NEW r \in Calls, Ending(rpc[r]), rpc[r].p = p, Covers(p, rpc[r].exp)
        PROVE  Answered(p)'
    <3>1. \/ Ending(rpc'[r]) /\ rpc'[r].p = p /\ rpc'[r].exp = rpc[r].exp
          \/ claimPayloads'[p] # NoSession /\ claimPayloads'[p].gen = rpc[r].exp.gen
      BY <1>2, <2>5, LogoutAnswers
    <3>2. CASE Ending(rpc'[r]) /\ rpc'[r].p = p /\ rpc'[r].exp = rpc[r].exp
      BY <2>1, <2>5, <3>2
    <3>3. CASE claimPayloads'[p] # NoSession /\ claimPayloads'[p].gen = rpc[r].exp.gen
      BY <2>1, <2>5, <3>3 DEF Covers
    <3> QED BY <3>1, <3>2, <3>3
  <2>6. Answered(p)
    BY <1>2 DEF NoGhostLocation
  <2> QED BY <2>3, <2>4, <2>5, <2>6 DEF Answered, Covers, Ending
<1>3. CASE location[p] # NoLocation /\ location'[p] = [location[p] EXCEPT !.released = TRUE]
  <2>1. location'[p].gen = location[p].gen /\ location'[p].late = location[p].late
    BY <1>3 DEF TypeOK, Location
  <2> QED BY <1>2, <1>3, <2>1
<1> QED BY <1>1, <1>2, <1>3, LocationChanges

LEMMA GhostStep ==
  ASSUME ~ReadFaults, ~HandlerFaults, GhostInv, Undisturbed, [Next]_vars
  PROVE  GhostInv'
BY StepIInv, ForwardStep, LoginsStep, PinsStep, ConcludesStep, NoGhostStep DEF GhostInv, RInv

LEMMA GhostInit == Init => GhostInv
<1> SUFFICES ASSUME Init PROVE GhostInv
  OBVIOUS
<1>1. RInv
  BY InitIInv DEF RInv, ForwardInv, Init
<1>2. LoginsInv
  BY DEF Init, LoginsInv, Known, Bears
<1>3. PinsInv
  BY DEF Init, PinsInv, TokensDiffer, PayloadsEnded, PinnedRecord, PinnedClaim, EndingAlone, Ending
<1>4. Concludes /\ NoGhostLocation
  BY DEF Init, Concludes, NoGhostLocation
<1> QED BY <1>1, <1>2, <1>3, <1>4 DEF GhostInv

\* For any number of players, handlers, workers and replies lost: where the
\* reads of the monitor and the logout handlers do not fail, and no login is
\* committed in the middle of a logout, the location of a session that is gone
\* is always on somebody's list.
THEOREM NoGhost ==
  ASSUME ~ReadFaults, ~HandlerFaults
  PROVE  Spec /\ []Undisturbed => []NoGhostLocation
<1>1. GhostInv /\ Undisturbed /\ [Next]_vars => GhostInv'
  BY GhostStep
<1>2. GhostInv => NoGhostLocation
  BY DEF GhostInv
<1> QED BY <1>1, <1>2, GhostInit, PTL DEF Spec

-----------------------------------------------------------------------------
(* The location of the live session.                                       *)

\* A session that has ended: it is DISCONNECTING, pinned or in a worker's hand.
Past(p, g) ==
  \/ claimPayloads[p] # NoSession /\ claimPayloads[p].gen = g
  \/ IsDisconnecting(p) /\ session[p].gen = g
  \/ \E w \in Workers : /\ claim[w] # Idle /\ claim[w].p = p
                        /\ claim[w].payload # NoSession /\ claim[w].payload.gen = g

\* The session that is ONLINE, and every login under way, is newer.
PastInv ==
  \A p \in Players : \A g \in Nat : Past(p, g) =>
    /\ IsOnline(p) => g < session[p].gen
    /\ \A r \in Calls : rpc[r] # Idle /\ rpc[r].p = p /\ rpc[r].op \in Replacing
                          => g < rpc[r].upd.gen

LiveInv == RInv /\ LoginsInv /\ PayloadsEnded /\ PastInv /\ Undisturbed

\* A logout alone with its player is not disturbed.
LEMMA UndisturbedStep ==
  ASSUME RInv, Undisturbed, OneAtATime, [Next]_vars
  PROVE  Undisturbed'
<1> USE DEF RInv, IInv
<1> SUFFICES ASSUME NEW r \in Calls, Ending(rpc'[r])
             PROVE  session'[rpc'[r].p] = NoSession
  BY DEF Undisturbed, Ending
<1>1. rpc[r] # Idle /\ rpc'[r].p = rpc[r].p /\ rpc[r].p \in Players
  BY EndingMoves DEF TypeOK, Call
<1>2. PICK p \in Players : p = rpc[r].p
  BY <1>1
<1>3. CASE Ending(rpc[r])
  <2>1. session[p] = NoSession
    BY <1>2, <1>3 DEF Undisturbed
  <2>2. ASSUME NEW q \in Calls, Commits(q), rpc[q].p = p PROVE FALSE
    <3>1. rpc[q] # Idle /\ rpc[q].pc = "cas"
      BY <2>2 DEF Commits
    <3>2. q = r
      BY <1>1, <1>2, <2>2, <3>1 DEF OneAtATime
    <3> QED BY <1>3, <3>1, <3>2 DEF Ending
  <2> QED BY <1>1, <1>2, <2>1, <2>2, RecordChanges
<1>4. CASE Commits(r) /\ rpc[r].op = "MarkOffline"
  BY <1>1, <1>4 DEF Commits, Script, WriteSession, Replacing, TypeOK
<1> QED BY <1>3, <1>4, EndingMoves

\* A login under way keeps its generation.
LEMMA LoginKeepsGeneration ==
  ASSUME TypeOK, CallInv, NEW q \in Calls, CallNext(q), rpc'[q] # Idle, NEW p \in Players,
         rpc'[q].p = p, rpc'[q].op \in Replacing, \A c \in Conns : ~EnterGame(q, p, c)
  PROVE  /\ rpc[q] # Idle /\ rpc[q].p = p /\ rpc[q].op \in Replacing
         /\ rpc'[q].upd.gen = rpc[q].upd.gen
<1>1. CASE SetSessionGet(q)
  <2>1. /\ rpc[q] # Idle /\ rpc[q] \in Call
        /\ rpc'[q] = [rpc[q] EXCEPT !.pc = "cas", !.exp = session[rpc[q].p]]
    BY <1>1 DEF SetSessionGet, TypeOK
  <2> QED BY <2>1 DEF Call
<1>2. CASE ReconnectGet(q)
  <2> DEFINE k == session[rpc[q].p].ver + 1
  <2>1. /\ rpc[q] # Idle /\ rpc[q] \in Call /\ rpc[q].op = "Reconnect"
        /\ \/ rpc'[q] = [rpc[q] EXCEPT !.pc = "enter"]
           \/ rpc'[q] = [rpc[q] EXCEPT !.pc = "cas", !.exp = session[rpc[q].p], !.upd.ver = k]
    BY <1>2 DEF ReconnectGet, TypeOK
  <2>2. rpc[q].upd \in Session
    BY <2>1 DEF CallInv, CallGood
  <2>3. /\ rpc'[q].p = rpc[q].p /\ rpc'[q].op = rpc[q].op
        /\ rpc'[q].upd = rpc[q].upd \/ rpc'[q].upd = [rpc[q].upd EXCEPT !.ver = k]
    BY <2>1 DEF Call
  <2>4. rpc'[q].upd.gen = rpc[q].upd.gen
    BY <2>2, <2>3 DEF Session
  <2> QED BY <2>1, <2>3, <2>4
<1>3. CASE ReplaceCas(q) \/ Replay(q) \/ MarkOfflineCas(q) \/ MarkOfflineLeave(q)
  <2>1. PICK t \in {"get", "enter", "leave", "enqueue"} :
          rpc[q] # Idle /\ rpc[q] \in Call /\ rpc'[q] = [rpc[q] EXCEPT !.pc = t]
    BY <1>3 DEF ReplaceCas, Replay, MarkOfflineCas, MarkOfflineLeave, Goto, Return, TypeOK
  <2> QED BY <2>1 DEF Call
<1>4. CASE EnterScene(q) \/ SetDisconnectingCas(q) \/ MarkOfflineEnqueue(q) \/ Abort(q) \/ GiveUp(q)
  BY <1>4 DEF EnterScene, SetDisconnectingCas, MarkOfflineEnqueue, Abort, GiveUp, Return, TypeOK
<1>5. ASSUME NEW x \in Players, NEW c \in Conns,
             SetDisconnectingGet(q, x, c) \/ MarkOfflineGet(q, x, c)
      PROVE  FALSE
  BY <1>5 DEF SetDisconnectingGet, MarkOfflineGet, Replacing, TypeOK
<1>6. ASSUME NEW x \in Players, NEW c \in Conns, EnterGame(q, x, c) PROVE x = p
  BY <1>6 DEF EnterGame, TypeOK
<1> QED BY <1>1, <1>2, <1>3, <1>4, <1>5, <1>6 DEF CallNext

\* A handler ends, and its player is not ONLINE.
Retires(r, p) ==
  /\ CallNext(r) /\ rpc[r] # Idle /\ rpc[r].p = p /\ rpc'[r] = Idle
  /\ ~IsOnline(p)'

\* Sessions end by a handler that retires; everything else passes them on.
LEMMA PastKept ==
  ASSUME RInv, [Next]_vars, NEW p \in Players, NEW g \in Nat, Past(p, g)'
  PROVE  Past(p, g) \/ \E r \in Calls : Retires(r, p)
<1> USE DEF RInv, IInv
<1>0. ASSUME NEW w \in Workers, PinPayload(w), claim[w].p = p, Owns(w), session[p] # NoSession
      PROVE  IsDisconnecting(p)
  <2>1. ~IsOnline(p)
    BY <1>0, OwnerFacts DEF PinPayload, LeaseInv
  <2> QED BY <1>0, <2>1 DEF IsOnline, IsDisconnecting, TypeOK, Session
<1>1. CASE claimPayloads'[p] # NoSession /\ claimPayloads'[p].gen = g
  <2>1. ASSUME NEW r \in Calls, MarkOfflineEnqueue(r), rpc[r].p = p, session[p] = NoSession
        PROVE  Retires(r, p)
    <3>1. rpc[r] # Idle /\ rpc'[r] = Idle /\ session'[p] = NoSession
      BY <2>1 DEF MarkOfflineEnqueue, Return, sessionVars, TypeOK
    <3> QED BY <2>1, <3>1 DEF Retires, CallNext, IsOnline
  <2> QED BY <1>0, <1>1, <2>1, PayloadWriters DEF Past
<1>2. CASE IsDisconnecting(p)' /\ session'[p].gen = g
  <2>1. CASE session'[p] = session[p]
    BY <1>2, <2>1 DEF Past, IsDisconnecting
  <2>2. ASSUME NEW r \in Calls, CallNext(r), Commits(r), rpc[r].p = p PROVE Retires(r, p)
    <3>1. rpc[r] # Idle /\ rpc[r].pc = "cas" /\ CallGood(rpc[r])
      BY <2>2 DEF Commits, CallInv
    <3>2. session'[p] # NoSession /\ session'[p].state = "DISCONNECTING"
      BY <1>2 DEF IsDisconnecting
    <3>3. rpc[r].op = "SetDisconnecting"
      <4>1. rpc[r].op \in Replacing => session'[p] = rpc[r].upd /\ rpc[r].upd.state = "ONLINE"
        BY <2>2, <3>1 DEF Commits, Script, WriteSession, CallGood, Replacing, TypeOK
      <4>2. rpc[r].op = "MarkOffline" => session'[p] = NoSession
        BY <2>2, <3>1 DEF Commits, Script, WriteSession, Replacing, TypeOK
      <4> QED BY <2>2, <3>2, <4>1, <4>2 DEF Commits
    <3>4. SetDisconnectingCas(r) \/ Abort(r)
      BY <2>2, <3>1, <3>3 DEF CallNext, EnterGame, SetSessionGet, ReconnectGet, ReplaceCas, Replay,
         EnterScene, SetDisconnectingGet, MarkOfflineGet, MarkOfflineCas, MarkOfflineLeave,
         MarkOfflineEnqueue, GiveUp, CallGood
    <3>5. rpc'[r] = Idle
      BY <3>4 DEF SetDisconnectingCas, Abort, Return, TypeOK
    <3> QED BY <2>2, <3>1, <3>2, <3>5 DEF Retires, IsOnline
  <2> QED BY <1>2, <2>1, <2>2, RecordChanges DEF IsDisconnecting
<1>3. ASSUME NEW w \in Workers, claim'[w] # Idle, claim'[w].p = p,
             claim'[w].payload # NoSession, claim'[w].payload.gen = g
      PROVE  Past(p, g)
  <2>1. CASE PinPayload(w) /\ claim[w] # Idle /\ claim'[w].p = claim[w].p
    <3>1. claim[w] \in Claim /\ Owns(w)
      BY <1>3, <2>1 DEF PinPayload, Drop, TypeOK
    <3>2. claim'[w] = [claim[w] EXCEPT !.pc = "probe",
                         !.payload = IF session[claim[w].p] # NoSession THEN session[claim[w].p]
                                     ELSE claimPayloads[claim[w].p]]
      BY <1>3, <2>1 DEF PinPayload, Drop, TypeOK
    <3>3. claim'[w].payload = IF session[p] # NoSession THEN session[p] ELSE claimPayloads[p]
      BY <1>3, <2>1, <3>1, <3>2 DEF Claim
    <3> QED BY <1>0, <1>3, <2>1, <3>1, <3>3 DEF Past
  <2> QED BY <1>3, <2>1, PayloadMoves DEF Past
<1> QED BY <1>1, <1>2, <1>3 DEF Past

LEMMA PastStep ==
  ASSUME LiveInv, OneAtATime, [Next]_vars
  PROVE  PastInv'
<1> USE DEF LiveInv, RInv, IInv
<1> SUFFICES ASSUME NEW p \in Players, NEW g \in Nat, Past(p, g)'
             PROVE  /\ IsOnline(p)' => g < session'[p].gen
                    /\ \A q \in Calls : rpc'[q] # Idle /\ rpc'[q].p = p /\ rpc'[q].op \in Replacing
                                          => g < rpc'[q].upd.gen
  BY DEF PastInv
<1>1. ASSUME NEW r \in Calls, Retires(r, p)
      PROVE  /\ ~IsOnline(p)'
             /\ \A q \in Calls : ~(rpc'[q] # Idle /\ rpc'[q].p = p)
  BY <1>1, OwnCall DEF Retires, OneAtATime
<1>2. ASSUME Past(p, g)
      PROVE  /\ IsOnline(p)' => g < session'[p].gen
             /\ \A q \in Calls : rpc'[q] # Idle /\ rpc'[q].p = p /\ rpc'[q].op \in Replacing
                                   => g < rpc'[q].upd.gen
  <2>1. ASSUME IsOnline(p)' PROVE g < session'[p].gen
    <3>1. CASE session'[p] = session[p]
      BY <1>2, <2>1, <3>1 DEF PastInv, IsOnline
    <3>2. ASSUME NEW r \in Calls, Commits(r), rpc[r].p = p PROVE g < session'[p].gen
      <4>1. rpc[r] # Idle /\ CallGood(rpc[r])
        BY <3>2 DEF Commits, CallInv
      <4>2. rpc[r].op \in Replacing /\ session'[p] = rpc[r].upd
        BY <2>1, <3>2, <4>1, NullAssumption
        DEF Commits, Script, WriteSession, CallGood, IsOnline, TypeOK
      <4> QED BY <1>2, <3>2, <4>1, <4>2 DEF PastInv
    <3> QED BY <2>1, <3>1, <3>2, RecordChanges DEF IsOnline
  <2>2. ASSUME NEW q \in Calls, rpc'[q] # Idle, rpc'[q].p = p, rpc'[q].op \in Replacing
        PROVE  g < rpc'[q].upd.gen
    <3>1. CASE rpc'[q] = rpc[q]
      BY <1>2, <2>2, <3>1 DEF PastInv
    <3>2. ASSUME NEW c \in Conns, EnterGame(q, p, c) PROVE g < rpc'[q].upd.gen
      <4>1. PICK n \in Nat : Known(p, n, g)
        BY <1>2, KnownTypes DEF Past, IsDisconnecting
      <4>2. g <= minted[p] /\ minted[p] \in Nat
        BY <4>1 DEF LoginsInv, TypeOK
      <4>3. minted'[p] \in Nat /\ minted'[p] > minted[p]
        BY <3>2, EnterKnown
      <4>4. rpc'[q].upd.gen = minted'[p]
        <5> DEFINE floor == IF session[p] = NoSession THEN 0 ELSE session[p].gen
                   m == MintLoginGeneration(p, floor)
                   s == NewOnlineSession(session[p], c, m)
        <5>1. PICK op \in Replacing :
                rpc' = [rpc EXCEPT ![q] = [op |-> op, pc |-> "get", p |-> p, exp |-> NoSession,
                                           upd |-> s]]
          BY <3>2 DEF EnterGame, Replacing
        <5>2. minted' = [minted EXCEPT ![p] = m] /\ s.gen = m
          BY <3>2 DEF EnterGame, NewOnlineSession
        <5> HIDE DEF s, m
        <5> QED BY <5>1, <5>2 DEF TypeOK
      <4> QED BY <4>2, <4>3, <4>4
    <3>3. CASE CallNext(q) /\ \A c \in Conns : ~EnterGame(q, p, c)
      <4>1. /\ rpc[q] # Idle /\ rpc[q].p = p /\ rpc[q].op \in Replacing
            /\ rpc'[q].upd.gen = rpc[q].upd.gen
        BY <2>2, <3>3, LoginKeepsGeneration
      <4> QED BY <1>2, <4>1 DEF PastInv
    <3> QED BY <3>1, <3>2, <3>3, CallsMove, OwnCall
  <2> QED BY <2>1, <2>2
<1> QED BY <1>1, <1>2, PastKept

LEMMA LiveStep ==
  ASSUME LiveInv, OneAtATime, [Next]_vars
  PROVE  LiveInv'
BY StepIInv, ForwardStep, LoginsStep, PayloadsEndedStep, PastStep, UndisturbedStep DEF LiveInv, RInv

KeepsLive ==
  \A p \in Players :
    location[p] # NoLocation /\ location'[p] = NoLocation
      => ~(IsOnline(p) /\ session[p].gen = location[p].gen)

LEMMA LiveKeeps ==
  ASSUME LiveInv, [Next]_vars
  PROVE  KeepsLive
<1> USE DEF LiveInv, RInv, IInv
<1> SUFFICES ASSUME NEW p \in Players, location[p] # NoLocation, location'[p] = NoLocation,
                    IsOnline(p), session[p].gen = location[p].gen
             PROVE  FALSE
  BY DEF KeepsLive
<1>1. ASSUME NEW r \in Calls, MarkOfflineLeave(r), rpc[r].p = p PROVE FALSE
  <2>1. Ending(rpc[r])
    BY <1>1 DEF MarkOfflineLeave, Ending
  <2> QED BY <1>1, <2>1 DEF Undisturbed, IsOnline
<1>2. ASSUME NEW w \in Workers, NotifyLeave(w) \/ NotifyLeaveFails(w), claim[w].p = p,
             LeaveSceneVerdict(p, claim[w].payload) = "delete"
      PROVE  FALSE
  <2> DEFINE s == claim[w].payload
  <2>1. claim[w] # Idle /\ claim[w].pc = "leave" /\ s # NoSession /\ s \in Session
    BY <1>2 DEF NotifyLeave, NotifyLeaveFails, ClaimInv, ClaimGood, TypeOK, Claim
  <2>2. Known(p, s.sid, s.gen)
    BY <1>2, <2>1, KnownTypes
  <2>3. ~(location[p].gen > s.gen) /\ location[p].gen \in Nat /\ s.gen \in Nat
    BY <1>2, <2>1, <2>2, LeaveKeepsNewer
  <2>4. s.gen < session[p].gen
    BY <1>2, <2>1, <2>3 DEF PastInv, Past
  <2> QED BY <2>3, <2>4
<1>3. location'[p] # [location[p] EXCEPT !.released = TRUE]
  <2>1. [location[p] EXCEPT !.released = TRUE] \in Location
    BY DEF TypeOK, Location
  <2> QED BY <2>1, NullAssumption
<1>4. ASSUME NEW r \in Calls, EnterScene(r), rpc[r].p = p,
             PlacementAdmits(Placement(p, rpc[r].upd)),
             location'[p] = PlacedAt(p, Placement(p, rpc[r].upd).identity)
      PROVE  FALSE
  <2> DEFINE id == Placement(p, rpc[r].upd).identity
  <2>1. rpc[r] # Idle /\ rpc[r].upd \in Session
    BY <1>4 DEF EnterScene, CallInv, CallGood, TypeOK, Call
  <2>2. Known(p, id.sid, id.gen)
    BY <1>4, <2>1, PlacedKnown
  <2>3. id.sid \in Nat /\ id.gen \in Nat
    BY <2>2 DEF Known, Bears, TypeOK, Session, Location, Call, Claim
  <2>4. PlacedAt(p, id) \in Location
    BY <2>3 DEF PlacedAt, Location
  <2> QED BY <1>4, <2>4, NullAssumption
<1> QED BY <1>1, <1>2, <1>3, <1>4, LocationChanges

LEMMA LiveInit == Init => LiveInv
<1> SUFFICES ASSUME Init PROVE LiveInv
  OBVIOUS
<1>1. RInv /\ LoginsInv /\ PayloadsEnded
  BY GhostInit DEF GhostInv, PinsInv
<1>2. PastInv /\ Undisturbed
  BY DEF Init, PastInv, Past, IsDisconnecting, Undisturbed, Ending
<1> QED BY <1>1, <1>2 DEF LiveInv

\* For any number of players, workers and handlers of which no two serve the
\* same player at once, with every fault allowed: however late the LeaveScene of
\* an earlier session arrives, from whichever worker, it does not take the
\* location of the session that is ONLINE.
THEOREM LiveKept == Spec /\ []OneAtATime => LiveLocationKept
<1>1. LiveInv /\ OneAtATime /\ [Next]_vars => LiveInv'
  BY LiveStep
<1>2. LiveInv /\ [Next]_vars => [KeepsLive]_vars
  BY LiveKeeps
<1> QED BY <1>1, <1>2, LiveInit, PTL DEF Spec, LiveLocationKept, KeepsLive

\* Handlers that do not overlap do not disturb a logout, so for them NoGhost
\* holds as well.
THEOREM NoGhostAlone ==
  ASSUME ~ReadFaults, ~HandlerFaults
  PROVE  Spec /\ []OneAtATime => []NoGhostLocation
<1>1. LiveInv /\ OneAtATime /\ [Next]_vars => LiveInv'
  BY LiveStep
<1>2. LiveInv => Undisturbed
  BY DEF LiveInv
<1>3. Spec /\ []OneAtATime => []Undisturbed
  BY <1>1, <1>2, LiveInit, PTL DEF Spec
<1> QED BY <1>3, NoGhost, PTL
=============================================================================
