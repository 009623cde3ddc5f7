----------------------- MODULE PlayerSession_proofs -----------------------
(***************************************************************************)
(* Proofs about PlayerSession, for any sets of players, gates, connections,*)
(* handlers, workers and tokens, and with every fault allowed.             *)
(***************************************************************************)
EXTENDS PlayerSession, TLAPS

(* Types of the operators the actions are built from.                      *)

\* A record built for a login is a session.
LEMMA NewOnlineSessionType ==
  ASSUME NEW existing \in Session \cup {NoSession}, NEW c \in Conns, NEW g \in Nat
  PROVE  NewOnlineSession(existing, c, g) \in Session
BY ConnsAssumption, NullAssumption DEF NewOnlineSession, Session

\* What rewriting fields of a session gives.
LEMMA SessionFields ==
  ASSUME NEW s \in Session, NEW st \in {"ONLINE", "DISCONNECTING"}, NEW v \in Nat,
         NEW g \in Gates \cup {NoGate}
  PROVE  /\ [s EXCEPT !.ver = v] \in Session
         /\ [s EXCEPT !.state = st, !.ver = v] \in Session
         /\ [s EXCEPT !.state = st, !.gate = g] \in Session
BY DEF Session

\* A handler advanced to another step is still a handler.
LEMMA CallFields ==
  ASSUME NEW x \in Call, NEW q \in {"get", "cas", "enter", "leave", "enqueue"},
         NEW e \in Session \cup {NoSession}
  PROVE  /\ [x EXCEPT !.pc = q] \in Call
         /\ [x EXCEPT !.pc = q, !.exp = e] \in Call
BY DEF Call

\* Moving a player between gate indexes leaves indexes of players and a
\* registry of gates.
LEMMA MoveIndexType ==
  ASSUME TypeOK, NEW p \in Players, NEW from, NEW to, MoveIndex(p, from, to)
  PROVE  gateIndex' \in [Gates -> SUBSET Players] /\ gateRegistry' \in SUBSET Gates
BY DEF TypeOK, MoveIndex

\* A session script (record, index and registry) keeps the types of what it writes.
LEMMA WriteSessionType ==
  ASSUME TypeOK, NEW p \in Players, NEW s \in Session \cup {NoSession}, WriteSession(p, s)
  PROVE  /\ session' \in [Players -> Session \cup {NoSession}]
         /\ gateIndex' \in [Gates -> SUBSET Players]
         /\ gateRegistry' \in SUBSET Gates
<1>1. session' \in [Players -> Session \cup {NoSession}]
  BY DEF WriteSession, TypeOK
<1>2. MoveIndex(p, indexedGate(session[p]), indexedGate(s))
  BY DEF WriteSession
<1> QED
  BY <1>1, <1>2, MoveIndexType

LeaseType ==
  /\ ready \in [Players -> {"none", "waiting", "due"}]
  /\ processing \in [Players -> {"none", "held", "due"}]
  /\ claimTokens \in [Players -> Tokens \cup {NoToken}]
  /\ claimPayloads \in [Players -> Session \cup {NoSession}]

\* Queueing or cancelling the lease keeps the types of the lease keys.
LEMMA SetLeaseType ==
  ASSUME TypeOK, NEW p \in Players, NEW q \in {"none", "waiting", "due"}, SetLease(p, q)
  PROVE  LeaseType'
BY DEF TypeOK, SetLease, LeaseType

\* Deleting the location keeps its type.
LEMMA LeaveSceneType ==
  ASSUME TypeOK, NEW p \in Players, NEW v, LeaveScene(p, v)
  PROVE  location' \in [Players -> Location \cup {NoLocation}]
BY DEF TypeOK, LeaveScene
-----------------------------------------------------------------------------
(* Type correctness, one action at a time.                                 *)

\* Starting an EnterGame chain yields a well-typed call and generation counter.
LEMMA EnterGameType ==
  ASSUME TypeOK, NEW r \in Calls, NEW p \in Players, NEW c \in Conns, EnterGame(r, p, c)
  PROVE  TypeOK'
<1> DEFINE existing == session[p]
           g == MintLoginGeneration(p, IF existing = NoSession THEN 0 ELSE existing.gen)
<1>1. existing \in Session \cup {NoSession} /\ minted[p] \in Nat
  BY DEF TypeOK
<1>2. g \in Nat
  BY <1>1 DEF MintLoginGeneration, Session
<1>3. NewOnlineSession(existing, c, g) \in Session
  BY <1>1, <1>2, NewOnlineSessionType
<1>4. minted' \in [Players -> Nat]
  BY <1>2 DEF EnterGame, TypeOK
<1>5. PICK op \in {"SetSession", "Reconnect"} :
        rpc' = [rpc EXCEPT ![r] = [op |-> op, pc |-> "get", p |-> p, exp |-> NoSession,
                                   upd |-> NewOnlineSession(existing, c, g)]]
  BY DEF EnterGame
<1>6. rpc' \in [Calls -> Call \cup {Idle}]
  BY <1>3, <1>5 DEF TypeOK, Call
<1> QED
  BY <1>4, <1>6 DEF EnterGame, TypeOK, sessionVars, leaseVars

\* The read of SetSession keeps the types.
LEMMA SetSessionGetType ==
  ASSUME TypeOK, NEW r \in Calls, SetSessionGet(r)
  PROVE  TypeOK'
<1>1. rpc[r] \in Call /\ session[rpc[r].p] \in Session \cup {NoSession}
  BY DEF SetSessionGet, TypeOK, Call
<1>2. [rpc[r] EXCEPT !.pc = "cas", !.exp = session[rpc[r].p]] \in Call
  BY <1>1, CallFields
<1>3. rpc' \in [Calls -> Call \cup {Idle}]
  BY <1>2 DEF SetSessionGet, TypeOK
<1> QED
  BY <1>3 DEF SetSessionGet, TypeOK, sessionVars, leaseVars, envVars

\* The read of Reconnect keeps the types; the record it builds is a session.
LEMMA ReconnectGetType ==
  ASSUME TypeOK, CallInv, NEW r \in Calls, ReconnectGet(r)
  PROVE  TypeOK'
<1> DEFINE cur == session[rpc[r].p]
           next == [rpc[r] EXCEPT !.pc = "cas", !.exp = cur, !.upd.ver = cur.ver + 1]
<1>1. rpc[r] \in Call /\ cur \in Session \cup {NoSession}
  BY DEF ReconnectGet, TypeOK, Call
<1>2. [rpc[r] EXCEPT !.pc = "enter"] \in Call
  BY <1>1, CallFields
<1>3. rpc[r].upd \in Session
  BY <1>1 DEF CallInv, CallGood, ReconnectGet
<1>4. ASSUME cur # NoSession PROVE next \in Call
  <2>1. cur.ver + 1 \in Nat
    BY <1>1, <1>4 DEF Session
  <2>2. [rpc[r].upd EXCEPT !.ver = cur.ver + 1] \in Session
    BY <1>3, <2>1 DEF Session
  <2> QED
    BY <1>1, <2>2 DEF Call
<1>5. rpc' \in [Calls -> Call \cup {Idle}]
  BY <1>2, <1>4 DEF ReconnectGet, TypeOK
<1> QED
  BY <1>5 DEF ReconnectGet, TypeOK, sessionVars, leaseVars, envVars

\* replaceSessionAndCancelLease keeps the types.
LEMMA ReplaceCasType ==
  ASSUME TypeOK, NEW r \in Calls, ReplaceCas(r)
  PROVE  TypeOK'
<1>1. rpc[r] \in Call /\ rpc[r].p \in Players /\ rpc[r].upd \in Session \cup {NoSession}
  BY DEF ReplaceCas, TypeOK, Call
<1>2. [rpc[r] EXCEPT !.pc = "enter"] \in Call
  BY <1>1, CallFields
<1>3. rpc' \in [Calls -> Call \cup {Idle}]
  BY <1>2 DEF ReplaceCas, Goto, Return, TypeOK
<1>4. CASE replaceSessionAndCancelLease(rpc[r].p, rpc[r].upd)
  <2>1. WriteSession(rpc[r].p, rpc[r].upd) /\ SetLease(rpc[r].p, "none")
    BY <1>4 DEF replaceSessionAndCancelLease
  <2> QED
    BY <1>1, <1>3, <2>1, WriteSessionType, SetLeaseType
    DEF ReplaceCas, TypeOK, LeaseType, envVars
<1>5. CASE UNCHANGED <<sessionVars, leaseVars>>
  BY <1>3, <1>5 DEF ReplaceCas, TypeOK, sessionVars, leaseVars, envVars
<1> QED
  BY <1>4, <1>5 DEF ReplaceCas
\* EnterScene writes a well-typed location.
LEMMA EnterSceneType ==
  ASSUME TypeOK, CallInv, NEW r \in Calls, EnterScene(r)
  PROVE  TypeOK'
<1> DEFINE p == rpc[r].p
           cur == location[p]
           old == IF cur = NoLocation THEN NoIdentity ELSE IdentityOf(cur)
           v == decidePlacementIdentity(old, cur # NoLocation, IdentityOf(rpc[r].upd))
           placed == [sid |-> v.identity.sid, gen |-> v.identity.gen, released |-> FALSE,
                      late |-> session[p] = NoSession \/ session[p].gen < v.identity.gen]
<1>1. rpc[r] \in Call /\ p \in Players /\ cur \in Location \cup {NoLocation}
  BY DEF EnterScene, TypeOK, Call
<1>2. rpc[r].op \in {"SetSession", "Reconnect"}
  BY <1>1 DEF CallInv, CallGood, EnterScene, Call
<1>3. IdentityOf(rpc[r].upd) \in Identity
  BY <1>2 DEF CallInv, CallGood, EnterScene, IdentityOf, Identity, Session
<1>4. old \in Identity
  BY <1>1 DEF IdentityOf, Identity, NoIdentity, Location
<1>5. v.identity \in Identity
  BY <1>3, <1>4 DEF decidePlacementIdentity, Verdict, Identity, NoIdentity
<1>6. placed \in Location
  BY <1>5 DEF Identity, Location
<1>7. location' \in [Players -> Location \cup {NoLocation}]
  BY <1>1, <1>6 DEF EnterScene, TypeOK
<1>8. rpc' \in [Calls -> Call \cup {Idle}]
  BY DEF EnterScene, Return, TypeOK
<1> QED
  BY <1>7, <1>8 DEF EnterScene, TypeOK, sessionVars, leaseVars

\* Steps that change nothing but the handler that takes them.
LEMMA CallOnlyType ==
  ASSUME TypeOK, NEW r \in Calls, Replay(r) \/ Abort(r)
  PROVE  TypeOK'
<1>1. rpc[r] \in Call
  BY DEF Replay, Abort, TypeOK
<1>2. [rpc[r] EXCEPT !.pc = "get"] \in Call
  BY <1>1, CallFields
<1>3. rpc' \in [Calls -> Call \cup {Idle}]
  BY <1>2 DEF Replay, Abort, Goto, Return, TypeOK
<1> QED
  BY <1>3 DEF Replay, Abort, TypeOK, sessionVars, leaseVars, envVars

\* Giving up on a login keeps the types: a login names a gate instance.
LEMMA GiveUpType ==
  ASSUME TypeOK, CallInv, NEW r \in Calls, GiveUp(r)
  PROVE  TypeOK'
<1>1. rpc[r] \in Call /\ rpc[r].op \in {"SetSession", "Reconnect"}
  BY DEF GiveUp, TypeOK, CallInv, CallGood, Call
<1>2. rpc[r].p \in Players /\ rpc[r].upd.sid \in Nat /\ rpc[r].upd.gate \in Gates
  BY <1>1 DEF GiveUp, CallInv, CallGood, Call, Session
<1>3. reportable' \in SUBSET (Players \X (Nat \X Gates))
  BY <1>2 DEF GiveUp, TypeOK
<1>4. rpc' \in [Calls -> Call \cup {Idle}]
  BY DEF GiveUp, Return, TypeOK
<1> QED
  BY <1>3, <1>4 DEF GiveUp, TypeOK, sessionVars, leaseVars

\* The read of SetDisconnecting keeps the types.
LEMMA SetDisconnectingGetType ==
  ASSUME TypeOK, NEW r \in Calls, NEW p \in Players, NEW c \in Conns,
         SetDisconnectingGet(r, p, c)
  PROVE  TypeOK'
<1>1. session[p] \in Session
  BY DEF SetDisconnectingGet, ReportMatches, TypeOK
<1>2. [session[p] EXCEPT !.state = "DISCONNECTING", !.ver = @ + 1] \in Session
  <2>1. session[p].ver + 1 \in Nat
    BY <1>1 DEF Session
  <2> QED
    BY <1>1, <2>1, SessionFields
<1>3. rpc' \in [Calls -> Call \cup {Idle}]
  BY <1>1, <1>2 DEF SetDisconnectingGet, TypeOK, Call
<1> QED
  BY <1>3 DEF SetDisconnectingGet, TypeOK, sessionVars, leaseVars, envVars

\* The commit of SetDisconnecting keeps the types.
LEMMA SetDisconnectingCasType ==
  ASSUME TypeOK, NEW r \in Calls, SetDisconnectingCas(r)
  PROVE  TypeOK'
<1>1. rpc[r].p \in Players /\ rpc[r].upd \in Session \cup {NoSession}
  BY DEF SetDisconnectingCas, TypeOK, Call
<1>2. rpc' \in [Calls -> Call \cup {Idle}]
  BY DEF SetDisconnectingCas, Return, TypeOK
<1>3. CASE setDisconnecting(rpc[r].p, rpc[r].upd)
  <2>1. WriteSession(rpc[r].p, rpc[r].upd) /\ SetLease(rpc[r].p, "waiting")
    BY <1>3 DEF setDisconnecting
  <2> QED
    BY <1>1, <1>2, <2>1, WriteSessionType, SetLeaseType
    DEF SetDisconnectingCas, TypeOK, LeaseType, envVars
<1>4. CASE UNCHANGED <<sessionVars, leaseVars>>
  BY <1>2, <1>4 DEF SetDisconnectingCas, TypeOK, sessionVars, leaseVars, envVars
<1> QED
  BY <1>3, <1>4 DEF SetDisconnectingCas

\* The read of MarkOffline keeps the types.
LEMMA MarkOfflineGetType ==
  ASSUME TypeOK, NEW r \in Calls, NEW p \in Players, NEW c \in Conns,
         MarkOfflineGet(r, p, c)
  PROVE  TypeOK'
<1>1. rpc' \in [Calls -> Call \cup {Idle}]
  BY DEF MarkOfflineGet, TypeOK, Call
<1> QED
  BY <1>1 DEF MarkOfflineGet, TypeOK, sessionVars, leaseVars, envVars

\* The delete of MarkOffline keeps the types.
LEMMA MarkOfflineCasType ==
  ASSUME TypeOK, NEW r \in Calls, MarkOfflineCas(r)
  PROVE  TypeOK'
<1>1. rpc[r] \in Call /\ rpc[r].p \in Players
  BY DEF MarkOfflineCas, TypeOK, Call
<1>2. [rpc[r] EXCEPT !.pc = "leave"] \in Call
  BY <1>1, CallFields
<1>3. rpc' \in [Calls -> Call \cup {Idle}]
  BY <1>2 DEF MarkOfflineCas, Goto, Return, TypeOK
<1>4. CASE deleteSessionIfUnchanged(rpc[r].p)
  <2>1. WriteSession(rpc[r].p, NoSession) /\ SetLease(rpc[r].p, "none")
    BY <1>4 DEF deleteSessionIfUnchanged
  <2> QED
    BY <1>1, <1>3, <2>1, WriteSessionType, SetLeaseType
    DEF MarkOfflineCas, TypeOK, LeaseType, envVars
<1>5. CASE UNCHANGED <<sessionVars, leaseVars>>
  BY <1>3, <1>5 DEF MarkOfflineCas, TypeOK, sessionVars, leaseVars, envVars
<1> QED
  BY <1>4, <1>5 DEF MarkOfflineCas

\* The LeaveScene of MarkOffline keeps the types.
LEMMA MarkOfflineLeaveType ==
  ASSUME TypeOK, NEW r \in Calls, MarkOfflineLeave(r)
  PROVE  TypeOK'
<1>1. rpc[r] \in Call /\ rpc[r].p \in Players
  BY DEF MarkOfflineLeave, TypeOK, Call
<1>2. [rpc[r] EXCEPT !.pc = "enqueue"] \in Call
  BY <1>1, CallFields
<1>3. rpc' \in [Calls -> Call \cup {Idle}]
  BY <1>2 DEF MarkOfflineLeave, Goto, Return, TypeOK
<1>4. PICK v : LeaveScene(rpc[r].p, v)
  BY DEF MarkOfflineLeave
<1>5. location' \in [Players -> Location \cup {NoLocation}]
  BY <1>1, <1>4, LeaveSceneType
<1> QED
  BY <1>3, <1>5 DEF MarkOfflineLeave, TypeOK, sessionVars, leaseVars

\* Queueing the cleanup keeps the types.
LEMMA MarkOfflineEnqueueType ==
  ASSUME TypeOK, CallInv, NEW r \in Calls, MarkOfflineEnqueue(r)
  PROVE  TypeOK'
<1>1. rpc[r].p \in Players /\ rpc[r].exp \in Session
  BY DEF MarkOfflineEnqueue, TypeOK, Call, CallInv, CallGood
<1>2. RetrySnapshot(rpc[r].exp) \in Session
  BY <1>1 DEF RetrySnapshot, Session
<1>3. rpc' \in [Calls -> Call \cup {Idle}]
  BY DEF MarkOfflineEnqueue, Return, TypeOK
<1>4. /\ ready' \in [Players -> {"none", "waiting", "due"}]
      /\ claimPayloads' \in [Players -> Session \cup {NoSession}]
  BY <1>1, <1>2 DEF MarkOfflineEnqueue, enqueueOfflineCleanup, TypeOK
<1> QED
  BY <1>3, <1>4 DEF MarkOfflineEnqueue, TypeOK, sessionVars, envVars
\* Steps of time, of the holder of the player and of the connections.
LEMMA EnvironmentType ==
  ASSUME TypeOK,
         \/ \E p \in Players : \/ ReadyElapses(p) \/ ClaimElapses(p)
                               \/ RecoverClaim(p) \/ HolderRelease(p)
         \/ \E c \in Conns : CloseConn(c)
         \/ \E g \in Gates : GateLost(g)
  PROVE  TypeOK'
<1>1. ASSUME NEW p \in Players, ReadyElapses(p) PROVE TypeOK'
  BY <1>1 DEF ReadyElapses, TypeOK, sessionVars, envVars
<1>2. ASSUME NEW p \in Players, ClaimElapses(p) PROVE TypeOK'
  BY <1>2 DEF ClaimElapses, TypeOK, sessionVars, envVars
<1>3. ASSUME NEW p \in Players, RecoverClaim(p) PROVE TypeOK'
  BY <1>3 DEF RecoverClaim, TypeOK, sessionVars, envVars
<1>4. ASSUME NEW p \in Players, HolderRelease(p) PROVE TypeOK'
  <2>1. location[p] \in Location
    BY <1>4 DEF HolderRelease, TypeOK
  <2>2. [location[p] EXCEPT !.released = TRUE] \in Location
    BY <2>1 DEF Location
  <2>3. location' \in [Players -> Location \cup {NoLocation}]
    BY <1>4, <2>2 DEF HolderRelease, TypeOK
  <2> QED
    BY <1>4, <2>3 DEF HolderRelease, TypeOK, sessionVars, leaseVars
<1>5. ASSUME NEW c \in Conns, CloseConn(c) PROVE TypeOK'
  BY <1>5, ConnsAssumption DEF CloseConn, TypeOK, sessionVars, leaseVars
<1>6. ASSUME NEW g \in Gates, GateLost(g) PROVE TypeOK'
  BY <1>6, ConnsAssumption DEF GateLost, TypeOK, sessionVars, leaseVars
<1> QED
  BY <1>1, <1>2, <1>3, <1>4, <1>5, <1>6

\* A claim advanced to another step is still a claim.
LEMMA ClaimFields ==
  ASSUME NEW x \in Claim, NEW s \in Session \cup {NoSession}, NEW b \in BOOLEAN,
         NEW q \in {"pin", "probe", "rearm", "commit", "kick", "leave", "ack"}
  PROVE  /\ [x EXCEPT !.pc = q] \in Claim
         /\ [x EXCEPT !.pc = q, !.payload = s] \in Claim
         /\ [x EXCEPT !.pc = q, !.kicked = b] \in Claim
BY DEF Claim

\* A claim taken by a worker is well typed.
LEMMA ClaimExpiredType ==
  ASSUME TypeOK, NEW w \in Workers, NEW p \in Players, ClaimExpired(w, p)
  PROVE  TypeOK'
<1>1. PICK t \in FreshTokens :
        /\ claimTokens' = [claimTokens EXCEPT ![p] = t]
        /\ claim' = [claim EXCEPT ![w] = [pc |-> "pin", p |-> p, token |-> t,
                                          payload |-> NoSession, kicked |-> FALSE]]
  BY DEF ClaimExpired
<1>2. t \in Tokens
  BY DEF FreshTokens
<1>3. claim' \in [Workers -> Claim \cup {Idle}]
  BY <1>1, <1>2 DEF TypeOK, Claim
<1> QED
  BY <1>1, <1>2, <1>3 DEF ClaimExpired, TypeOK, sessionVars, envVars

\* Pinning the payload of a claim keeps the types.
LEMMA PinPayloadType ==
  ASSUME TypeOK, NEW w \in Workers, PinPayload(w)
  PROVE  TypeOK'
<1> DEFINE p == claim[w].p
           payload == IF session[p] # NoSession THEN session[p] ELSE claimPayloads[p]
<1>1. claim[w] \in Claim /\ p \in Players
  BY DEF PinPayload, TypeOK, Claim
<1>2. payload \in Session \cup {NoSession}
  BY <1>1 DEF TypeOK
<1>3. [claim[w] EXCEPT !.pc = "probe", !.payload = payload] \in Claim
  BY <1>1, <1>2, ClaimFields
<1>4. claim' \in [Workers -> Claim \cup {Idle}]
  BY <1>3 DEF PinPayload, Drop, TypeOK
<1>5. claimPayloads' \in [Players -> Session \cup {NoSession}]
  BY <1>1, <1>2 DEF PinPayload, TypeOK
<1> QED
  BY <1>4, <1>5 DEF PinPayload, TypeOK, sessionVars, envVars

\* The AFK probe only moves the round of the worker.
LEMMA ProbeType ==
  ASSUME TypeOK, NEW w \in Workers, ProbeAny(w)
  PROVE  TypeOK'
<1>1. PICK afk, readFails : Probe(w, afk, readFails)
  BY DEF ProbeAny
<1>2. claim[w] \in Claim
  BY <1>1 DEF Probe, TypeOK
<1>3. ProbeNext(w, afk, readFails) \in {"commit", "ack", "rearm"}
  BY DEF ProbeNext
<1>4. [claim[w] EXCEPT !.pc = ProbeNext(w, afk, readFails)] \in Claim
  BY <1>2, <1>3, ClaimFields
<1>5. claim' \in [Workers -> Claim \cup {Idle}]
  BY <1>1, <1>4 DEF Probe, TypeOK
<1> QED
  BY <1>1, <1>5 DEF Probe, TypeOK, sessionVars, leaseVars, envVars

\* Steps that give the claim up, with or without removing it.
LEMMA DropType ==
  ASSUME TypeOK, NEW w \in Workers, RearmClaim(w) \/ AckClaim(w) \/ WorkerCrash(w)
  PROVE  TypeOK'
<1>1. claim' \in [Workers -> Claim \cup {Idle}]
  BY DEF RearmClaim, AckClaim, WorkerCrash, Drop, TypeOK
<1>2. claim[w] # Idle /\ claim[w].p \in Players
  BY DEF RearmClaim, AckClaim, WorkerCrash, TypeOK, Claim
<1>3. LeaseType'
  BY <1>2 DEF RearmClaim, AckClaim, WorkerCrash, ClaimGone, LeaseType, leaseVars, TypeOK
<1> QED
  BY <1>1, <1>3 DEF RearmClaim, AckClaim, WorkerCrash, LeaseType, TypeOK, sessionVars, envVars

\* Deleting the expired session keeps the types.
LEMMA CommitExpiryType ==
  ASSUME TypeOK, NEW w \in Workers, CommitExpiry(w)
  PROVE  TypeOK'
<1>1. claim[w] \in Claim /\ claim[w].p \in Players
  BY DEF CommitExpiry, TypeOK, Claim
<1>2. [claim[w] EXCEPT !.pc = "ack"] \in Claim /\ [claim[w] EXCEPT !.pc = "kick"] \in Claim
  BY <1>1, ClaimFields
<1>3. claim' \in [Workers -> Claim \cup {Idle}]
  BY <1>2 DEF CommitExpiry, Drop, TypeOK
<1>4. session' \in [Players -> Session \cup {NoSession}]
  BY <1>1 DEF CommitExpiry, TypeOK
<1>5. LeaseType'
  BY <1>1 DEF CommitExpiry, ClaimGone, LeaseType, leaseVars, TypeOK
<1> QED
  BY <1>3, <1>4, <1>5 DEF CommitExpiry, LeaseType, TypeOK, envVars

\* The two notifications, rearm and acknowledge keep the types.
LEMMA SideEffectsType ==
  ASSUME TypeOK, NEW w \in Workers,
         \/ \E ok \in BOOLEAN : SendLeaseExpired(w, ok)
         \/ NotifyLeave(w)
         \/ NotifyLeaveFails(w)
  PROVE  TypeOK'
<1>1. claim[w] \in Claim /\ claim[w].p \in Players
  BY DEF SendLeaseExpired, NotifyLeave, NotifyLeaveFails, TypeOK, Claim
<1>2. ASSUME NEW ok \in BOOLEAN, SendLeaseExpired(w, ok) PROVE TypeOK'
  <2>1. [claim[w] EXCEPT !.pc = "leave", !.kicked = ok] \in Claim
    BY <1>1, ClaimFields
  <2>2. claim' \in [Workers -> Claim \cup {Idle}]
    BY <1>2, <2>1 DEF SendLeaseExpired, TypeOK
  <2> QED
    BY <1>2, <2>2 DEF SendLeaseExpired, TypeOK, sessionVars, leaseVars, envVars
<1>3. ASSUME NotifyLeave(w) \/ NotifyLeaveFails(w) PROVE TypeOK'
  <2>1. [claim[w] EXCEPT !.pc = "ack"] \in Claim
    BY <1>1, ClaimFields
  <2>2. claim' \in [Workers -> Claim \cup {Idle}]
    BY <1>3, <2>1 DEF NotifyLeave, NotifyLeaveFails, Drop, TypeOK
  <2>3. PICK v : LeaveScene(claim[w].p, v)
    BY <1>3 DEF NotifyLeave, NotifyLeaveFails
  <2>4. location' \in [Players -> Location \cup {NoLocation}]
    BY <1>1, <2>3, LeaveSceneType
  <2> QED
    BY <1>3, <2>2, <2>4 DEF NotifyLeave, NotifyLeaveFails, TypeOK, sessionVars, leaseVars
<1> QED
  BY <1>2, <1>3

\* Renewing a claim keeps the types.
LEMMA RenewClaimType ==
  ASSUME TypeOK, NEW w \in Workers, RenewClaim(w)
  PROVE  TypeOK'
<1>1. claim[w].p \in Players
  BY DEF RenewClaim, TypeOK, Claim
<1> QED
  BY <1>1 DEF RenewClaim, TypeOK, sessionVars, envVars

\* Every step keeps the type invariant.
LEMMA TypeStep == TypeOK /\ CallInv /\ [Next]_vars => TypeOK'
<1> SUFFICES ASSUME TypeOK, CallInv, [Next]_vars PROVE TypeOK'
  OBVIOUS
<1>1. ASSUME NEW r \in Calls, CallNext(r) PROVE TypeOK'
  BY <1>1, EnterGameType, SetSessionGetType, ReconnectGetType, ReplaceCasType, CallOnlyType,
     EnterSceneType, GiveUpType, SetDisconnectingGetType, SetDisconnectingCasType, MarkOfflineGetType,
     MarkOfflineCasType, MarkOfflineLeaveType, MarkOfflineEnqueueType
  DEF CallNext
<1>2. ASSUME NEW w \in Workers, WorkerNext(w) PROVE TypeOK'
  BY <1>2, ClaimExpiredType, PinPayloadType, ProbeType, DropType, CommitExpiryType,
     SideEffectsType, RenewClaimType
  DEF WorkerNext, RoundStep
<1>3. CASE UNCHANGED vars
  BY <1>3 DEF vars, TypeOK
<1> QED
  BY <1>1, <1>2, <1>3, EnvironmentType DEF Next
-----------------------------------------------------------------------------
(* What handlers carry.                                                    *)

\* CallInv only depends on the calls and on which connections were reported.
LEMMA NoCallMoves ==
  ASSUME CallInv, rpc' = rpc, reportable \subseteq reportable'
  PROVE  CallInv'
BY DEF CallInv, CallGood, Reported

\* Every step keeps CallInv: what a handler in flight has read and built.
LEMMA CallInvStep == TypeOK /\ CallInv /\ GateKnown /\ [Next]_vars => CallInv'
<1> SUFFICES ASSUME TypeOK, CallInv, GateKnown, [Next]_vars PROVE CallInv'
  OBVIOUS
<1>1. ASSUME NEW r \in Calls, NEW p \in Players, NEW c \in Conns, EnterGame(r, p, c)
      PROVE  CallInv'
  <2> DEFINE existing == session[p]
             g == MintLoginGeneration(p, IF existing = NoSession THEN 0 ELSE existing.gen)
             s == NewOnlineSession(existing, c, g)
  <2>1. existing \in Session \cup {NoSession} /\ minted[p] \in Nat
    BY DEF TypeOK
  <2>2. g \in Nat
    BY <2>1 DEF MintLoginGeneration, Session
  <2>3. s \in Session
    BY <2>1, <2>2, NewOnlineSessionType
  <2>4. s.state = "ONLINE" /\ s.gate # NoGate
    BY ConnsAssumption, NullAssumption DEF NewOnlineSession
  <2>5. PICK op \in {"SetSession", "Reconnect"} :
          rpc' = [rpc EXCEPT ![r] = [op |-> op, pc |-> "get", p |-> p, exp |-> NoSession,
                                     upd |-> s]]
    BY <1>1 DEF EnterGame
  <2> DEFINE x == [op |-> op, pc |-> "get", p |-> p, exp |-> NoSession, upd |-> s]
  <2>6. x.op = op /\ x.pc = "get" /\ x.upd = s
    OBVIOUS
  <2> HIDE DEF s, g, existing
  <2> SUFFICES ASSUME NEW q \in Calls, rpc'[q] # Idle PROVE CallGood(rpc[q])'
    BY DEF CallInv
  <2>7. CASE q = r
    BY <2>3, <2>4, <2>5, <2>7 DEF TypeOK, CallGood
  <2>8. CASE q # r
    <3>1. rpc'[q] = rpc[q] /\ reportable' = reportable
      BY <1>1, <2>5, <2>8 DEF TypeOK, EnterGame
    <3> QED
      BY <3>1 DEF CallInv, CallGood, Reported
  <2> QED
    BY <2>7, <2>8
<1>2. ASSUME NEW r \in Calls, SetSessionGet(r) \/ ReconnectGet(r) PROVE CallInv'
  <2>1. rpc[r] # Idle /\ rpc[r] \in Call /\ CallGood(rpc[r])
    BY <1>2 DEF SetSessionGet, ReconnectGet, CallInv, TypeOK
  <2>2. reportable' = reportable
    BY <1>2 DEF SetSessionGet, ReconnectGet, envVars
  <2>3. /\ rpc[r].op \in {"SetSession", "Reconnect"} /\ rpc[r].upd \in Session
        /\ rpc[r].upd.state = "ONLINE" /\ rpc[r].upd.gate # NoGate
    BY <1>2, <2>1 DEF SetSessionGet, ReconnectGet, CallGood
  <2>4. ASSUME NEW e PROVE LET y == [rpc[r] EXCEPT !.pc = "cas", !.exp = e]
                           IN y.op = rpc[r].op /\ y.pc = "cas" /\ y.upd = rpc[r].upd
    BY <2>1 DEF Call
  <2>5. LET y == [rpc[r] EXCEPT !.pc = "enter"]
        IN y.op = rpc[r].op /\ y.pc = "enter" /\ y.upd = rpc[r].upd
    BY <2>1 DEF Call
  <2> SUFFICES ASSUME NEW q \in Calls, rpc'[q] # Idle PROVE CallGood(rpc[q])'
    BY DEF CallInv
  <2>6. CASE q # r
    <3>1. rpc'[q] = rpc[q]
      BY <1>2, <2>6 DEF SetSessionGet, ReconnectGet, TypeOK
    <3> QED
      BY <2>2, <3>1 DEF CallInv, CallGood, Reported
  <2>7. CASE q = r /\ SetSessionGet(r)
    <3>1. rpc'[q] = [rpc[r] EXCEPT !.pc = "cas", !.exp = session[rpc[r].p]]
      BY <2>7 DEF SetSessionGet, TypeOK
    <3> QED
      BY <2>3, <2>4, <3>1 DEF CallGood
  <2>8. CASE q = r /\ ReconnectGet(r)
    <3> DEFINE cur == session[rpc[r].p]
    <3>1. \/ rpc'[q] = [rpc[r] EXCEPT !.pc = "enter"]
          \/ /\ cur # NoSession
             /\ rpc'[q] = [rpc[r] EXCEPT !.pc = "cas", !.exp = cur, !.upd.ver = cur.ver + 1]
      BY <2>8 DEF ReconnectGet, TypeOK
    <3>2. CASE rpc'[q] = [rpc[r] EXCEPT !.pc = "enter"]
      BY <2>3, <2>5, <3>2 DEF CallGood
    <3>3. CASE /\ cur # NoSession
               /\ rpc'[q] = [rpc[r] EXCEPT !.pc = "cas", !.exp = cur, !.upd.ver = cur.ver + 1]
      <4>1. cur.ver + 1 \in Nat
        BY <2>1, <3>3 DEF Call, TypeOK, Session
      <4>2. [rpc[r].upd EXCEPT !.ver = cur.ver + 1] \in Session
        BY <2>3, <4>1, SessionFields
      <4>3. LET u == [rpc[r].upd EXCEPT !.ver = cur.ver + 1]
            IN u.state = rpc[r].upd.state /\ u.gate = rpc[r].upd.gate
        BY <2>3 DEF Session
      <4>4. /\ rpc'[q].op = rpc[r].op /\ rpc'[q].pc = "cas"
            /\ rpc'[q].upd = [rpc[r].upd EXCEPT !.ver = cur.ver + 1]
        BY <2>1, <3>3 DEF Call
      <4> QED
        BY <2>3, <4>2, <4>3, <4>4 DEF CallGood
    <3> QED
      BY <3>1, <3>2, <3>3
  <2> QED
    BY <1>2, <2>6, <2>7, <2>8
<1>3. ASSUME NEW r \in Calls,
             ReplaceCas(r) \/ Replay(r) \/ MarkOfflineCas(r) \/ MarkOfflineLeave(r)
      PROVE  CallInv'
  <2>1. rpc[r] # Idle /\ rpc[r] \in Call /\ CallGood(rpc[r])
    BY <1>3 DEF ReplaceCas, Replay, MarkOfflineCas, MarkOfflineLeave, CallInv, TypeOK
  <2>2. reportable' = reportable
    BY <1>3 DEF ReplaceCas, Replay, MarkOfflineCas, MarkOfflineLeave, envVars
  <2>3. PICK x \in {Idle} \cup {[rpc[r] EXCEPT !.pc = q] : q \in {"get", "enter", "leave", "enqueue"}} :
          /\ rpc' = [rpc EXCEPT ![r] = x]
          /\ rpc[r].op \in {"SetSession", "Reconnect"}
               => x \in {Idle} \cup {[rpc[r] EXCEPT !.pc = q] : q \in {"get", "enter"}}
          /\ rpc[r].op = "MarkOffline"
               => x \in {Idle} \cup {[rpc[r] EXCEPT !.pc = q] : q \in {"leave", "enqueue"}}
    <3>1. CASE ReplaceCas(r)
      BY <3>1 DEF ReplaceCas, Goto, Return
    <3>2. CASE Replay(r)
      BY <2>1, <3>2 DEF Replay, Goto, CallGood
    <3>3. CASE MarkOfflineCas(r) \/ MarkOfflineLeave(r)
      BY <3>3 DEF MarkOfflineCas, MarkOfflineLeave, Goto, Return
    <3> QED
      BY <1>3, <3>1, <3>2, <3>3
  <2>4. rpc[r].op # "SetDisconnecting"
    BY <1>3, <2>1 DEF ReplaceCas, Replay, MarkOfflineCas, MarkOfflineLeave, CallGood
  <2>5. ASSUME NEW q PROVE LET y == [rpc[r] EXCEPT !.pc = q]
                           IN /\ y.op = rpc[r].op /\ y.pc = q
                              /\ y.upd = rpc[r].upd /\ y.exp = rpc[r].exp
    BY <2>1 DEF Call
  <2> SUFFICES ASSUME NEW q \in Calls, rpc'[q] # Idle PROVE CallGood(rpc[q])'
    BY DEF CallInv
  <2>6. CASE q # r
    <3>1. rpc'[q] = rpc[q]
      BY <2>3, <2>6 DEF TypeOK
    <3> QED
      BY <2>2, <3>1 DEF CallInv, CallGood, Reported
  <2>7. CASE q = r
    <3>1. PICK t \in {"get", "enter", "leave", "enqueue"} :
            /\ rpc'[q] = [rpc[r] EXCEPT !.pc = t]
            /\ rpc'[q].pc = t
      BY <2>3, <2>5, <2>7 DEF TypeOK
    <3>0. rpc'[q] = x
      BY <2>3, <2>7 DEF TypeOK
    <3>2. ASSUME rpc[r].op \in {"SetSession", "Reconnect"} PROVE rpc'[q].pc \in {"get", "enter"}
      <4>1. PICK u \in {"get", "enter"} : x = [rpc[r] EXCEPT !.pc = u]
        BY <2>3, <3>0, <3>2
      <4> QED BY <2>5, <3>0, <4>1
    <3>3. ASSUME rpc[r].op = "MarkOffline" PROVE rpc'[q].pc \in {"leave", "enqueue"}
      <4>1. PICK u \in {"leave", "enqueue"} : x = [rpc[r] EXCEPT !.pc = u]
        BY <2>3, <3>0, <3>3
      <4> QED BY <2>5, <3>0, <4>1
    <3>4. /\ rpc'[q].op = rpc[r].op
          /\ rpc'[q].upd = rpc[r].upd
          /\ rpc'[q].exp = rpc[r].exp
      BY <2>5, <3>1
    <3> QED
      BY <2>1, <2>4, <3>2, <3>3, <3>4 DEF CallGood
  <2> QED
    BY <2>6, <2>7
<1>4. ASSUME NEW r \in Calls,
             \/ EnterScene(r) \/ SetDisconnectingCas(r) \/ MarkOfflineEnqueue(r)
             \/ Abort(r) \/ GiveUp(r)
      PROVE  CallInv'
  <2>1. rpc' = [rpc EXCEPT ![r] = Idle] /\ reportable \subseteq reportable'
    BY <1>4 DEF EnterScene, SetDisconnectingCas, MarkOfflineEnqueue, Abort, GiveUp, Return,
       envVars
  <2> QED
    BY <2>1 DEF CallInv, CallGood, Reported, TypeOK
<1>5. ASSUME NEW r \in Calls, NEW p \in Players, NEW c \in Conns, SetDisconnectingGet(r, p, c)
      PROVE  CallInv'
  <2> DEFINE u == [session[p] EXCEPT !.state = "DISCONNECTING", !.ver = @ + 1]
  <2>1. session[p] \in Session /\ session[p].gate # NoGate
    BY <1>5 DEF SetDisconnectingGet, ReportMatches, TypeOK, GateKnown
  <2>2. session[p].ver + 1 \in Nat
    BY <2>1 DEF Session
  <2>3. u \in Session
    BY <2>1, <2>2, SessionFields
  <2>4. u.state = "DISCONNECTING" /\ u.sid = session[p].sid /\ u.gate = session[p].gate
    BY <2>1 DEF Session
  <2>5. c = <<session[p].sid, session[p].gate>> /\ <<p, c>> \in reportable
    BY <1>5, <2>1, ConnsAssumption, NullAssumption
    DEF SetDisconnectingGet, ReportMatches, isStaleGateInstanceReport
  <2>6. Reported(p, u)
    BY <2>4, <2>5 DEF Reported
  <2>7. rpc' = [rpc EXCEPT ![r] = [op |-> "SetDisconnecting", pc |-> "cas", p |-> p,
                                   exp |-> session[p], upd |-> u]]
        /\ reportable' = reportable
    BY <1>5 DEF SetDisconnectingGet, envVars
  <2> HIDE DEF u
  <2> SUFFICES ASSUME NEW q \in Calls, rpc'[q] # Idle PROVE CallGood(rpc[q])'
    BY DEF CallInv
  <2>8. CASE q = r
    BY <2>1, <2>3, <2>4, <2>6, <2>7, <2>8 DEF TypeOK, CallGood, Reported
  <2>9. CASE q # r
    BY <2>7, <2>9 DEF TypeOK, CallInv, CallGood, Reported
  <2> QED
    BY <2>8, <2>9
<1>6. ASSUME NEW r \in Calls, NEW p \in Players, NEW c \in Conns, MarkOfflineGet(r, p, c)
      PROVE  CallInv'
  <2>1. session[p] \in Session
    BY <1>6 DEF MarkOfflineGet, ReportMatches, TypeOK
  <2>2. rpc' = [rpc EXCEPT ![r] = [op |-> "MarkOffline", pc |-> "cas", p |-> p,
                                   exp |-> session[p], upd |-> NoSession]]
        /\ reportable' = reportable
    BY <1>6 DEF MarkOfflineGet, envVars
  <2> SUFFICES ASSUME NEW q \in Calls, rpc'[q] # Idle PROVE CallGood(rpc[q])'
    BY DEF CallInv
  <2>3. CASE q = r
    BY <2>1, <2>2, <2>3 DEF TypeOK, CallGood
  <2>4. CASE q # r
    BY <2>2, <2>4 DEF TypeOK, CallInv, CallGood, Reported
  <2> QED
    BY <2>3, <2>4
<1>7. ASSUME NEW w \in Workers, WorkerNext(w) PROVE rpc' = rpc /\ reportable' = reportable
  BY <1>7 DEF WorkerNext, RoundStep, ClaimExpired, PinPayload, ProbeAny, Probe, RearmClaim,
     CommitExpiry, SendLeaseExpired, NotifyLeave, NotifyLeaveFails, AckClaim, RenewClaim,
     WorkerCrash, envVars
<1>8. ASSUME NEW p \in Players,
             ReadyElapses(p) \/ ClaimElapses(p) \/ RecoverClaim(p) \/ HolderRelease(p)
      PROVE  rpc' = rpc /\ reportable' = reportable
  BY <1>8 DEF ReadyElapses, ClaimElapses, RecoverClaim, HolderRelease, envVars
<1>9. ASSUME (\E c \in Conns : CloseConn(c)) \/ (\E g \in Gates : GateLost(g))
      PROVE  rpc' = rpc /\ reportable \subseteq reportable'
  BY <1>9 DEF CloseConn, GateLost
<1>10. CASE UNCHANGED vars
  BY <1>10, NoCallMoves DEF vars
<1>11. ASSUME NEW r \in Calls, CallNext(r) PROVE CallInv'
  BY <1>1, <1>2, <1>3, <1>4, <1>5, <1>6, <1>11 DEF CallNext
<1>12. ASSUME NEW w \in Workers, WorkerNext(w) PROVE CallInv'
  BY <1>7, <1>12, NoCallMoves
<1> QED
  BY <1>8, <1>9, <1>10, <1>11, <1>12, NoCallMoves DEF Next
-----------------------------------------------------------------------------
(* Who writes the session record, and what with.                           *)

Script(p, s, q) ==
  WriteSession(p, s) /\ SetLease(p, q) /\ UNCHANGED <<claim, reportable>>

\* What one of the three session scripts writes when it commits.
ScriptCommits ==
  \E p \in Players :
    \/ \E s \in Session : s.state = "ONLINE" /\ s.gate # NoGate /\ Script(p, s, "none")
    \/ \E s \in Session : /\ s.state = "DISCONNECTING" /\ s.gate # NoGate /\ Reported(p, s)
                          /\ Script(p, s, "waiting")
    \/ Script(p, NoSession, "none")

\* A handler changes shared state only by a script that commits, or by queueing
\* the cleanup of a logout.
LEMMA CallWrites ==
  ASSUME TypeOK, CallInv, NEW r \in Calls, CallNext(r)
  PROVE  \/ ScriptCommits
         \/ MarkOfflineEnqueue(r)
         \/ UNCHANGED <<sessionVars, leaseVars, claim>>
<1>1. CASE ReplaceCas(r) \/ SetDisconnectingCas(r) \/ MarkOfflineCas(r)
  <2>1. rpc[r].p \in Players /\ rpc[r] # Idle /\ CallGood(rpc[r])
    BY <1>1 DEF ReplaceCas, SetDisconnectingCas, MarkOfflineCas, CallInv, TypeOK, Call
  <2>2. CASE ReplaceCas(r)
    BY <2>1, <2>2 DEF ReplaceCas, replaceSessionAndCancelLease, CallGood, ScriptCommits,
       Script, envVars
  <2>3. CASE SetDisconnectingCas(r)
    BY <2>1, <2>3 DEF SetDisconnectingCas, setDisconnecting, CallGood, ScriptCommits,
       Script, envVars
  <2>4. CASE MarkOfflineCas(r)
    BY <2>1, <2>4 DEF MarkOfflineCas, deleteSessionIfUnchanged, ScriptCommits, Script, envVars
  <2> QED
    BY <1>1, <2>2, <2>3, <2>4
<1> QED
  BY <1>1 DEF CallNext, EnterGame, SetSessionGet, ReconnectGet, Replay, EnterScene,
     SetDisconnectingGet, MarkOfflineGet, MarkOfflineLeave, Abort, GiveUp

\* Apart from the three scripts only the expiry commit touches the record.
LEMMA SessionWriters ==
  ASSUME TypeOK, CallInv, [Next]_vars
  PROVE  \/ ScriptCommits
         \/ \E w \in Workers : CommitExpiry(w)
         \/ UNCHANGED sessionVars
<1>1. ASSUME NEW r \in Calls, CallNext(r) PROVE ScriptCommits \/ UNCHANGED sessionVars
  BY <1>1, CallWrites DEF MarkOfflineEnqueue
<1>2. ASSUME NEW w \in Workers, WorkerNext(w) PROVE CommitExpiry(w) \/ UNCHANGED sessionVars
  BY <1>2 DEF WorkerNext, RoundStep, ClaimExpired, PinPayload, ProbeAny, Probe, RearmClaim,
     SendLeaseExpired, NotifyLeave, NotifyLeaveFails, AckClaim, RenewClaim, WorkerCrash
<1>3. CASE UNCHANGED vars
  BY <1>3 DEF vars, sessionVars
<1> QED
  BY <1>1, <1>2, <1>3 DEF Next, ReadyElapses, ClaimElapses, RecoverClaim, HolderRelease, CloseConn,
     GateLost

\* The expiry commit deletes the record of a player that is not ONLINE.
LEMMA CommitEffect ==
  ASSUME TypeOK, ClaimInv, NEW w \in Workers, CommitExpiry(w)
  PROVE  /\ claim[w].p \in Players
         /\ \/ /\ session' = [session EXCEPT ![claim[w].p] = NoSession]
               /\ ~IsOnline(claim[w].p)
            \/ session' = session
         /\ UNCHANGED <<gateIndex, gateRegistry>>
<1>1. claim[w] # Idle /\ claim[w] \in Claim /\ claim[w].p \in Players /\ claim[w].pc = "commit"
  BY DEF CommitExpiry, TypeOK, Claim
<1>2. claim[w].payload # NoSession => claim[w].payload.state = "DISCONNECTING"
  BY <1>1 DEF ClaimInv, ClaimGood
<1> QED
  BY <1>1, <1>2 DEF CommitExpiry, IsOnline

\* Every step keeps GateKnown: a record names the gate of its connection.
LEMMA GateKnownStep ==
  ASSUME TypeOK, CallInv, ClaimInv, GateKnown, [Next]_vars
  PROVE  GateKnown'
<1>1. ASSUME NEW w \in Workers, CommitExpiry(w) PROVE GateKnown'
  BY <1>1, CommitEffect DEF GateKnown, TypeOK
<1>2. CASE ScriptCommits
  BY <1>2 DEF ScriptCommits, Script, WriteSession, GateKnown, TypeOK
<1>3. CASE UNCHANGED sessionVars
  BY <1>3 DEF sessionVars, GateKnown
<1> QED
  BY <1>1, <1>2, <1>3, SessionWriters
-----------------------------------------------------------------------------
(* The gate index.                                                         *)

\* The index move of the scripts keeps index and registry exact: this is where
\* the same gate on both sides and the emptied index matter.
LEMMA WriteKeepsIndex ==
  ASSUME TypeOK, IndexExact, RegistryExact,
         NEW p \in Players, NEW s \in Session \cup {NoSession}, WriteSession(p, s)
  PROVE  IndexExact' /\ RegistryExact'
<1> DEFINE from == indexedGate(session[p])
           to == indexedGate(s)
<1>1. /\ session' = [session EXCEPT ![p] = s]
      /\ gateIndex' = [g \in Gates |->
                         IF g = to THEN gateIndex[g] \cup {p}
                         ELSE IF g = from THEN gateIndex[g] \ {p}
                         ELSE gateIndex[g]]
      /\ gateRegistry' = (gateRegistry \ {g \in Gates : g = from /\ gateIndex'[g] = {}})
                           \cup {g \in Gates : g = to}
  BY DEF WriteSession, MoveIndex
<1>2. \A g \in Gates : g = to <=> s # NoSession /\ s.state = "ONLINE" /\ s.gate = g
  BY NullAssumption DEF indexedGate
<1>3. \A g \in Gates : g = from <=> IsOnline(p) /\ session[p].gate = g
  BY NullAssumption DEF indexedGate, IsOnline
<1>4. \A g \in Gates : p \in gateIndex[g] <=> g = from
  BY <1>3 DEF IndexExact
<1> HIDE DEF from, to
<1>5. IndexExact'
  <2> SUFFICES ASSUME NEW g \in Gates, NEW q \in Players
               PROVE  q \in gateIndex'[g] <=> (IsOnline(q) /\ session[q].gate = g)'
    BY DEF IndexExact
  <2>1. CASE q = p
    <3>1. session'[q] = s
      BY <1>1, <2>1 DEF TypeOK
    <3>2. q \in gateIndex'[g] <=> g = to
      BY <1>1, <1>4, <2>1
    <3> QED
      BY <1>2, <3>1, <3>2 DEF IsOnline
  <2>2. CASE q # p
    <3>1. session'[q] = session[q] /\ (q \in gateIndex'[g] <=> q \in gateIndex[g])
      BY <1>1, <2>2 DEF TypeOK
    <3> QED
      BY <3>1 DEF IndexExact, IsOnline
  <2> QED
    BY <2>1, <2>2
<1>6. RegistryExact'
  <2>1. ASSUME NEW g \in Gates PROVE g \in gateRegistry' <=> gateIndex'[g] # {}
    <3>1. g \in gateRegistry <=> gateIndex[g] # {}
      BY DEF RegistryExact
    <3>2. CASE g = to
      BY <1>1, <3>2
    <3>3. CASE g # to /\ g = from
      BY <1>1, <1>4, <3>1, <3>3
    <3>4. CASE g # to /\ g # from
      BY <1>1, <3>1, <3>4
    <3> QED
      BY <3>2, <3>3, <3>4
  <2>2. gateRegistry' \subseteq Gates
    BY <1>1 DEF TypeOK
  <2> QED
    BY <2>1, <2>2 DEF RegistryExact
<1> QED
  BY <1>5, <1>6

\* Every step keeps the gate index and the registry exact.
LEMMA IndexStep ==
  ASSUME TypeOK, CallInv, ClaimInv, IndexExact, RegistryExact, [Next]_vars
  PROVE  IndexExact' /\ RegistryExact'
<1>1. ASSUME NEW w \in Workers, CommitExpiry(w) PROVE IndexExact' /\ RegistryExact'
  BY <1>1, CommitEffect DEF IndexExact, RegistryExact, IsOnline, TypeOK
<1>2. CASE ScriptCommits
  BY <1>2, WriteKeepsIndex DEF ScriptCommits, Script
<1>3. CASE UNCHANGED sessionVars
  BY <1>3 DEF sessionVars, IndexExact, RegistryExact, IsOnline
<1> QED
  BY <1>1, <1>2, <1>3, SessionWriters
-----------------------------------------------------------------------------
(* The lease.                                                              *)

\* Every other step leaves the record and the four lease keys alone.
LEMMA LeaseWriters ==
  ASSUME TypeOK, CallInv, [Next]_vars
  PROVE  \/ ScriptCommits
         \/ \E r \in Calls : MarkOfflineEnqueue(r)
         \/ \E w \in Workers : \/ CommitExpiry(w) \/ PinPayload(w) \/ RearmClaim(w)
                               \/ AckClaim(w) \/ RenewClaim(w)
                               \/ \E p \in Players : ClaimExpired(w, p)
         \/ \E p \in Players : ReadyElapses(p) \/ ClaimElapses(p) \/ RecoverClaim(p)
         \/ UNCHANGED <<session, leaseVars>>
<1>1. ASSUME NEW r \in Calls, CallNext(r)
      PROVE  ScriptCommits \/ MarkOfflineEnqueue(r) \/ UNCHANGED <<session, leaseVars>>
  BY <1>1, CallWrites DEF sessionVars
<1>2. ASSUME NEW w \in Workers, WorkerNext(w)
      PROVE  \/ CommitExpiry(w) \/ PinPayload(w) \/ RearmClaim(w) \/ AckClaim(w)
             \/ RenewClaim(w) \/ \E p \in Players : ClaimExpired(w, p)
             \/ UNCHANGED <<session, leaseVars>>
  BY <1>2 DEF WorkerNext, RoundStep, ProbeAny, Probe, SendLeaseExpired, NotifyLeave,
     NotifyLeaveFails, WorkerCrash, sessionVars
<1>3. CASE UNCHANGED vars
  BY <1>3 DEF vars, leaseVars
<1> QED
  BY <1>1, <1>2, <1>3 DEF Next, HolderRelease, CloseConn, GateLost, sessionVars

LeaseInv == OnlineHasNoLease /\ LeaseKeysAgree /\ DisconnectingHasLease

\* The session scripts keep the lease keys consistent with the record.
LEMMA ScriptKeepsLease ==
  ASSUME TypeOK, LeaseInv, ScriptCommits
  PROVE  LeaseInv'
BY NullAssumption
DEF ScriptCommits, Script, WriteSession, SetLease, LeaseInv, OnlineHasNoLease, LeaseKeysAgree,
    DisconnectingHasLease, IsOnline, IsDisconnecting, CleanupPending, TypeOK

\* While its token counts, a worker's player has a claim, and is not ONLINE.
LEMMA OwnerFacts ==
  ASSUME TypeOK, LeaseInv, NEW w \in Workers, claim[w] # Idle, Owns(w)
  PROVE  /\ claim[w].p \in Players
         /\ claimTokens[claim[w].p] # NoToken
         /\ processing[claim[w].p] # "none"
         /\ ~IsOnline(claim[w].p)
BY NullAssumption
DEF TypeOK, Claim, Owns, LeaseInv, LeaseKeysAgree, OnlineHasNoLease, CleanupPending

\* Every step keeps LeaseInv: an ONLINE record has no lease, a DISCONNECTING one has.
LEMMA LeaseStep ==
  ASSUME TypeOK, CallInv, ClaimInv, LeaseInv, [Next]_vars
  PROVE  LeaseInv'
<1> USE DEF LeaseInv, OnlineHasNoLease, LeaseKeysAgree, DisconnectingHasLease, IsOnline,
            IsDisconnecting, CleanupPending
<1>1. ASSUME NEW r \in Calls, MarkOfflineEnqueue(r) PROVE LeaseInv'
  <2>1. rpc[r].p \in Players
    BY <1>1 DEF MarkOfflineEnqueue, TypeOK, Call
  <2> QED
    BY <1>1, <2>1 DEF MarkOfflineEnqueue, enqueueOfflineCleanup, TypeOK, sessionVars
<1>2. ASSUME NEW w \in Workers, CommitExpiry(w) PROVE LeaseInv'
  <2>1. claim[w] # Idle /\ claim[w].p \in Players
    BY <1>2 DEF CommitExpiry, TypeOK, Claim
  <2>2. ~(Owns(w) /\ session[claim[w].p] \notin {NoSession, claim[w].payload})
    BY <1>2 DEF CommitExpiry, ClaimInv, ClaimGood
  <2> QED
    BY <1>2, <2>1, <2>2 DEF CommitExpiry, TypeOK, leaseVars
<1>3. ASSUME NEW w \in Workers, PinPayload(w) PROVE LeaseInv'
  <2>1. claim[w] # Idle
    BY <1>3 DEF PinPayload
  <2>2. CASE Owns(w)
    BY <1>3, <2>1, <2>2, OwnerFacts DEF PinPayload, TypeOK, sessionVars
  <2>3. CASE ~Owns(w)
    BY <1>3, <2>3 DEF PinPayload, sessionVars
  <2> QED
    BY <2>2, <2>3
<1>4. ASSUME NEW w \in Workers, RearmClaim(w) PROVE LeaseInv'
  <2>1. claim[w] # Idle /\ claim[w].pc = "rearm"
    BY <1>4 DEF RearmClaim
  <2>2. CASE Owns(w)
    <3>1. session[claim[w].p] \in {NoSession, claim[w].payload} /\ claim[w].payload # NoSession
      BY <2>1, <2>2 DEF ClaimInv, ClaimGood
    <3>2. claim[w].p \in Players /\ ~IsOnline(claim[w].p)
      BY <2>1, <2>2, OwnerFacts
    <3> QED
      BY <1>4, <2>2, <3>1, <3>2 DEF RearmClaim, ClaimGone, TypeOK, sessionVars
  <2>3. CASE ~Owns(w)
    BY <1>4, <2>3 DEF RearmClaim, sessionVars, leaseVars
  <2> QED
    BY <2>2, <2>3
<1>5. ASSUME NEW w \in Workers, AckClaim(w) PROVE LeaseInv'
  <2>1. claim[w] # Idle /\ claim[w].pc = "ack"
    BY <1>5 DEF AckClaim
  <2>2. CASE Owns(w)
    <3>1. ~IsDisconnecting(claim[w].p)
      BY <2>1, <2>2 DEF ClaimInv, ClaimGood
    <3>2. claim[w].p \in Players
      BY <2>1, <2>2, OwnerFacts
    <3> QED
      BY <1>5, <2>2, <3>1, <3>2 DEF AckClaim, ClaimGone, TypeOK, sessionVars
  <2>3. CASE ~Owns(w)
    BY <1>5, <2>3 DEF AckClaim, sessionVars
  <2> QED
    BY <2>2, <2>3
<1>6. ASSUME NEW w \in Workers, RenewClaim(w) PROVE LeaseInv'
  <2>1. claim[w].p \in Players
    BY <1>6 DEF RenewClaim, TypeOK, Claim
  <2> QED
    BY <1>6, <2>1 DEF RenewClaim, TypeOK, sessionVars
<1>7. ASSUME NEW w \in Workers, NEW p \in Players, ClaimExpired(w, p) PROVE LeaseInv'
  <2>1. PICK t \in Tokens : claimTokens' = [claimTokens EXCEPT ![p] = t]
    BY <1>7 DEF ClaimExpired, FreshTokens
  <2> QED
    BY <1>7, <2>1, NullAssumption DEF ClaimExpired, TypeOK, sessionVars
<1>8. ASSUME NEW p \in Players, ReadyElapses(p) \/ ClaimElapses(p) \/ RecoverClaim(p)
      PROVE  LeaseInv'
  BY <1>8 DEF ReadyElapses, ClaimElapses, RecoverClaim, TypeOK, sessionVars
<1>9. CASE UNCHANGED <<session, leaseVars>>
  BY <1>9 DEF leaseVars
<1> QED
  BY <1>1, <1>2, <1>3, <1>4, <1>5, <1>6, <1>7, <1>8, <1>9, ScriptKeepsLease, LeaseWriters
-----------------------------------------------------------------------------
(* What workers know.                                                      *)

\* A worker that does not move keeps what it knows when no step gives it a
\* claim back, or writes a record under a claim that still counts.
LEMMA ClaimKept ==
  ASSUME TypeOK, ClaimInv, NEW v \in Workers, claim'[v] = claim[v],
         claim[v] # Idle =>
           (Owns(v)' => Owns(v) /\ session'[claim[v].p] \in {session[claim[v].p], NoSession})
  PROVE  (claim[v] # Idle => ClaimGood(v))'
BY DEF ClaimInv, ClaimGood, IsDisconnecting

\* The step of a worker itself, from the step it was at to the next.
LEMMA RoundKeepsClaim ==
  ASSUME TypeOK, ClaimInv, LeaseInv, NEW w \in Workers, RoundStep(w)
  PROVE  (claim[w] # Idle => ClaimGood(w))'
<1> SUFFICES ASSUME claim'[w] # Idle PROVE ClaimGood(w)'
  OBVIOUS
<1>0. claim[w] # Idle /\ claim[w] \in Claim /\ claim[w].p \in Players
      /\ claim[w].token \in Tokens /\ ClaimGood(w)
  BY DEF RoundStep, PinPayload, ProbeAny, Probe, RearmClaim, CommitExpiry, SendLeaseExpired,
     NotifyLeave, NotifyLeaveFails, AckClaim, WorkerCrash, TypeOK, Claim, ClaimInv
<1> DEFINE x == claim[w]
<1>1. CASE PinPayload(w)
  <2> DEFINE payload == IF session[x.p] # NoSession THEN session[x.p] ELSE claimPayloads[x.p]
  <2>1. claim'[w] = [x EXCEPT !.pc = "probe", !.payload = payload] /\ session' = session
    BY <1>1 DEF PinPayload, Drop, TypeOK, sessionVars
  <2>2. claim'[w].pc = "probe" /\ claim'[w].payload = payload /\ claim'[w].p = x.p
    BY <1>0, <2>1 DEF Claim
  <2> QED
    BY <2>1, <2>2 DEF ClaimGood
<1>2. CASE ProbeAny(w)
  <2>1. PICK afk, readFails : Probe(w, afk, readFails)
    BY <1>2 DEF ProbeAny
  <2>2. claim'[w] = [x EXCEPT !.pc = ProbeNext(w, afk, readFails)]
        /\ session' = session /\ claimTokens' = claimTokens
    BY <2>1 DEF Probe, TypeOK, sessionVars, leaseVars
  <2>3. /\ claim'[w].pc = ProbeNext(w, afk, readFails) /\ claim'[w].payload = x.payload
        /\ claim'[w].p = x.p /\ claim'[w].token = x.token
    BY <1>0, <2>2 DEF Claim
  <2>4. x.pc = "probe"
    BY <2>1 DEF Probe
  <2>5. Owns(w)' => Owns(w) /\ session[x.p] \in {NoSession, x.payload}
    BY <1>0, <2>2, <2>3, <2>4 DEF Owns, ClaimGood
  <2> QED
    BY <2>2, <2>3, <2>5 DEF ClaimGood, ProbeNext, IsDisconnecting
<1>3. CASE RearmClaim(w) \/ NotifyLeaveFails(w) \/ AckClaim(w) \/ WorkerCrash(w)
  BY <1>3 DEF RearmClaim, NotifyLeaveFails, AckClaim, WorkerCrash, Drop, TypeOK
<1>4. CASE CommitExpiry(w)
  <2> DEFINE next == IF x.payload = NoSession THEN "ack" ELSE "kick"
  <2>1. /\ claim'[w] = [x EXCEPT !.pc = next]
        /\ session' = [session EXCEPT ![x.p] = NoSession]
    BY <1>4 DEF CommitExpiry, Drop, TypeOK
  <2>2. claim'[w].pc = next /\ claim'[w].payload = x.payload /\ claim'[w].p = x.p
    BY <1>0, <2>1 DEF Claim
  <2>3. session'[x.p] = NoSession
    BY <1>0, <2>1 DEF TypeOK
  <2>4. x.payload # NoSession => x.payload.state = "DISCONNECTING"
    BY <1>0, <1>4 DEF CommitExpiry, ClaimGood
  <2> QED
    BY <2>2, <2>3, <2>4 DEF ClaimGood, IsDisconnecting
<1>5. CASE (\E ok \in BOOLEAN : SendLeaseExpired(w, ok)) \/ NotifyLeave(w)
  <2>1. /\ x.pc \in {"kick", "leave"} /\ session' = session /\ claimTokens' = claimTokens
        /\ \/ \E ok \in BOOLEAN : claim'[w] = [x EXCEPT !.pc = "leave", !.kicked = ok]
           \/ claim'[w] = [x EXCEPT !.pc = "ack"]
    BY <1>5 DEF SendLeaseExpired, NotifyLeave, TypeOK, sessionVars, leaseVars
  <2>2. /\ claim'[w].pc \in {"leave", "ack"} /\ claim'[w].payload = x.payload
        /\ claim'[w].p = x.p /\ claim'[w].token = x.token
    BY <1>0, <2>1 DEF Claim
  <2>3. Owns(w)' => session[x.p] = NoSession
    BY <1>0, <2>1, <2>2 DEF Owns, ClaimGood
  <2>4. x.payload # NoSession /\ x.payload.state = "DISCONNECTING"
    BY <1>0, <2>1 DEF ClaimGood
  <2> QED
    BY <2>1, <2>2, <2>3, <2>4 DEF ClaimGood, IsDisconnecting
<1> QED
  BY <1>1, <1>2, <1>3, <1>4, <1>5 DEF RoundStep

\* Every step keeps ClaimInv: what a worker that still owns its claim knows.
LEMMA ClaimStep ==
  ASSUME TypeOK, TypeOK', CallInv, ClaimInv, LeaseInv, [Next]_vars
  PROVE  ClaimInv'
<1> SUFFICES ASSUME NEW v \in Workers PROVE (claim[v] # Idle => ClaimGood(v))'
  BY DEF ClaimInv
<1>1. CASE ScriptCommits
  <2>1. PICK p \in Players, s \in Session \cup {NoSession}, q \in {"none", "waiting"} :
          Script(p, s, q)
    BY <1>1 DEF ScriptCommits
  <2>2. /\ claim' = claim /\ session' = [session EXCEPT ![p] = s]
        /\ claimTokens' = [claimTokens EXCEPT ![p] = NoToken]
    BY <2>1 DEF Script, WriteSession, SetLease
  <2>3. claim[v] # Idle => claim[v].token \in Tokens /\ claim[v].p \in Players
    BY DEF TypeOK, Claim
  <2> QED
    BY <2>2, <2>3, ClaimKept, NullAssumption DEF Owns, TypeOK
<1>2. ASSUME NEW w \in Workers, RoundStep(w) PROVE (claim[v] # Idle => ClaimGood(v))'
  <2>1. CASE v = w
    BY <1>2, <2>1, RoundKeepsClaim
  <2>2. CASE v # w
    <3>1. claim'[v] = claim[v]
      BY <1>2, <2>2 DEF RoundStep, PinPayload, ProbeAny, Probe, RearmClaim, CommitExpiry,
         SendLeaseExpired, NotifyLeave, NotifyLeaveFails, AckClaim, WorkerCrash, Drop, TypeOK
    <3>2. claim[w].p \in Players
      BY <1>2 DEF RoundStep, PinPayload, ProbeAny, Probe, RearmClaim, CommitExpiry,
         SendLeaseExpired, NotifyLeave, NotifyLeaveFails, AckClaim, WorkerCrash, TypeOK, Claim
    <3>3. \/ session' = session
          \/ session' = [session EXCEPT ![claim[w].p] = NoSession]
      BY <1>2 DEF RoundStep, PinPayload, ProbeAny, Probe, RearmClaim, CommitExpiry,
         SendLeaseExpired, NotifyLeave, NotifyLeaveFails, AckClaim, WorkerCrash, sessionVars
    <3>4. \/ claimTokens' = claimTokens
          \/ claimTokens' = [claimTokens EXCEPT ![claim[w].p] = NoToken]
      BY <1>2 DEF RoundStep, PinPayload, ProbeAny, Probe, RearmClaim, CommitExpiry, ClaimGone,
         SendLeaseExpired, NotifyLeave, NotifyLeaveFails, AckClaim, WorkerCrash, leaseVars
    <3>5. claim[v] # Idle => claim[v].token \in Tokens /\ claim[v].p \in Players
      BY DEF TypeOK, Claim
    <3> QED
      BY <3>1, <3>2, <3>3, <3>4, <3>5, ClaimKept, NullAssumption DEF Owns, TypeOK
  <2> QED
    BY <2>1, <2>2
<1>3. ASSUME NEW w \in Workers, NEW p \in Players, ClaimExpired(w, p)
      PROVE  (claim[v] # Idle => ClaimGood(v))'
  <2>1. PICK t \in FreshTokens :
          /\ claimTokens' = [claimTokens EXCEPT ![p] = t]
          /\ claim' = [claim EXCEPT ![w] = [pc |-> "pin", p |-> p, token |-> t,
                                            payload |-> NoSession, kicked |-> FALSE]]
    BY <1>3 DEF ClaimExpired
  <2>2. CASE v = w
    BY <2>1, <2>2 DEF ClaimGood, TypeOK
  <2>3. CASE v # w
    <3>1. claim'[v] = claim[v] /\ session' = session
      BY <1>3, <2>1, <2>3 DEF ClaimExpired, TypeOK, sessionVars
    <3>2. claim[v] # Idle => claim[v].token # t /\ claim[v].p \in Players
      BY <2>1 DEF FreshTokens, TypeOK, Claim
    <3>3. claim[v] # Idle => (Owns(v)' => Owns(v))
      BY <2>1, <3>1, <3>2 DEF Owns, TypeOK
    <3> QED
      BY <3>1, <3>3, ClaimKept
  <2> QED
    BY <2>2, <2>3
<1>4. ASSUME NEW p \in Players, RecoverClaim(p) PROVE (claim[v] # Idle => ClaimGood(v))'
  <2>1. /\ claim' = claim /\ session' = session
        /\ claimTokens' = [claimTokens EXCEPT ![p] = NoToken]
    BY <1>4 DEF RecoverClaim, sessionVars
  <2>2. claim[v] # Idle => claim[v].token \in Tokens /\ claim[v].p \in Players
    BY DEF TypeOK, Claim
  <2> QED
    BY <2>1, <2>2, ClaimKept, NullAssumption DEF Owns, TypeOK
<1>5. CASE UNCHANGED <<session, claimTokens, claim>>
  BY <1>5, ClaimKept DEF Owns
<1>6. ASSUME NEW r \in Calls, CallNext(r)
      PROVE  ScriptCommits \/ UNCHANGED <<session, claimTokens, claim>>
  BY <1>6, CallWrites DEF MarkOfflineEnqueue, sessionVars, leaseVars
<1>7. CASE \/ \E w \in Workers : RenewClaim(w)
           \/ \E p \in Players : ReadyElapses(p) \/ ClaimElapses(p) \/ HolderRelease(p)
           \/ \E c \in Conns : CloseConn(c)
           \/ \E g \in Gates : GateLost(g)
           \/ UNCHANGED vars
  BY <1>5, <1>7 DEF RenewClaim, ReadyElapses, ClaimElapses, HolderRelease, CloseConn,
     GateLost, vars,
     sessionVars, leaseVars
<1> QED
  BY <1>1, <1>2, <1>3, <1>4, <1>5, <1>6, <1>7 DEF Next, WorkerNext
-----------------------------------------------------------------------------
(* Reported connections.                                                   *)

\* Every step keeps OnlyReportedDisconnects.
LEMMA ReportedStep ==
  ASSUME TypeOK, CallInv, ClaimInv, OnlyReportedDisconnects, reportable \subseteq reportable',
         [Next]_vars
  PROVE  OnlyReportedDisconnects'
<1> USE DEF OnlyReportedDisconnects, IsDisconnecting
<1>1. CASE ScriptCommits
  BY <1>1 DEF ScriptCommits, Script, WriteSession, Reported, TypeOK
<1>2. ASSUME NEW w \in Workers, CommitExpiry(w) PROVE OnlyReportedDisconnects'
  BY <1>2, CommitEffect DEF TypeOK
<1>3. CASE UNCHANGED sessionVars
  BY <1>3 DEF sessionVars
<1> QED
  BY <1>1, <1>2, <1>3, SessionWriters

\* What may be reported stays so: reports are retried and come late.
LEMMA ReportableGrows == [Next]_vars => reportable \subseteq reportable'
<1> SUFFICES ASSUME [Next]_vars PROVE reportable \subseteq reportable'
  OBVIOUS
<1>1. ASSUME NEW r \in Calls, CallNext(r) PROVE reportable \subseteq reportable'
  BY <1>1 DEF CallNext, EnterGame, SetSessionGet, ReconnectGet, ReplaceCas, Replay, EnterScene,
     SetDisconnectingGet, SetDisconnectingCas, MarkOfflineGet, MarkOfflineCas,
     MarkOfflineLeave, MarkOfflineEnqueue, Abort, GiveUp, envVars
<1>2. ASSUME NEW w \in Workers, WorkerNext(w) PROVE reportable' = reportable
  BY <1>2 DEF WorkerNext, RoundStep, ClaimExpired, PinPayload, ProbeAny, Probe, RearmClaim,
     CommitExpiry, SendLeaseExpired, NotifyLeave, NotifyLeaveFails, AckClaim, RenewClaim,
     WorkerCrash, envVars
<1> QED
  BY <1>1, <1>2 DEF Next, ReadyElapses, ClaimElapses, RecoverClaim, HolderRelease, CloseConn,
     GateLost, vars, envVars

\* Every step keeps PayloadsReported: payloads that name a gate belong to reported connections.
LEMMA PayloadsStep ==
  ASSUME TypeOK, CallInv, LeaseInv, OnlyReportedDisconnects, PayloadsReported, reportable \subseteq reportable',
         [Next]_vars
  PROVE  PayloadsReported'
<1> DEFINE Known(p, s) == s # NoSession /\ s.gate # NoGate => Reported(p, s)
<1>1. /\ \A p \in Players : Known(p, claimPayloads[p])
      /\ \A w \in Workers : claim[w] # Idle => Known(claim[w].p, claim[w].payload)
  BY DEF PayloadsReported
<1>2. ASSUME /\ \A p \in Players : Known(p, claimPayloads'[p])
             /\ \A w \in Workers : claim'[w] # Idle => Known(claim'[w].p, claim'[w].payload)
      PROVE  PayloadsReported'
  BY <1>2 DEF PayloadsReported, Reported
<1>3. CASE ScriptCommits
  BY <1>1, <1>2, <1>3 DEF ScriptCommits, Script, SetLease, TypeOK
<1>4. ASSUME NEW r \in Calls, MarkOfflineEnqueue(r) PROVE PayloadsReported'
  <2>1. rpc[r].exp \in Session /\ rpc[r].p \in Players
    BY <1>4 DEF MarkOfflineEnqueue, CallInv, CallGood, TypeOK, Call
  <2>2. RetrySnapshot(rpc[r].exp).gate = NoGate
    BY <2>1 DEF RetrySnapshot, Session
  <2> QED
    BY <1>1, <1>2, <1>4, <2>1, <2>2
    DEF MarkOfflineEnqueue, enqueueOfflineCleanup, TypeOK
<1>5. ASSUME NEW w \in Workers, PinPayload(w) PROVE PayloadsReported'
  <2> DEFINE p == claim[w].p
             payload == IF session[p] # NoSession THEN session[p] ELSE claimPayloads[p]
  <2>1. claim[w] \in Claim /\ p \in Players /\ claim[w] # Idle
    BY <1>5 DEF PinPayload, TypeOK, Claim
  <2>2. CASE Owns(w)
    <3>1. ~IsOnline(p)
      BY <2>1, <2>2, OwnerFacts
    <3>2. session[p] # NoSession => IsDisconnecting(p)
      BY <2>1, <3>1 DEF TypeOK, Session, IsOnline, IsDisconnecting
    <3>3. Known(p, payload)
      BY <1>1, <2>1, <3>2 DEF OnlyReportedDisconnects, Reported
    <3>4. [claim[w] EXCEPT !.pc = "probe", !.payload = payload].payload = payload
          /\ [claim[w] EXCEPT !.pc = "probe", !.payload = payload].p = p
      BY <2>1 DEF Claim
    <3> QED
      BY <1>1, <1>2, <1>5, <2>2, <3>3, <3>4 DEF PinPayload, TypeOK
  <2>3. CASE ~Owns(w)
    BY <1>1, <1>2, <1>5, <2>3 DEF PinPayload, Drop, TypeOK
  <2> QED
    BY <2>2, <2>3
<1>6. ASSUME NEW w \in Workers, NEW p \in Players, ClaimExpired(w, p) PROVE PayloadsReported'
  <2>1. PICK t : claim' = [claim EXCEPT ![w] = [pc |-> "pin", p |-> p, token |-> t,
                                              payload |-> NoSession, kicked |-> FALSE]]
    BY <1>6 DEF ClaimExpired
  <2>2. claimPayloads' = claimPayloads
    BY <1>6 DEF ClaimExpired
  <2> QED
    BY <1>1, <1>2, <2>1, <2>2 DEF TypeOK
<1>7. ASSUME NEW w \in Workers, RoundStep(w), ~PinPayload(w) PROVE PayloadsReported'
  <2>1. claim[w] \in Claim /\ claim[w] # Idle /\ claim[w].p \in Players
    BY <1>7 DEF RoundStep, PinPayload, ProbeAny, Probe, RearmClaim, CommitExpiry,
       SendLeaseExpired, NotifyLeave, NotifyLeaveFails, AckClaim, WorkerCrash, TypeOK, Claim
  <2>2. \/ claimPayloads' = claimPayloads
        \/ claimPayloads' = [claimPayloads EXCEPT ![claim[w].p] = NoSession]
    BY <1>7 DEF RoundStep, ProbeAny, Probe, RearmClaim, CommitExpiry, ClaimGone,
       SendLeaseExpired, NotifyLeave, NotifyLeaveFails, AckClaim, WorkerCrash, leaseVars
  <2>3. ASSUME NEW q, NEW k
        PROVE  LET x == [claim[w] EXCEPT !.pc = q]
                   y == [claim[w] EXCEPT !.pc = q, !.kicked = k]
               IN /\ x.payload = claim[w].payload /\ x.p = claim[w].p
                  /\ y.payload = claim[w].payload /\ y.p = claim[w].p
    BY <2>1 DEF Claim
  <2>4. claim'[w] # Idle => claim'[w].payload = claim[w].payload /\ claim'[w].p = claim[w].p
    <3>1. CASE ProbeAny(w)
      <4>1. PICK q : claim'[w] = [claim[w] EXCEPT !.pc = q]
        BY <3>1 DEF ProbeAny, Probe, TypeOK
      <4> QED
        BY <2>3, <4>1
    <3>2. CASE CommitExpiry(w)
      <4>1. \/ claim'[w] = Idle
            \/ claim'[w] = [claim[w] EXCEPT !.pc = "ack"]
            \/ claim'[w] = [claim[w] EXCEPT !.pc = "kick"]
        BY <3>2 DEF CommitExpiry, Drop, TypeOK
      <4> QED
        BY <2>3, <4>1
    <3>3. CASE (\E ok \in BOOLEAN : SendLeaseExpired(w, ok)) \/ NotifyLeave(w)
      <4>1. \/ claim'[w] = Idle
            \/ claim'[w] = [claim[w] EXCEPT !.pc = "ack"]
            \/ \E ok \in BOOLEAN : claim'[w] = [claim[w] EXCEPT !.pc = "leave", !.kicked = ok]
        BY <3>3 DEF SendLeaseExpired, NotifyLeave, TypeOK
      <4>2. ASSUME NEW ok \in BOOLEAN,
                   claim'[w] = [claim[w] EXCEPT !.pc = "leave", !.kicked = ok]
            PROVE  claim'[w].payload = claim[w].payload /\ claim'[w].p = claim[w].p
        BY <2>1, <4>2 DEF Claim
      <4>3. ASSUME claim'[w] = [claim[w] EXCEPT !.pc = "ack"]
            PROVE  claim'[w].payload = claim[w].payload /\ claim'[w].p = claim[w].p
        BY <2>3, <4>3
      <4> QED
        BY <4>1, <4>2, <4>3
    <3>4. CASE RearmClaim(w) \/ NotifyLeaveFails(w) \/ AckClaim(w) \/ WorkerCrash(w)
      BY <3>4 DEF RearmClaim, NotifyLeaveFails, AckClaim, WorkerCrash, Drop, TypeOK
    <3> QED
      BY <1>7, <3>1, <3>2, <3>3, <3>4 DEF RoundStep
  <2>5. \A v \in Workers : v # w => claim'[v] = claim[v]
    BY <1>7 DEF RoundStep, ProbeAny, Probe, RearmClaim, CommitExpiry, Drop, TypeOK,
       SendLeaseExpired, NotifyLeave, NotifyLeaveFails, AckClaim, WorkerCrash
  <2> QED
    BY <1>1, <1>2, <2>1, <2>2, <2>4, <2>5 DEF TypeOK
<1>8. CASE UNCHANGED <<claimPayloads, claim>>
  BY <1>1, <1>2, <1>8
<1>9. ASSUME NEW r \in Calls, CallNext(r) PROVE PayloadsReported'
  BY <1>3, <1>4, <1>8, <1>9, CallWrites DEF leaseVars
<1>10. CASE \/ \E w \in Workers : RenewClaim(w)
            \/ \E p \in Players : \/ ReadyElapses(p) \/ ClaimElapses(p)
                                  \/ RecoverClaim(p) \/ HolderRelease(p)
            \/ \E c \in Conns : CloseConn(c)
            \/ \E g \in Gates : GateLost(g)
            \/ UNCHANGED vars
  BY <1>8, <1>10 DEF RenewClaim, ReadyElapses, ClaimElapses, RecoverClaim, HolderRelease,
     CloseConn, GateLost, vars, leaseVars
<1> QED
  BY <1>5, <1>6, <1>7, <1>9, <1>10 DEF Next, WorkerNext
-----------------------------------------------------------------------------
(* The theorems.                                                           *)

\* The initial states satisfy the inductive invariant.
LEMMA InitIInv == Init => IInv
BY NullAssumption
DEF Init, IInv, TypeOK, CallInv, GateKnown, IndexExact, RegistryExact, OnlineHasNoLease,
    LeaseKeysAgree, DisconnectingHasLease, OnlyReportedDisconnects, ClaimInv, PayloadsReported,
    IsOnline, IsDisconnecting, CleanupPending

\* Every step keeps the inductive invariant.
LEMMA StepIInv == IInv /\ [Next]_vars => IInv'
<1> SUFFICES ASSUME IInv, [Next]_vars PROVE IInv'
  OBVIOUS
<1>1. TypeOK'
  BY TypeStep DEF IInv
<1>2. CallInv'
  BY CallInvStep DEF IInv
<1>3. GateKnown'
  BY GateKnownStep DEF IInv
<1>4. IndexExact' /\ RegistryExact'
  BY IndexStep DEF IInv
<1>5. LeaseInv /\ LeaseInv'
  BY LeaseStep DEF IInv, LeaseInv
<1>6. ClaimInv'
  BY <1>1, <1>5, ClaimStep DEF IInv
<1>7. OnlyReportedDisconnects'
  BY ReportedStep, ReportableGrows DEF IInv
<1>8. PayloadsReported'
  BY <1>5, PayloadsStep, ReportableGrows DEF IInv
<1> QED
  BY <1>1, <1>2, <1>3, <1>4, <1>5, <1>6, <1>7, <1>8 DEF IInv, LeaseInv

\* The strengthening is an invariant of every behaviour.
THEOREM Inductive == Spec => []IInv
BY InitIInv, StepIInv, PTL DEF Spec

\* Whatever the handlers and monitors do, Redis holds well-formed records,
\* leases, indexes and claims.
THEOREM TypeCorrect == Spec => []TypeOK
<1>1. IInv => TypeOK
  BY DEF IInv
<1> QED
  BY <1>1, Inductive, PTL

\* The gate index of every slot is exact: what the dead-gate sweep finds is
\* what is ONLINE there.
THEOREM IndexCorrect == Spec => []IndexExact
<1>1. IInv => IndexExact
  BY DEF IInv
<1> QED
  BY <1>1, Inductive, PTL

\* The registry of every slot names exactly the gates whose index is in use,
\* so no index is left that a sweep would not look at.
THEOREM RegistryCorrect == Spec => []RegistryExact
<1>1. IInv => RegistryExact
  BY DEF IInv
<1> QED
  BY <1>1, Inductive, PTL

\* A player that is back ONLINE has no lease that could still expire.
THEOREM OnlineSafe == Spec => []OnlineHasNoLease
<1>1. IInv => OnlineHasNoLease
  BY DEF IInv
<1> QED
  BY <1>1, Inductive, PTL

\* A player whose connection is lost never falls out of the lease queues, even
\* when workers crash, time out and act on claims they no longer own.
THEOREM LeaseNeverLost == Spec => []DisconnectingHasLease
<1>1. IInv => DisconnectingHasLease
  BY DEF IInv
<1> QED
  BY <1>1, Inductive, PTL

\* Queue, claim, token and pinned payload of a lease agree after every commit,
\* requeue, recovery and stale release.
THEOREM LeaseKeysSafe == Spec => []LeaseKeysAgree
<1>1. IInv => LeaseKeysAgree
  BY DEF IInv
<1> QED
  BY <1>1, Inductive, PTL

\* A session is only leased because its own connection was reported, also when
\* reports of other gate instances with the same session id come late.
THEOREM DisconnectSafe == Spec => []OnlyReportedDisconnects
<1>1. IInv => OnlyReportedDisconnects
  BY DEF IInv
<1> QED
  BY <1>1, Inductive, PTL

\* Only connections that were reported are kicked.
THEOREM NoWrongKick == Spec => []OnlyReportedKicked
<1>1. IInv => OnlyReportedKicked
  <2> SUFFICES ASSUME IInv, NEW w \in Workers, claim[w] # Idle, claim[w].pc = "kick",
                      claim[w].payload.gate # NoGate
               PROVE  <<claim[w].p, <<claim[w].payload.sid, claim[w].payload.gate>>>>
                        \in reportable
    BY DEF IInv, OnlyReportedKicked
  <2>1. claim[w].payload # NoSession
    BY DEF IInv, ClaimInv, ClaimGood
  <2> QED
    BY <2>1 DEF IInv, PayloadsReported, Reported
<1> QED
  BY <1>1, Inductive, PTL
=============================================================================
