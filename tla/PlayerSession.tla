--------------------------- MODULE PlayerSession ---------------------------
(***************************************************************************)
(* player_locator: the authority for "which connection is this player      *)
(* playing on".  One Redis slot holds, per player, the session record, the *)
(* disconnect lease (the ready and processing sorted sets, the claim token *)
(* and the claim payload) and, per gate instance, the set of players that  *)
(* are ONLINE there with a registry of the gates whose set is not empty.   *)
(*                                                                         *)
(* RPC handlers read the record, decide, and commit with a script that     *)
(* compares the whole record: each handler is a "get" step and a "cas"     *)
(* step, interleaved with every other handler and with the lease monitors  *)
(* of all replicas.  login's EnterGame chain and scene_manager's location  *)
(* of the player take part as far as the session life cycle involves them. *)
(***************************************************************************)
EXTENDS PlacementIdentity, FiniteSets

CONSTANTS
  Players,        \* player ids (all in one Redis slot)
  Gates,          \* gate instance ids (node uuid, new at every gate start)
  Conns,          \* client connections <<session id, gate instance>>
  Calls,          \* RPC handlers that may be in flight at once
  Workers,        \* lease monitor goroutines, of all replicas
  Tokens,         \* claim tokens
  MaxGen,         \* bound: logins per player
  NoSession, NoGate, NoToken, NoLocation, Idle,
  LockExpires,    \* TRUE: login's player lock may lapse under a live chain
  ReadFaults,     \* TRUE: the monitor's read of the session key may fail
  HandlerFaults   \* TRUE: MarkOffline may die between delete and enqueue

ASSUME ConnsAssumption == Conns \subseteq (Nat \ {0}) \X Gates
ASSUME MaxGenAssumption == MaxGen \in Nat
ASSUME FaultsAssumption ==
  /\ LockExpires \in BOOLEAN /\ ReadFaults \in BOOLEAN /\ HandlerFaults \in BOOLEAN

Session ==
  [sid : Nat, gate : Gates \cup {NoGate}, gen : Nat, ver : Nat,
   state : {"ONLINE", "DISCONNECTING"}]

\* late is a history bit: the location was written when no session of that
\* generation (or a newer one) existed any more.
Location == [sid : Nat, gen : Nat, released : BOOLEAN, late : BOOLEAN]

Call ==
  [op : {"SetSession", "Reconnect", "SetDisconnecting", "MarkOffline"},
   pc : {"get", "cas", "enter", "leave", "enqueue"},
   p : Players, exp : Session \cup {NoSession}, upd : Session \cup {NoSession}]

Claim ==
  [pc : {"pin", "probe", "rearm", "commit", "kick", "leave", "ack"},
   p : Players, token : Tokens, payload : Session \cup {NoSession},
   kicked : BOOLEAN]

ASSUME NullAssumption ==
  /\ NoSession \notin Session
  /\ NoGate \notin Gates
  /\ NoToken \notin Tokens
  /\ NoLocation \notin Location
  /\ Idle \notin Call
  /\ Idle \notin Claim

VARIABLES
  session,        \* player:session:{pid}
  ready,          \* lease ready ZSET: "none", or its deadline ahead / reached
  processing,     \* lease processing ZSET: the deadline of the claim
  claimTokens,    \* claim_tokens hash
  claimPayloads,  \* claim_payloads hash
  gateIndex,      \* per gate: the players ONLINE on it
  gateRegistry,   \* gates with a non-empty index in this slot
  rpc,            \* handlers in flight
  claim,          \* lease monitor claims in hand
  minted,         \* login's per-player generation counter
  reportable,     \* history: <<player, connection>> somebody may report as lost
  location        \* scene_manager's player:{pid}:location

sessionVars == <<session, gateIndex, gateRegistry>>
leaseVars == <<ready, processing, claimTokens, claimPayloads>>
envVars == <<minted, reportable, location>>
vars == <<session, ready, processing, claimTokens, claimPayloads, gateIndex,
          gateRegistry, rpc, claim, minted, reportable, location>>

TypeOK ==
  /\ session \in [Players -> Session \cup {NoSession}]
  /\ ready \in [Players -> {"none", "waiting", "due"}]
  /\ processing \in [Players -> {"none", "held", "due"}]
  /\ claimTokens \in [Players -> Tokens \cup {NoToken}]
  /\ claimPayloads \in [Players -> Session \cup {NoSession}]
  /\ gateIndex \in [Gates -> SUBSET Players]
  /\ gateRegistry \in SUBSET Gates
  /\ rpc \in [Calls -> Call \cup {Idle}]
  /\ claim \in [Workers -> Claim \cup {Idle}]
  /\ minted \in [Players -> Nat]
  /\ reportable \in SUBSET (Players \X (Nat \X Gates))
  /\ location \in [Players -> Location \cup {NoLocation}]

Init ==
  /\ session = [p \in Players |-> NoSession]
  /\ ready = [p \in Players |-> "none"]
  /\ processing = [p \in Players |-> "none"]
  /\ claimTokens = [p \in Players |-> NoToken]
  /\ claimPayloads = [p \in Players |-> NoSession]
  /\ gateIndex = [g \in Gates |-> {}]
  /\ gateRegistry = {}
  /\ rpc = [r \in Calls |-> Idle]
  /\ claim = [w \in Workers |-> Idle]
  /\ minted = [p \in Players |-> 0]
  /\ reportable = {}
  /\ location = [p \in Players |-> NoLocation]

-----------------------------------------------------------------------------
(* The scripts.                                                            *)

\* The gate index a session belongs to: only while it is ONLINE.
indexedGate(s) ==
  IF s # NoSession /\ s.state = "ONLINE" THEN s.gate ELSE NoGate

\* Mutant: SADD before SREM, which drops the member when both gates are equal.
MoveIndexAddFirst(p, from, to) ==
  LET added == [g \in Gates |-> IF g = to THEN gateIndex[g] \cup {p} ELSE gateIndex[g]]
      moved == [g \in Gates |-> IF g = from THEN added[g] \ {p} ELSE added[g]]
  IN /\ gateIndex' = moved
     /\ gateRegistry' = {g \in Gates : moved[g] # {}}

\* Mutant: the registry entry of a gate outlives its last member.
MoveIndexKeepsEntry(p, from, to) ==
  /\ gateIndex' = [g \in Gates |->
                     IF g = to THEN gateIndex[g] \cup {p}
                     ELSE IF g = from THEN gateIndex[g] \ {p}
                     ELSE gateIndex[g]]
  /\ gateRegistry' = gateRegistry \cup {g \in Gates : g = to}

\* Mutant: the empty gate name is registered like any other.
MoveIndexEmptyName(p, from, to) ==
  /\ gateIndex' = [g \in Gates |->
                     IF g = to THEN gateIndex[g] \cup {p} ELSE gateIndex[g] \ {p}]
  /\ gateRegistry' = gateRegistry \cup {to}

\* SREM from the index of the old gate, SADD to that of the new one; the
\* same gate on both sides is only an SADD.
MoveIndex(p, from, to) ==
  LET moved == [g \in Gates |->
                  IF g = to THEN gateIndex[g] \cup {p}
                  ELSE IF g = from THEN gateIndex[g] \ {p}
                  ELSE gateIndex[g]]
  IN /\ gateIndex' = moved
     /\ gateRegistry' =
          (gateRegistry \ {g \in Gates : g = from /\ moved[g] = {}})
             \cup {g \in Gates : g = to}

WriteSession(p, s) ==
  /\ session' = [session EXCEPT ![p] = s]
  /\ MoveIndex(p, indexedGate(session[p]), indexedGate(s))

SetLease(p, r) ==
  /\ ready' = [ready EXCEPT ![p] = r]
  /\ processing' = [processing EXCEPT ![p] = "none"]
  /\ claimTokens' = [claimTokens EXCEPT ![p] = NoToken]
  /\ claimPayloads' = [claimPayloads EXCEPT ![p] = NoSession]

\* "missing" mode of the replace script: a first login is refused while the
\* cleanup of the previous session is still owned by a claim or a payload.
CleanupPending(p) ==
  \/ processing[p] # "none"
  \/ claimTokens[p] # NoToken
  \/ claimPayloads[p] # NoSession

\* Mutant: the script does not compare the record.
ReplaceWithoutCompare(p, exp) == exp = NoSession => ~CleanupPending(p)

\* Mutant: a first login does not look at the pending cleanup.
ReplaceOverCleanup(p, exp) == session[p] = exp

ReplaceApplies(p, exp) ==
  session[p] = exp /\ (exp = NoSession => ~CleanupPending(p))

\* Mutant: a login leaves the queued lease behind.
ReplaceKeepsLease(p, s) == WriteSession(p, s) /\ UNCHANGED leaseVars

replaceSessionAndCancelLease(p, s) ==
  WriteSession(p, s) /\ SetLease(p, "none")

setDisconnecting(p, s) ==
  WriteSession(p, s) /\ SetLease(p, "waiting")

deleteSessionIfUnchanged(p) ==
  WriteSession(p, NoSession) /\ SetLease(p, "none")

-----------------------------------------------------------------------------
(* scene_manager's side of the player's location.                          *)

IdentityOf(s) == [sid |-> s.sid, gen |-> s.gen]

\* LeaveScene for the deleted session s: "kept" and "gone" are success,
\* "pending" is the retryable refusal (holder has not released yet).
LeaveSceneVerdict(p, s) ==
  LET loc == location[p]
      who == decideLeaveIdentity(IdentityOf(loc), IdentityOf(s))
      holder == decideHolderRelease(
                  [noHolder |-> FALSE, ownerDead |-> FALSE,
                   markerReleased |-> loc.released, epoch |-> 1,
                   identityProven |-> who = "deleted"])
  IN IF loc = NoLocation THEN "gone"
     ELSE IF ~LeaveDeletes(who) THEN "kept"
     ELSE IF ReleaseDeletes(holder) THEN "delete"
     ELSE "pending"

LeaveScene(p, verdict) ==
  location' = [location EXCEPT ![p] = IF verdict = "delete" THEN NoLocation ELSE @]

\* The node that holds the player saves it and writes the handoff marker of
\* the current epoch (or is proved dead): a release LeaveScene may act on.
HolderRelease(p) ==
  /\ location[p] # NoLocation
  /\ ~location[p].released
  /\ location' = [location EXCEPT ![p].released = TRUE]
  /\ UNCHANGED <<sessionVars, leaseVars, rpc, claim, minted, reportable>>

-----------------------------------------------------------------------------
(* RPC handlers.                                                           *)

Return(r) == rpc' = [rpc EXCEPT ![r] = Idle]
Goto(r, pc) == rpc' = [rpc EXCEPT ![r].pc = pc]

loginGenerationAdvances(cur, inc) == cur = 0 \/ inc = 0 \/ inc > cur

\* login: max(counter, generation of the record read) + 1.
MintLoginGeneration(p, floor) ==
  (IF minted[p] > floor THEN minted[p] ELSE floor) + 1

NewOnlineSession(existing, c, gen) ==
  [sid |-> c[1], gate |-> c[2], gen |-> gen, state |-> "ONLINE",
   ver |-> IF existing = NoSession THEN 1 ELSE existing.ver + 1]

\* login's EnterGame chains of one player exclude each other with a lock that
\* a heartbeat renews; MarkOffline and SetDisconnecting do not take it.
PlayerLockFree(p) ==
  \/ LockExpires
  \/ \A r \in Calls : rpc[r] # Idle /\ rpc[r].p = p
                      => rpc[r].op \notin {"SetSession", "Reconnect"}

\* login's EnterGame chain: read the session, mint a generation, decide.  The
\* request may reach login after the link it came on was lost.
\* A DISCONNECTING record is reconnected unless its account differs.
EnterGame(r, p, c) ==
  LET existing == session[p]
      gen == MintLoginGeneration(p, IF existing = NoSession THEN 0 ELSE existing.gen)
  IN /\ rpc[r] = Idle
     /\ PlayerLockFree(p)
     /\ gen <= MaxGen
     /\ minted' = [minted EXCEPT ![p] = gen]
     /\ \E op \in {"SetSession", "Reconnect"} :
          /\ op = "Reconnect" =>
               existing # NoSession /\ existing.state = "DISCONNECTING"
          /\ rpc' = [rpc EXCEPT ![r] =
                       [op |-> op, pc |-> "get", p |-> p, exp |-> NoSession,
                        upd |-> NewOnlineSession(existing, c, gen)]]
     /\ UNCHANGED <<sessionVars, leaseVars, claim, reportable, location>>

\* SetSession: an identical record is a replay; otherwise the version must be
\* the next one and the generation must advance.
SetSessionGet(r) ==
  /\ rpc[r] # Idle /\ rpc[r].op = "SetSession" /\ rpc[r].pc = "get"
  /\ LET cur == session[rpc[r].p]
         s == rpc[r].upd
         accepted == \/ cur = NoSession
                     \/ s = cur
                     \/ /\ s.ver = cur.ver + 1
                        /\ loginGenerationAdvances(cur.gen, s.gen)
     IN rpc' = [rpc EXCEPT ![r] =
                  IF accepted THEN [rpc[r] EXCEPT !.pc = "cas", !.exp = cur] ELSE Idle]
  /\ UNCHANGED <<sessionVars, leaseVars, claim, envVars>>

\* Reconnect: the same request seen twice succeeds without writing; otherwise
\* only a DISCONNECTING record of an older generation is taken over.
ReconnectGet(r) ==
  /\ rpc[r] # Idle /\ rpc[r].op = "Reconnect" /\ rpc[r].pc = "get"
  /\ LET cur == session[rpc[r].p]
         s == rpc[r].upd
         replay == /\ cur # NoSession /\ cur.state = "ONLINE"
                   /\ IdentityOf(cur) = IdentityOf(s)
         accepted == /\ cur # NoSession /\ cur.state = "DISCONNECTING"
                     /\ loginGenerationAdvances(cur.gen, s.gen)
     IN rpc' = [rpc EXCEPT ![r] =
                  IF replay THEN [rpc[r] EXCEPT !.pc = "enter"]
                  ELSE IF accepted
                  THEN [rpc[r] EXCEPT !.pc = "cas", !.exp = cur, !.upd.ver = cur.ver + 1]
                  ELSE Idle]
  /\ UNCHANGED <<sessionVars, leaseVars, claim, envVars>>

\* The commit of SetSession and Reconnect, and its two refusals.
ReplaceCas(r) ==
  /\ rpc[r] # Idle /\ rpc[r].op \in {"SetSession", "Reconnect"} /\ rpc[r].pc = "cas"
  /\ \/ /\ ReplaceApplies(rpc[r].p, rpc[r].exp)
        /\ replaceSessionAndCancelLease(rpc[r].p, rpc[r].upd)
        /\ Goto(r, "enter")
     \/ /\ ~ReplaceApplies(rpc[r].p, rpc[r].exp)
        /\ Return(r)
        /\ UNCHANGED <<sessionVars, leaseVars>>
  /\ UNCHANGED <<claim, envVars>>

\* The reply was lost and the caller sends the same request again.
Replay(r) ==
  /\ rpc[r] # Idle /\ rpc[r].pc = "enter"
  /\ Goto(r, "get")
  /\ UNCHANGED <<sessionVars, leaseVars, claim, envVars>>

\* login's last step: scene_manager places the player, or refuses a request
\* whose login is older than the one recorded in the location.
EnterScene(r) ==
  /\ rpc[r] # Idle /\ rpc[r].pc = "enter"
  /\ LET p == rpc[r].p
         cur == location[p]
         v == decidePlacementIdentity(
                IF cur = NoLocation THEN NoIdentity ELSE IdentityOf(cur),
                cur # NoLocation, IdentityOf(rpc[r].upd))
         placed == [sid |-> v.identity.sid, gen |-> v.identity.gen, released |-> FALSE,
                    late |-> session[p] = NoSession \/ session[p].gen < v.identity.gen]
     IN location' = [location EXCEPT ![p] = IF PlacementAdmits(v) THEN placed ELSE @]
  /\ Return(r)
  /\ UNCHANGED <<sessionVars, leaseVars, claim, minted, reportable>>

\* The session is written but the chain can not go on: the bind of the session
\* fence failed or found the connection closed, or SetSession's reply was lost and
\* a second read confirms the commit.  login ends the chain and reports its own
\* connection, which may well be up, for a disconnect lease.
GiveUp(r) ==
  /\ rpc[r] # Idle /\ rpc[r].pc = "enter"
  /\ reportable' = reportable \cup {<<rpc[r].p, <<rpc[r].upd.sid, rpc[r].upd.gate>>>>}
  /\ Return(r)
  /\ UNCHANGED <<sessionVars, leaseVars, claim, minted, location>>

\* A gate drops out of etcd: it died, or only lost its registration while its
\* connections live on.  The dead-gate sweep reports its sessions either way.
GateLost(g) ==
  /\ reportable' = reportable \cup (Players \X {c \in Conns : c[2] = g})
  /\ UNCHANGED <<sessionVars, leaseVars, rpc, claim, minted, location>>

\* The link of c ends and the gate reports it.  A login sent on it before may
\* still be under way: its chain starts, and finishes, as on any other connection.
CloseConn(c) ==
  /\ reportable' = reportable \cup (Players \X {c})
  /\ UNCHANGED <<sessionVars, leaseVars, rpc, claim, minted, location>>

\* Mutant: the gate instance of a report is not compared.
NeverStaleReport(record, request) == FALSE

isStaleGateInstanceReport(record, request) ==
  record # NoGate /\ request # NoGate /\ record # request

\* A report from connection c matches the record: same session id, and not
\* from another gate instance that happened to reuse the id.
ReportMatches(s, c) ==
  s # NoSession /\ s.sid = c[1] /\ ~isStaleGateInstanceReport(s.gate, c[2])

\* SetDisconnecting for a connection whose link is gone (login's Disconnect),
\* that its login gave up on, or whose gate dropped out of etcd (the sweep): at
\* any time after the cause, retries and late calls included.  Every other case
\* of the handler returns without a write.
SetDisconnectingGet(r, p, c) ==
  /\ rpc[r] = Idle
  /\ <<p, c>> \in reportable
  /\ ReportMatches(session[p], c)
  /\ session[p].state = "ONLINE"
  /\ rpc' = [rpc EXCEPT ![r] =
               [op |-> "SetDisconnecting", pc |-> "cas", p |-> p, exp |-> session[p],
                upd |-> [session[p] EXCEPT !.state = "DISCONNECTING", !.ver = @ + 1]]]
  /\ UNCHANGED <<sessionVars, leaseVars, claim, envVars>>

SetDisconnectingCas(r) ==
  /\ rpc[r] # Idle /\ rpc[r].op = "SetDisconnecting" /\ rpc[r].pc = "cas"
  /\ \/ /\ session[rpc[r].p] = rpc[r].exp
        /\ setDisconnecting(rpc[r].p, rpc[r].upd)
     \/ /\ session[rpc[r].p] # rpc[r].exp
        /\ UNCHANGED <<sessionVars, leaseVars>>
  /\ Return(r)
  /\ UNCHANGED <<claim, envVars>>

\* MarkOffline, the end of a LeaveGame sent on connection c.
MarkOfflineGet(r, p, c) ==
  /\ rpc[r] = Idle
  /\ ReportMatches(session[p], c)
  /\ rpc' = [rpc EXCEPT ![r] =
               [op |-> "MarkOffline", pc |-> "cas", p |-> p, exp |-> session[p],
                upd |-> NoSession]]
  /\ UNCHANGED <<sessionVars, leaseVars, claim, envVars>>

MarkOfflineCas(r) ==
  /\ rpc[r] # Idle /\ rpc[r].op = "MarkOffline" /\ rpc[r].pc = "cas"
  /\ \/ /\ session[rpc[r].p] = rpc[r].exp
        /\ deleteSessionIfUnchanged(rpc[r].p)
        /\ Goto(r, "leave")
     \/ /\ session[rpc[r].p] # rpc[r].exp
        /\ Return(r)
        /\ UNCHANGED <<sessionVars, leaseVars>>
  /\ UNCHANGED <<claim, envVars>>

\* The synchronous LeaveScene: done; or refused until the holder releases, or
\* failed with or without effect, which all go on to the retry queue.
MarkOfflineLeave(r) ==
  /\ rpc[r] # Idle /\ rpc[r].op = "MarkOffline" /\ rpc[r].pc = "leave"
  /\ LET v == LeaveSceneVerdict(rpc[r].p, rpc[r].exp) IN
     \/ /\ v # "pending"
        /\ LeaveScene(rpc[r].p, v)
        /\ Return(r)
     \/ /\ \E reply \in {v, "lost"} : LeaveScene(rpc[r].p, reply)
        /\ Goto(r, "enqueue")
  /\ UNCHANGED <<sessionVars, leaseVars, claim, minted, reportable>>

\* Mutant: the snapshot keeps the gate of the live connection.
RetrySnapshotWithGate(s) == [s EXCEPT !.state = "DISCONNECTING"]

\* Mutant: the snapshot keeps the state of the deleted record.
RetrySnapshotOnline(s) == [s EXCEPT !.gate = NoGate]

\* The snapshot queued for the lease monitor is DISCONNECTING, and names no
\* gate: the player's connection is still up and must not be kicked.
RetrySnapshot(s) == [s EXCEPT !.state = "DISCONNECTING", !.gate = NoGate]

enqueueOfflineCleanup(p, snapshot) ==
  /\ session[p] = NoSession
  /\ \E due \in {"waiting", "due"} : ready' = [ready EXCEPT ![p] = due]
  /\ claimPayloads' = [claimPayloads EXCEPT ![p] = snapshot]

MarkOfflineEnqueue(r) ==
  /\ rpc[r] # Idle /\ rpc[r].op = "MarkOffline" /\ rpc[r].pc = "enqueue"
  /\ \/ enqueueOfflineCleanup(rpc[r].p, RetrySnapshot(rpc[r].exp))
     \/ /\ session[rpc[r].p] # NoSession
        /\ UNCHANGED <<ready, claimPayloads>>
  /\ Return(r)
  /\ UNCHANGED <<sessionVars, processing, claimTokens, claim, envVars>>

\* A handler or a login chain dies: process crash, lost lock, Redis error.
Abort(r) ==
  /\ rpc[r] # Idle
  /\ rpc[r].pc \in {"leave", "enqueue"} => HandlerFaults
  /\ Return(r)
  /\ UNCHANGED <<sessionVars, leaseVars, claim, envVars>>

-----------------------------------------------------------------------------
(* The lease monitor.                                                      *)

Drop(w) == claim' = [claim EXCEPT ![w] = Idle]
Owns(w) == claimTokens[claim[w].p] = claim[w].token

ReadyElapses(p) ==
  /\ ready[p] = "waiting"
  /\ ready' = [ready EXCEPT ![p] = "due"]
  /\ UNCHANGED <<sessionVars, processing, claimTokens, claimPayloads, rpc, claim, envVars>>

ClaimElapses(p) ==
  /\ processing[p] = "held"
  /\ processing' = [processing EXCEPT ![p] = "due"]
  /\ UNCHANGED <<sessionVars, ready, claimTokens, claimPayloads, rpc, claim, envVars>>

\* A claim token is a fresh uuid: nobody refers to it any more.
FreshTokens ==
  {t \in Tokens : /\ \A p \in Players : claimTokens[p] # t
                  /\ \A w \in Workers : claim[w] # Idle => claim[w].token # t}

\* Mutant: timed-out claims are never taken again.
ClaimReadyOnly(w, p) ==
  /\ claim[w] = Idle
  /\ ready[p] = "due"
  /\ \E t \in FreshTokens :
       /\ claimTokens' = [claimTokens EXCEPT ![p] = t]
       /\ claim' = [claim EXCEPT ![w] =
                      [pc |-> "pin", p |-> p, token |-> t, payload |-> NoSession,
                       kicked |-> FALSE]]
  /\ ready' = [ready EXCEPT ![p] = "none"]
  /\ processing' = [processing EXCEPT ![p] = "held"]
  /\ UNCHANGED <<sessionVars, claimPayloads, rpc, envVars>>

\* A timed-out claim goes back to ready; what is due in ready is claimed.
ClaimExpired(w, p) ==
  /\ claim[w] = Idle
  /\ ready[p] = "due" \/ processing[p] = "due"
  /\ \E t \in FreshTokens :
       /\ claimTokens' = [claimTokens EXCEPT ![p] = t]
       /\ claim' = [claim EXCEPT ![w] =
                      [pc |-> "pin", p |-> p, token |-> t, payload |-> NoSession,
                       kicked |-> FALSE]]
  /\ ready' = [ready EXCEPT ![p] = "none"]
  /\ processing' = [processing EXCEPT ![p] = "held"]
  /\ UNCHANGED <<sessionVars, claimPayloads, rpc, envVars>>

\* Mutant: the token of the old claim survives its recovery.
RecoverKeepsToken(p) ==
  /\ processing[p] = "due"
  /\ processing' = [processing EXCEPT ![p] = "none"]
  /\ ready' = [ready EXCEPT ![p] = "due"]
  /\ UNCHANGED <<sessionVars, claimTokens, claimPayloads, rpc, claim, envVars>>

\* The same script when the batch is full: recovered, not claimed again yet.
RecoverClaim(p) ==
  /\ processing[p] = "due"
  /\ processing' = [processing EXCEPT ![p] = "none"]
  /\ ready' = [ready EXCEPT ![p] = "due"]
  /\ claimTokens' = [claimTokens EXCEPT ![p] = NoToken]
  /\ UNCHANGED <<sessionVars, claimPayloads, rpc, claim, envVars>>

\* Pin the record the claim is about: the live session first, otherwise what
\* an earlier round or MarkOffline pinned, otherwise nothing.
PinPayload(w) ==
  /\ claim[w] # Idle /\ claim[w].pc = "pin"
  /\ LET p == claim[w].p
         payload == IF session[p] # NoSession THEN session[p] ELSE claimPayloads[p]
     IN \/ /\ Owns(w)
           /\ claimPayloads' = [claimPayloads EXCEPT ![p] = payload]
           /\ claim' = [claim EXCEPT ![w].pc = "probe", ![w].payload = payload]
        \/ /\ ~Owns(w)
           /\ Drop(w)
           /\ UNCHANGED claimPayloads
  /\ UNCHANGED <<sessionVars, ready, processing, claimTokens, rpc, envVars>>

\* What handleLeaseExpiry does next.  The AFK pass is asked only when the
\* session key exists; a failed read counts as "exists".
ProbeNext(w, afk, readFails) ==
  LET payload == claim[w].payload IN
  IF payload = NoSession THEN "commit"
  ELSE IF payload.state # "DISCONNECTING" THEN "ack"
  ELSE IF (session[claim[w].p] # NoSession \/ readFails) /\ afk # "inactive" THEN "rearm"
  ELSE "commit"

Probe(w, afk, readFails) ==
  /\ claim[w] # Idle /\ claim[w].pc = "probe"
  /\ readFails => ReadFaults
  /\ claim' = [claim EXCEPT ![w].pc = ProbeNext(w, afk, readFails)]
  /\ UNCHANGED <<sessionVars, leaseVars, rpc, envVars>>

ClaimGone(p) ==
  /\ processing' = [processing EXCEPT ![p] = "none"]
  /\ claimTokens' = [claimTokens EXCEPT ![p] = NoToken]
  /\ claimPayloads' = [claimPayloads EXCEPT ![p] = NoSession]

\* Mutant: a worker that lost its claim rearms as if it still held it.
RearmWithoutToken(w) ==
  /\ claim[w] # Idle /\ claim[w].pc = "rearm"
  /\ LET p == claim[w].p IN
     /\ ready' = [ready EXCEPT ![p] =
                    IF session[p] # NoSession /\ session[p] = claim[w].payload
                    THEN "waiting" ELSE @]
     /\ ClaimGone(p)
  /\ Drop(w)
  /\ UNCHANGED <<sessionVars, rpc, envVars>>

\* Put the lease off: only for the very record that was pinned.
RearmClaim(w) ==
  /\ claim[w] # Idle /\ claim[w].pc = "rearm"
  /\ LET p == claim[w].p IN
     \/ /\ Owns(w)
        /\ ready' = [ready EXCEPT ![p] =
                       IF session[p] # NoSession /\ session[p] = claim[w].payload
                       THEN "waiting" ELSE @]
        /\ ClaimGone(p)
     \/ /\ ~Owns(w)
        /\ UNCHANGED leaseVars
  /\ Drop(w)
  /\ UNCHANGED <<sessionVars, rpc, envVars>>

\* Delete exactly the pinned record and become the owner of its cleanup.
CommitExpiry(w) ==
  /\ claim[w] # Idle /\ claim[w].pc = "commit"
  /\ LET p == claim[w].p
         payload == claim[w].payload
     IN \/ /\ Owns(w)
           /\ session[p] \in {NoSession, payload}
           /\ session' = [session EXCEPT ![p] = NoSession]
           /\ claim' = [claim EXCEPT ![w].pc = IF payload = NoSession THEN "ack" ELSE "kick"]
           /\ UNCHANGED leaseVars
        \/ /\ Owns(w)
           /\ session[p] \notin {NoSession, payload}
           /\ ClaimGone(p)
           /\ Drop(w)
           /\ UNCHANGED <<session, ready>>
        \/ /\ ~Owns(w)
           /\ Drop(w)
           /\ UNCHANGED <<session, leaseVars>>
  /\ UNCHANGED <<gateIndex, gateRegistry, rpc, envVars>>

\* Tell the gate the lease is over; nothing is sent without a gate id.
SendLeaseExpired(w, ok) ==
  /\ claim[w] # Idle /\ claim[w].pc = "kick"
  /\ claim[w].payload.gate = NoGate => ok
  /\ claim' = [claim EXCEPT ![w].pc = "leave", ![w].kicked = ok]
  /\ UNCHANGED <<sessionVars, leaseVars, rpc, envVars>>

\* LeaveScene with the identity of the deleted record; the claim is kept for
\* another round unless both side effects succeeded.
NotifyLeave(w) ==
  /\ claim[w] # Idle /\ claim[w].pc = "leave"
  /\ LET v == LeaveSceneVerdict(claim[w].p, claim[w].payload)
     IN /\ v # "pending"
        /\ LeaveScene(claim[w].p, v)
  /\ claim' = [claim EXCEPT ![w] =
                 IF claim[w].kicked THEN [claim[w] EXCEPT !.pc = "ack"] ELSE Idle]
  /\ UNCHANGED <<sessionVars, leaseVars, rpc, minted, reportable>>

NotifyLeaveFails(w) ==
  /\ claim[w] # Idle /\ claim[w].pc = "leave"
  /\ \E reply \in {LeaveSceneVerdict(claim[w].p, claim[w].payload), "lost"} :
       LeaveScene(claim[w].p, reply)
  /\ Drop(w)
  /\ UNCHANGED <<sessionVars, leaseVars, rpc, minted, reportable>>

AckClaim(w) ==
  /\ claim[w] # Idle /\ claim[w].pc = "ack"
  /\ IF Owns(w) THEN ClaimGone(claim[w].p)
     ELSE UNCHANGED <<processing, claimTokens, claimPayloads>>
  /\ Drop(w)
  /\ UNCHANGED <<sessionVars, ready, rpc, envVars>>

\* The heartbeat of a worker extends only claims that still carry its token.
RenewClaim(w) ==
  /\ claim[w] # Idle /\ claim[w].pc # "pin"
  /\ Owns(w) /\ processing[claim[w].p] = "due"
  /\ processing' = [processing EXCEPT ![claim[w].p] = "held"]
  /\ UNCHANGED <<sessionVars, ready, claimTokens, claimPayloads, rpc, claim, envVars>>

\* A replica dies, or a script of its round fails: the claim stays behind.
WorkerCrash(w) ==
  /\ claim[w] # Idle
  /\ Drop(w)
  /\ UNCHANGED <<sessionVars, leaseVars, rpc, envVars>>

-----------------------------------------------------------------------------
ProbeAny(w) ==
  \E afk \in {"inactive", "active", "unknown"}, readFails \in BOOLEAN :
    Probe(w, afk, readFails)

CallNext(r) ==
  \/ \E p \in Players, c \in Conns : EnterGame(r, p, c)
  \/ SetSessionGet(r)
  \/ ReconnectGet(r)
  \/ ReplaceCas(r)
  \/ Replay(r)
  \/ EnterScene(r)
  \/ GiveUp(r)
  \/ \E p \in Players, c \in Conns : SetDisconnectingGet(r, p, c)
  \/ SetDisconnectingCas(r)
  \/ \E p \in Players, c \in Conns : MarkOfflineGet(r, p, c)
  \/ MarkOfflineCas(r)
  \/ MarkOfflineLeave(r)
  \/ MarkOfflineEnqueue(r)
  \/ Abort(r)

\* One claim from pinning to acknowledgement, or to the point where it fails.
RoundStep(w) ==
  \/ PinPayload(w)
  \/ ProbeAny(w)
  \/ RearmClaim(w)
  \/ CommitExpiry(w)
  \/ \E ok \in BOOLEAN : SendLeaseExpired(w, ok)
  \/ NotifyLeave(w)
  \/ NotifyLeaveFails(w)
  \/ AckClaim(w)
  \/ WorkerCrash(w)

WorkerNext(w) ==
  \/ \E p \in Players : ClaimExpired(w, p)
  \/ RoundStep(w)
  \/ RenewClaim(w)

Next ==
  \/ \E r \in Calls : CallNext(r)
  \/ \E w \in Workers : WorkerNext(w)
  \/ \E p \in Players : ReadyElapses(p)
  \/ \E p \in Players : ClaimElapses(p)
  \/ \E p \in Players : RecoverClaim(p)
  \/ \E p \in Players : HolderRelease(p)
  \/ \E c \in Conns : CloseConn(c)
  \/ \E g \in Gates : GateLost(g)

Spec == Init /\ [][Next]_vars

-----------------------------------------------------------------------------
(* Safety.                                                                 *)

IsOnline(p) == session[p] # NoSession /\ session[p].state = "ONLINE"
IsDisconnecting(p) == session[p] # NoSession /\ session[p].state = "DISCONNECTING"

\* The gate index, which the dead-gate sweep reads instead of the sessions,
\* holds a player exactly when its record is ONLINE on that gate, whatever
\* mixture of logins, reconnects, disconnects and deletions ran.
IndexExact ==
  \A g \in Gates, p \in Players :
    p \in gateIndex[g] <=> IsOnline(p) /\ session[p].gate = g

\* The registry of the slot names exactly the gates with a non-empty index:
\* the sweep neither misses a gate nor visits one for ever.
RegistryExact == gateRegistry = {g \in Gates : gateIndex[g] # {}}

\* A player that is back ONLINE has no lease left that could expire: neither
\* queued, nor claimed, nor pinned for a retry.
OnlineHasNoLease ==
  \A p \in Players : IsOnline(p) => ready[p] = "none" /\ ~CleanupPending(p)

\* A DISCONNECTING record is always queued or claimed, so the monitor will
\* get to it even when the worker that claimed it died.
DisconnectingHasLease ==
  \A p \in Players : IsDisconnecting(p) => ready[p] # "none" \/ processing[p] # "none"

\* The four keys of the lease agree: a token exists exactly for a claimed
\* entry, and a pinned payload is never left without an entry to find it by.
LeaseKeysAgree ==
  \A p \in Players :
    /\ claimTokens[p] # NoToken <=> processing[p] # "none"
    /\ claimPayloads[p] # NoSession => ready[p] # "none" \/ processing[p] # "none"

\* LeaseExpired, on which the gate force-closes the connection, is only ever
\* sent for a connection that was reported: its link is gone, this player's own
\* login gave up on it after the commit, or its gate dropped out of etcd.  The
\* cleanup of another connection, or of a player that asked to leave, kicks nobody.
OnlyReportedKicked ==
  \A w \in Workers :
    claim[w] # Idle /\ claim[w].pc = "kick" /\ claim[w].payload.gate # NoGate
      => <<claim[w].p, <<claim[w].payload.sid, claim[w].payload.gate>>>> \in reportable

\* A session only turns DISCONNECTING because its own connection was reported; a
\* late report for another gate instance with the same session id does nothing.
OnlyReportedDisconnects ==
  \A p \in Players :
    IsDisconnecting(p) => <<p, <<session[p].sid, session[p].gate>>>> \in reportable

\* The scene location of the login that is ONLINE is never deleted by the
\* cleanup of an earlier one, however late its LeaveScene arrives.
LiveLocationKept ==
  [][\A p \in Players :
       location[p] # NoLocation /\ location'[p] = NoLocation
         => ~(IsOnline(p) /\ session[p].gen = location[p].gen)]_vars

\* While a player has a record, its login generation never goes back, and
\* every rewrite raises the version: two handlers that read the same record
\* can not both commit.
RecordMovesForward ==
  [][\A p \in Players :
       session[p] # NoSession /\ session'[p] # NoSession /\ session'[p] # session[p]
         => /\ session'[p].ver > session[p].ver
            /\ session'[p].gen >= session[p].gen
            /\ IsOnline(p)' => session'[p].gen > session[p].gen]_vars

\* Somebody still answers for the location of player p: a record that is at
\* least as new, a queued or claimed cleanup, or a MarkOffline on its way.
Answered(p) ==
  LET covers(s) == s # NoSession /\ s.gen >= location[p].gen
  IN \/ covers(session[p])
     \/ covers(claimPayloads[p])
     \/ \E r \in Calls : /\ rpc[r] # Idle /\ rpc[r].p = p
                         /\ rpc[r].pc \in {"leave", "enqueue"}
                         /\ covers(rpc[r].exp)

\* A location does not outlive the session it was written for unless its
\* cleanup is still on the way: no ghost player is left in a scene.
NoGhostLocation ==
  \A p \in Players : location[p] # NoLocation /\ ~location[p].late => Answered(p)

-----------------------------------------------------------------------------
(* The inductive invariant behind the safety properties.                   *)

Reported(p, s) == <<p, <<s.sid, s.gate>>>> \in reportable

\* What a handler in flight carries from its read to its commit.
CallGood(x) ==
  /\ x.op \in {"SetSession", "Reconnect"} =>
       /\ x.pc \in {"get", "cas", "enter"}
       /\ x.upd \in Session
       /\ x.upd.state = "ONLINE"
       /\ x.upd.gate # NoGate
  /\ x.op = "SetDisconnecting" =>
       /\ x.pc = "cas"
       /\ x.upd \in Session
       /\ x.upd.state = "DISCONNECTING"
       /\ x.upd.gate # NoGate
       /\ Reported(x.p, x.upd)
  /\ x.op = "MarkOffline" =>
       /\ x.pc \in {"cas", "leave", "enqueue"}
       /\ x.exp \in Session

CallInv == \A r \in Calls : rpc[r] # Idle => CallGood(rpc[r])

\* Every record in Redis names the gate instance of its connection.
GateKnown == \A p \in Players : session[p] # NoSession => session[p].gate # NoGate

\* What a worker knows of the record it pinned while its token still counts.
ClaimGood(w) ==
  LET x == claim[w] IN
  /\ x.pc \in {"rearm", "kick", "leave"} => x.payload # NoSession
  /\ x.pc \in {"rearm", "commit", "kick", "leave"} /\ x.payload # NoSession
       => x.payload.state = "DISCONNECTING"
  /\ Owns(w) /\ x.pc # "pin" => session[x.p] \in {NoSession, x.payload}
  /\ Owns(w) /\ x.pc \in {"kick", "leave"} => session[x.p] = NoSession
  /\ Owns(w) /\ x.pc = "ack" => ~IsDisconnecting(x.p)

ClaimInv == \A w \in Workers : claim[w] # Idle => ClaimGood(w)

\* A payload that names a gate names a connection that was reported.
PayloadsReported ==
  /\ \A p \in Players : claimPayloads[p] # NoSession /\ claimPayloads[p].gate # NoGate
                        => Reported(p, claimPayloads[p])
  /\ \A w \in Workers : claim[w] # Idle /\ claim[w].payload # NoSession
                         /\ claim[w].payload.gate # NoGate
                        => Reported(claim[w].p, claim[w].payload)

IInv ==
  /\ TypeOK
  /\ CallInv
  /\ GateKnown
  /\ IndexExact
  /\ RegistryExact
  /\ OnlineHasNoLease
  /\ LeaseKeysAgree
  /\ DisconnectingHasLease
  /\ OnlyReportedDisconnects
  /\ ClaimInv
  /\ PayloadsReported

-----------------------------------------------------------------------------
(* The promise of SessionLifecycle, with the four lease keys read as        *)
(* "cleaning" and the record as "online" or "away".                        *)

phaseOf(p) ==
  IF IsOnline(p) THEN "online"
  ELSE IF IsDisconnecting(p) THEN "away"
  ELSE IF CleanupPending(p) THEN "cleaning"
  ELSE "absent"

Lifecycle == INSTANCE SessionLifecycle WITH
  phase <- [p \in Players |-> phaseOf(p)],
  gen <- [p \in Players |-> IF session[p] = NoSession THEN 0 ELSE session[p].gen]

\* Every step of the handlers and of the lease monitors, in any interleaving,
\* is a step of the life cycle or changes nothing a caller can see.
ImplementsLifecycle == Lifecycle!Spec

-----------------------------------------------------------------------------
(* Liveness.                                                               *)

\* A round of a worker that still owns its claim is not interrupted for ever:
\* crashes, lost replies and claim timeouts may come between any two steps,
\* but not every time (the claim timeout exceeds the time a round takes and
\* the heartbeat renews it).
OwnerSteps(A(_)) == \E w \in Workers : claim[w] # Idle /\ Owns(w) /\ A(w)

ProbeSaysInactive(w) == Probe(w, "inactive", FALSE)
KickDelivered(w) == SendLeaseExpired(w, TRUE)
LeaveDelivered(w) == claim[w].kicked /\ NotifyLeave(w)

Fairness ==
  /\ \A r \in Calls : WF_vars(MarkOfflineLeave(r) \/ MarkOfflineEnqueue(r))
  /\ \A p \in Players : /\ WF_vars(ReadyElapses(p))
                       /\ WF_vars(ClaimElapses(p))
                       /\ WF_vars(HolderRelease(p))
                       /\ WF_vars(\E w \in Workers : ClaimExpired(w, p))
  /\ \A w \in Workers : WF_vars(RoundStep(w))
  /\ SF_vars(OwnerSteps(PinPayload))
  /\ SF_vars(OwnerSteps(ProbeSaysInactive))
  /\ SF_vars(OwnerSteps(CommitExpiry))
  /\ SF_vars(OwnerSteps(KickDelivered))
  /\ SF_vars(OwnerSteps(LeaveDelivered))
  /\ SF_vars(OwnerSteps(AckClaim))

LiveSpec == Spec /\ Fairness

\* The player is either online, or gone with nothing left behind: no record,
\* no lease, claim or payload, no location in a scene (of an EnterScene that
\* did not come too late).
Settled(p) ==
  \/ IsOnline(p)
  \/ /\ session[p] = NoSession /\ ~CleanupPending(p)
     /\ location[p] = NoLocation \/ location[p].late

\* However rounds and handlers fail, a player always settles again: a
\* DISCONNECTING record runs out or is taken over, the refusal of first logins
\* during a cleanup ends, and the location of a session that is gone is removed.
PlayerSettles == \A p \in Players : []<>Settled(p)
=============================================================================
