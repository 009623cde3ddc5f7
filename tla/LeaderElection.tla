--------------------------- MODULE LeaderElection ---------------------------
(***************************************************************************)
(* The single-leader election of shared/leader: one Redis key taken with   *)
(* SET NX EX, renewed by a heartbeat every TTL/3, and a leader that steps  *)
(* down by itself when its renewals fail.  The session reconciler of       *)
(* player_locator, scene_manager and the maintenance loops of guild, trade *)
(* and player_inbox run under it; login's player lock shares its           *)
(* heartbeat.                                                              *)
(*                                                                         *)
(* Time is discrete and every clock is kept as an age or as a remaining    *)
(* time, so that the state space is finite without a bound on time.        *)
(* A Redis call is sent, executed by the server and answered in separate   *)
(* steps; its answer may be lost, the client library may send it again,    *)
(* and a request whose caller has given up may still execute later.        *)
(***************************************************************************)
EXTENDS Naturals, FiniteSets

CONSTANTS
  Replicas,      \* the processes that campaign for the key
  Tokens,        \* random lock values
  NoToken,       \* the key does not exist; no value drawn
  TTL,           \* lifetime of the key
  RenewTimeout,  \* context timeout of one renewal
  SocketBound,   \* socket read plus write timeout, 0 if the context bounds it
  Jitter,        \* how late a heartbeat timer may fire
  StartDelay,    \* bound on the time from SETNX to the running heartbeat
  MaxLate,       \* bound: abandoned requests still on their way to the server
  MaxFaults      \* bound: client retries, crashes, and failed calls other than
                 \* renewals

ASSUME ConstantsAssumption ==
  /\ NoToken \notin Tokens
  /\ TTL \in Nat /\ TTL >= 3
  /\ RenewTimeout \in Nat /\ SocketBound \in Nat
  /\ Jitter \in Nat /\ StartDelay \in Nat
  /\ MaxLate \in Nat /\ MaxFaults \in Nat

VARIABLES
  keyVal,    \* value of the key, NoToken when it does not exist
  keyLeft,   \* time until it expires
  role,      \* where Run is
  val,       \* the value drawn for the present campaign
  since,     \* age of lastOK (of campaignAt before the first renewal);
             \* while waiting: time waited
  beat,      \* offset from lastOK of the next renewal
  call,      \* the Redis call in flight
  reply,     \* the server's answer to it
  sent,      \* age of that call
  late,      \* abandoned requests that may still be executed
  stopped,   \* Stop was called
  faults     \* faults so far

vars == <<keyVal, keyLeft, role, val, since, beat, call, reply, sent, late,
          stopped, faults>>

-----------------------------------------------------------------------------
(* Timing                                                                  *)

Interval == TTL \div 3

\* Worst case of one renewal: the context bounds what happens before the
\* socket is written, the socket timeouts the rest.
CallBudget(ctxTimeout, clientBound) ==
  IF clientBound = 0 THEN ctxTimeout ELSE ctxTimeout + clientBound

MaxCall == CallBudget(RenewTimeout, SocketBound)

Guaranteed == MaxCall < Interval /\ 2 * Interval + MaxCall < TTL

\* Mutant: step down on the first failing beat.
FenceAfterOneBeat == IF Guaranteed THEN Interval ELSE 0

\* Age of lastOK from which a failed renewal makes the leader step down.
FenceAfter == IF Guaranteed THEN 2 * Interval ELSE 0

-----------------------------------------------------------------------------
Roles == {"idle", "waiting", "campaign", "elected", "leading", "resigning",
          "releasing", "done"}
Requests == [op : {"setnx", "renew", "release"}, val : Tokens]

\* What IsLeader() of replica r reports.
IsLeader(r) == role[r] \in {"elected", "leading", "resigning"}

\* Mutant: the lock value is not drawn anew (every replica may use the same).
AnyToken == Tokens

\* randomToken: never a value that is in use anywhere.
FreshTokens ==
  {t \in Tokens : /\ t # keyVal
                  /\ \A r \in Replicas : t # val[r]
                  /\ \A m \in late : t # m.val}

\* Mutant: the release script deletes the key without comparing its value.
ExecuteNoOwnerCheck(op, v) ==
  \/ /\ op = "setnx" /\ keyVal = NoToken
     /\ keyVal' = v /\ keyLeft' = TTL
  \/ /\ op = "renew" /\ keyVal = v
     /\ keyLeft' = TTL /\ UNCHANGED keyVal
  \/ /\ op = "release"
     /\ keyVal' = NoToken /\ keyLeft' = 0
  \/ /\ \/ op = "setnx" /\ keyVal # NoToken
        \/ op = "renew" /\ keyVal # v
        \/ op = "owned"
     /\ UNCHANGED <<keyVal, keyLeft>>

\* The server executes op with value v: SET NX EX and the three scripts.
Execute(op, v) ==
  \/ /\ op = "setnx" /\ keyVal = NoToken
     /\ keyVal' = v /\ keyLeft' = TTL
  \/ /\ op = "renew" /\ keyVal = v
     /\ keyLeft' = TTL /\ UNCHANGED keyVal
  \/ /\ op = "release" /\ keyVal = v
     /\ keyVal' = NoToken /\ keyLeft' = 0
  \/ /\ \/ op = "setnx" /\ keyVal # NoToken
        \/ op \in {"renew", "release"} /\ keyVal # v
        \/ op = "owned"
     /\ UNCHANGED <<keyVal, keyLeft>>

\* Its answer: SETNX took the key, or the key holds v.
Answer(op, v) == IF op = "setnx" THEN keyVal = NoToken ELSE keyVal = v

\* Replica r has no call in flight any more.
CallDone(r) ==
  /\ call' = [call EXCEPT ![r] = "none"]
  /\ reply' = [reply EXCEPT ![r] = "pending"]
  /\ sent' = [sent EXCEPT ![r] = 0]

Send(r, op) ==
  /\ call' = [call EXCEPT ![r] = op]
  /\ reply' = [reply EXCEPT ![r] = "pending"]
  /\ sent' = [sent EXCEPT ![r] = 0]

\* A request given up before the server executed it is lost, or arrives late.
Abandon(r) ==
  \/ UNCHANGED late
  \/ /\ reply[r] = "pending" /\ call[r] \in {"setnx", "renew", "release"}
     /\ Cardinality(late) < MaxLate
     /\ late' = late \cup {[op |-> call[r], val |-> val[r]]}

Fault == faults < MaxFaults /\ faults' = faults + 1

-----------------------------------------------------------------------------
(* The server                                                              *)

ServerExecutes(r) ==
  /\ call[r] # "none" /\ reply[r] = "pending"
  /\ Execute(call[r], val[r])
  /\ reply' = [reply EXCEPT ![r] = IF Answer(call[r], val[r]) THEN "yes" ELSE "no"]
  /\ UNCHANGED <<role, val, since, beat, call, sent, late, stopped, faults>>

LateExecutes(m) ==
  /\ Execute(m.op, m.val)
  /\ late' = late \ {m}
  /\ UNCHANGED <<role, val, since, beat, call, reply, sent, stopped, faults>>

\* The client library sends the call of r again: the first copy was executed
\* and its answer lost, or it was lost, or it is still on its way.
ClientRetries(r) ==
  /\ call[r] # "none" /\ Fault
  /\ Abandon(r)
  /\ reply' = [reply EXCEPT ![r] = "pending"]
  /\ UNCHANGED <<keyVal, keyLeft, role, val, since, beat, call, sent, stopped>>

-----------------------------------------------------------------------------
(* Run                                                                     *)

\* The head of the loop: leave it after Stop, or campaign with a new value.
\* Values are only compared, so which unused one is drawn does not matter.
Campaign(r) ==
  /\ ~stopped[r]
  /\ role[r] = "idle" \/ (role[r] = "waiting" /\ since[r] >= Interval)
  /\ FreshTokens # {}
  /\ val' = [val EXCEPT ![r] = CHOOSE t \in FreshTokens : TRUE]
  /\ role' = [role EXCEPT ![r] = "campaign"]
  /\ since' = [since EXCEPT ![r] = 0]
  /\ Send(r, "setnx")
  /\ UNCHANGED <<keyVal, keyLeft, beat, late, stopped, faults>>

RunReturns(r) ==
  /\ stopped[r]
  /\ role[r] = "idle" \/ (role[r] = "waiting" /\ since[r] >= Interval)
  /\ role' = [role EXCEPT ![r] = "done"]
  /\ since' = [since EXCEPT ![r] = 0]
  /\ UNCHANGED <<keyVal, keyLeft, val, beat, call, reply, sent, late, stopped, faults>>

\* SETNX took the key, or found it taken and the value in it is the
\* campaign's own: isLeader becomes true, the callback runs.
Elected(r) ==
  /\ role[r] = "campaign" /\ reply[r] = "yes"
  /\ role' = [role EXCEPT ![r] = "elected"]
  /\ CallDone(r)
  /\ UNCHANGED <<keyVal, keyLeft, val, since, beat, late, stopped, faults>>

\* SETNX found the key taken: ask whether the value is one's own.
CheckOwned(r) ==
  /\ role[r] = "campaign" /\ call[r] = "setnx" /\ reply[r] = "no"
  /\ Send(r, "owned")
  /\ UNCHANGED <<keyVal, keyLeft, role, val, since, beat, late, stopped, faults>>

\* The iteration of the loop ends; its variables go out of scope.
EndIteration(r, next) ==
  /\ role' = [role EXCEPT ![r] = next]
  /\ val' = [val EXCEPT ![r] = NoToken]
  /\ since' = [since EXCEPT ![r] = 0]
  /\ beat' = [beat EXCEPT ![r] = 0]
  /\ CallDone(r)

\* Mutant: Run returns instead of waiting for the next campaign.
NotOwnedReturns(r) ==
  /\ role[r] = "campaign" /\ call[r] = "owned" /\ reply[r] = "no"
  /\ EndIteration(r, "done")
  /\ UNCHANGED <<keyVal, keyLeft, late, stopped, faults>>

\* Somebody else leads: wait one interval.
NotOwned(r) ==
  /\ role[r] = "campaign" /\ call[r] = "owned" /\ reply[r] = "no"
  /\ EndIteration(r, "waiting")
  /\ UNCHANGED <<keyVal, keyLeft, late, stopped, faults>>

CampaignFails(r) ==
  /\ role[r] = "campaign" /\ Fault
  /\ Abandon(r)
  /\ EndIteration(r, "waiting")
  /\ UNCHANGED <<keyVal, keyLeft, stopped>>

\* startHeartbeat: the first renewal is due one interval after SETNX was sent.
StartHeartbeat(r) ==
  /\ role[r] = "elected"
  /\ role' = [role EXCEPT ![r] = "leading"]
  /\ beat' = [beat EXCEPT ![r] = Interval]
  /\ UNCHANGED <<keyVal, keyLeft, val, since, call, reply, sent, late, stopped, faults>>

\* The heartbeat timer fires.
Beat(r) ==
  /\ role[r] = "leading" /\ call[r] = "none" /\ since[r] >= beat[r]
  /\ Send(r, "renew")
  /\ UNCHANGED <<keyVal, keyLeft, role, val, since, beat, late, stopped, faults>>

\* A successful renewal: lastOK is the time it was sent.
Renewed(r) ==
  /\ role[r] = "leading" /\ call[r] = "renew" /\ reply[r] = "yes"
  /\ since' = [since EXCEPT ![r] = sent[r]]
  /\ beat' = [beat EXCEPT ![r] = Interval]
  /\ CallDone(r)
  /\ UNCHANGED <<keyVal, keyLeft, role, val, late, stopped, faults>>

\* Mutant: a renewal that finds the key lost is tried again like a failed one.
RenewLostRetried(r) ==
  /\ role[r] = "leading" /\ call[r] = "renew" /\ reply[r] = "no"
  /\ beat' = [beat EXCEPT ![r] = @ + Interval]
  /\ CallDone(r)
  /\ UNCHANGED <<keyVal, keyLeft, role, val, since, late, stopped, faults>>

\* The key has another owner or is gone: onLost.
RenewLost(r) ==
  /\ role[r] = "leading" /\ call[r] = "renew" /\ reply[r] = "no"
  /\ role' = [role EXCEPT ![r] = "resigning"]
  /\ CallDone(r)
  /\ UNCHANGED <<keyVal, keyLeft, val, since, beat, late, stopped, faults>>

\* A failed renewal: step down if the last success is too old, else try again
\* at the next beat.  Renewals may fail for ever.
RenewFails(r) ==
  /\ role[r] = "leading" /\ call[r] = "renew"
  /\ Abandon(r)
  /\ CallDone(r)
  /\ \/ /\ since[r] >= FenceAfter
        /\ role' = [role EXCEPT ![r] = "resigning"]
        /\ UNCHANGED beat
     \/ /\ since[r] < FenceAfter
        /\ beat' = [beat EXCEPT ![r] = @ + Interval]
        /\ UNCHANGED role
  /\ UNCHANGED <<keyVal, keyLeft, val, since, stopped, faults>>

\* whileLeader returns by itself.
Resign(r) ==
  /\ role[r] = "leading"
  /\ role' = [role EXCEPT ![r] = "resigning"]
  /\ UNCHANGED <<keyVal, keyLeft, val, since, beat, call, reply, sent, late, stopped, faults>>

\* Stop(): no further campaign; the term is cancelled only if leadCancel is
\* already set, which happens after isLeader was set (StartHeartbeat).
Stop(r) ==
  /\ ~stopped[r]
  /\ stopped' = [stopped EXCEPT ![r] = TRUE]
  /\ role' = [role EXCEPT ![r] = IF @ = "leading" THEN "resigning" ELSE @]
  /\ UNCHANGED <<keyVal, keyLeft, val, since, beat, call, reply, sent, late, faults>>

\* stopHB waits for the renewal in flight and ignores its outcome.
HeartbeatStops(r) ==
  /\ role[r] = "resigning" /\ call[r] = "renew"
  /\ \/ reply[r] # "pending" /\ UNCHANGED <<late, faults>>
     \/ Abandon(r) /\ Fault
  /\ CallDone(r)
  /\ UNCHANGED <<keyVal, keyLeft, role, val, since, beat, stopped>>

\* isLeader becomes false and the lock is given back.
Demote(r) ==
  /\ role[r] = "resigning" /\ call[r] = "none"
  /\ role' = [role EXCEPT ![r] = "releasing"]
  /\ since' = [since EXCEPT ![r] = 0]
  /\ beat' = [beat EXCEPT ![r] = 0]
  /\ Send(r, "release")
  /\ UNCHANGED <<keyVal, keyLeft, val, late, stopped, faults>>

Released(r) ==
  /\ role[r] = "releasing"
  /\ \/ reply[r] # "pending" /\ UNCHANGED <<late, faults>>
     \/ Abandon(r) /\ Fault
  /\ EndIteration(r, "idle")
  /\ UNCHANGED <<keyVal, keyLeft, stopped>>

\* The process dies, possibly with a request on its way, and is restarted.
Crash(r) ==
  /\ role[r] # "done" /\ Fault
  /\ Abandon(r)
  /\ EndIteration(r, "idle")
  /\ stopped' = [stopped EXCEPT ![r] = FALSE]
  /\ UNCHANGED <<keyVal, keyLeft>>

-----------------------------------------------------------------------------
(* Time                                                                    *)

\* What the code waits for has happened by its deadline: a call returns
\* within MaxCall, a timer fires within Jitter, the heartbeat runs within
\* StartDelay of SETNX, and a cancelled term ends at once.
MayWait(r) ==
  /\ role[r] \in {"campaign", "elected"} => since[r] < StartDelay
  /\ (role[r] = "leading" /\ call[r] = "none") => since[r] < beat[r] + Jitter
  /\ call[r] = "renew" => sent[r] < MaxCall
  /\ ~(role[r] = "resigning" /\ call[r] = "none")

Older(r) ==
  IF role[r] = "waiting"
    THEN IF since[r] < Interval THEN since[r] + 1 ELSE since[r]
    ELSE IF role[r] \in {"campaign", "elected", "leading", "resigning"}
           THEN since[r] + 1 ELSE since[r]

Tick ==
  /\ \A r \in Replicas : MayWait(r)
  /\ since' = [r \in Replicas |-> Older(r)]
  /\ sent' = [r \in Replicas |-> IF call[r] = "renew" THEN sent[r] + 1 ELSE sent[r]]
  /\ keyLeft' = IF keyLeft > 0 THEN keyLeft - 1 ELSE 0
  /\ keyVal' = IF keyLeft > 1 THEN keyVal ELSE NoToken
  /\ UNCHANGED <<role, val, beat, call, reply, late, stopped, faults>>

-----------------------------------------------------------------------------
Init ==
  /\ keyVal = NoToken /\ keyLeft = 0
  /\ role = [r \in Replicas |-> "idle"]
  /\ val = [r \in Replicas |-> NoToken]
  /\ since = [r \in Replicas |-> 0]
  /\ beat = [r \in Replicas |-> 0]
  /\ call = [r \in Replicas |-> "none"]
  /\ reply = [r \in Replicas |-> "pending"]
  /\ sent = [r \in Replicas |-> 0]
  /\ late = {}
  /\ stopped = [r \in Replicas |-> FALSE]
  /\ faults = 0

\* What a running replica, its client and the server do by themselves.
Progress(r) ==
  \/ ServerExecutes(r) \/ Campaign(r) \/ RunReturns(r) \/ Elected(r)
  \/ CheckOwned(r) \/ NotOwned(r) \/ StartHeartbeat(r) \/ Beat(r)
  \/ Renewed(r) \/ RenewLost(r) \/ HeartbeatStops(r) \/ Demote(r) \/ Released(r)

Environment(r) ==
  \/ ClientRetries(r) \/ CampaignFails(r) \/ RenewFails(r)
  \/ Resign(r) \/ Stop(r) \/ Crash(r)

Next ==
  \/ \E r \in Replicas : Progress(r) \/ Environment(r)
  \/ \E m \in late : LateExecutes(m)
  \/ Tick

Spec == Init /\ [][Next]_vars

\* Goroutines and the server are scheduled and time passes.
Fairness ==
  /\ \A r \in Replicas : WF_vars(Progress(r))
  /\ WF_vars(Tick)

FairSpec == Spec /\ Fairness

-----------------------------------------------------------------------------
(* Properties                                                              *)

\* Types of the key and of what Run and its heartbeat keep.
TypeOK ==
  /\ keyVal \in Tokens \cup {NoToken}
  /\ keyLeft \in 0 .. TTL
  /\ (keyVal = NoToken) <=> (keyLeft = 0)
  /\ role \in [Replicas -> Roles]
  /\ val \in [Replicas -> Tokens \cup {NoToken}]
  /\ since \in [Replicas -> Nat]
  /\ beat \in [Replicas -> Nat]
  /\ call \in [Replicas -> {"none", "setnx", "owned", "renew", "release"}]
  /\ reply \in [Replicas -> {"pending", "yes", "no"}]
  /\ sent \in [Replicas -> Nat]
  /\ late \subseteq Requests
  /\ stopped \in [Replicas -> BOOLEAN]
  /\ faults \in Nat

\* Replica r reports IsLeader and its last success is younger than the
\* key's lifetime.
Current(r) == IsLeader(r) /\ since[r] < TTL

\* A leader has the key: as long as IsLeader reports true and the last success
\* is younger than TTL, the key exists on the server with the value of this
\* term, whatever is lost, sent twice or executed late.
LeaderHoldsKey == \A r \in Replicas : Current(r) => keyVal = val[r]

\* No two replicas report IsLeader at the same time, both with a success
\* younger than TTL.
AtMostOneLeader == \A r, s \in Replicas : Current(r) /\ Current(s) => r = s

\* FenceAfter (a): a single failed renewal after a success does not end a
\* term; the first failing beat (beat = Interval) is retried, if the timer
\* fired in time.
BlipTolerated ==
  [][\A r \in Replicas :
       (/\ RenewFails(r) /\ beat[r] = Interval
        /\ since[r] <= Interval + Jitter + sent[r]) => role'[r] = "leading"]_vars

\* A term that lost the key (an election slower than the key's lifetime) is
\* noticed by the first renewal: nobody reports IsLeader for longer than the
\* last beat, or the start of the heartbeat, plus one call.
StaleTermEnds ==
  \A r \in Replicas : IsLeader(r) =>
    since[r] <= (IF StartDelay > FenceAfter + Jitter
                   THEN StartDelay ELSE FenceAfter + Jitter) + MaxCall

\* Whatever is lost, delayed or crashes, there is a leader again as long as
\* some replica is not stopped: an orphaned key runs out.
LeaderEmerges ==
  [](\A r \in Replicas : ~stopped[r] =>
       <>(stopped[r] \/ \E s \in Replicas : IsLeader(s)))

\* Comment of Stop(): "stops campaigning and, if in office, yields: Run's
\* cleanup path releases the lock and leaves the candidate loop".
StopEndsRun ==
  \A r \in Replicas : stopped[r] ~> (role[r] = "done" \/ ~stopped[r])

=============================================================================
