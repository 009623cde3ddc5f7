----------------------- MODULE LeaderElection_proofs ------------------------
(***************************************************************************)
(* Proofs about LeaderElection for any number of replicas, lock values,    *)
(* faults and late requests.                                               *)
(*                                                                         *)
(* TimingInv bounds the age of lastOK from the deadlines alone.  KeyInv    *)
(* says that the key stays with a term as long as that age is below TTL,   *)
(* because the key's remaining time and that age always add up to at least *)
(* TTL; it needs no bound on any delay.  Together they show that a leader  *)
(* that meets the premises of FenceAfter has the key for its whole term.   *)
(***************************************************************************)
EXTENDS LeaderElection, TLAPS

-----------------------------------------------------------------------------
(* Arithmetic of the constants                                             *)

\* The heartbeat interval is at least one tick and at most a third of TTL,
\* and the call budget is a natural number.
LEMMA TimeFacts ==
  /\ TTL \in Nat /\ Jitter \in Nat /\ StartDelay \in Nat
  /\ Interval \in Nat /\ Interval >= 1 /\ 3 * Interval <= TTL
  /\ MaxCall \in Nat
  /\ FenceAfter \in Nat
<1>1. /\ TTL \in Nat /\ TTL >= 3 /\ Jitter \in Nat /\ StartDelay \in Nat
      /\ RenewTimeout \in Nat /\ SocketBound \in Nat
  BY ConstantsAssumption
<1>2. Interval \in Nat /\ Interval >= 1 /\ 3 * Interval <= TTL
  BY <1>1, SMT DEF Interval
<1>3. MaxCall \in Nat
  BY <1>1 DEF MaxCall, CallBudget
<1>4. FenceAfter \in Nat
  BY <1>2 DEF FenceAfter
<1> QED BY <1>1, <1>2, <1>3, <1>4

-----------------------------------------------------------------------------
(* Types                                                                   *)

\* The server keeps the key well typed, whatever it executes.
LEMMA ExecuteType ==
  ASSUME TypeOK, NEW op, NEW v \in Tokens, Execute(op, v)
  PROVE  /\ keyVal' \in Tokens \cup {NoToken}
         /\ keyLeft' \in 0 .. TTL
         /\ (keyVal' = NoToken) <=> (keyLeft' = 0)
<1> TTL \in Nat /\ TTL >= 3 /\ NoToken \notin Tokens
  BY ConstantsAssumption
<1> QED BY DEF TypeOK, Execute

\* A replica with a call in flight has drawn a value for it.
Drawn == \A r \in Replicas :
  /\ call[r] # "none" => val[r] \in Tokens
  /\ role[r] \in {"campaign", "elected", "leading", "resigning", "releasing"}
       <=> val[r] # NoToken

\* The call in flight is the one that fits the role.
CallFits == \A r \in Replicas :
  /\ role[r] \in {"idle", "waiting", "elected", "done"} => call[r] = "none"
  /\ role[r] = "campaign" => call[r] \in {"setnx", "owned"}
  /\ role[r] \in {"leading", "resigning"} => call[r] \in {"none", "renew"}
  /\ role[r] = "releasing" => call[r] = "release"

Typed == TypeOK /\ Drawn /\ CallFits

\* The value of an abandoned request was drawn.
LEMMA AbandonType ==
  ASSUME Typed, NEW r \in Replicas, Abandon(r)
  PROVE  late' \subseteq Requests
BY DEF Typed, TypeOK, Drawn, Abandon, Requests

\* Typed is inductive.
LEMMA TypedStep == Typed /\ [Next]_vars => Typed'
<1> SUFFICES ASSUME Typed, [Next]_vars PROVE Typed'
  OBVIOUS
<1> USE TimeFacts, ConstantsAssumption DEF Typed, TypeOK, Drawn, CallFits, Roles
<1>1. ASSUME NEW r \in Replicas, ServerExecutes(r) PROVE Typed'
  <2>1. val[r] \in Tokens BY <1>1 DEF ServerExecutes
  <2>2. /\ keyVal' \in Tokens \cup {NoToken} /\ keyLeft' \in 0 .. TTL
        /\ (keyVal' = NoToken) <=> (keyLeft' = 0)
    BY <1>1, <2>1, ExecuteType DEF ServerExecutes
  <2> QED BY <1>1, <2>2 DEF ServerExecutes
<1>2. ASSUME NEW m \in late, LateExecutes(m) PROVE Typed'
  <2>1. m.val \in Tokens BY DEF Requests
  <2>2. /\ keyVal' \in Tokens \cup {NoToken} /\ keyLeft' \in 0 .. TTL
        /\ (keyVal' = NoToken) <=> (keyLeft' = 0)
    BY <1>2, <2>1, ExecuteType DEF LateExecutes
  <2> QED BY <1>2, <2>2 DEF LateExecutes
<1>3. ASSUME NEW r \in Replicas, ClientRetries(r) PROVE Typed'
  BY <1>3, AbandonType DEF ClientRetries, Fault
<1>4. ASSUME NEW r \in Replicas, Campaign(r) PROVE Typed'
  BY <1>4 DEF Campaign, Send, FreshTokens
<1>5. ASSUME NEW r \in Replicas, RunReturns(r) PROVE Typed'
  BY <1>5 DEF RunReturns
<1>6. ASSUME NEW r \in Replicas, Elected(r) PROVE Typed'
  BY <1>6 DEF Elected, CallDone
<1>7. ASSUME NEW r \in Replicas, CheckOwned(r) PROVE Typed'
  BY <1>7 DEF CheckOwned, Send
<1>8. ASSUME NEW r \in Replicas, NotOwned(r) PROVE Typed'
  BY <1>8 DEF NotOwned, EndIteration, CallDone
<1>9. ASSUME NEW r \in Replicas, CampaignFails(r) PROVE Typed'
  BY <1>9, AbandonType DEF CampaignFails, EndIteration, CallDone, Fault
<1>10. ASSUME NEW r \in Replicas, StartHeartbeat(r) PROVE Typed'
  BY <1>10 DEF StartHeartbeat
<1>11. ASSUME NEW r \in Replicas, Beat(r) PROVE Typed'
  BY <1>11 DEF Beat, Send
<1>12. ASSUME NEW r \in Replicas, Renewed(r) PROVE Typed'
  BY <1>12 DEF Renewed, CallDone
<1>13. ASSUME NEW r \in Replicas, RenewLost(r) PROVE Typed'
  BY <1>13 DEF RenewLost, CallDone
<1>14. ASSUME NEW r \in Replicas, RenewFails(r) PROVE Typed'
  BY <1>14, AbandonType DEF RenewFails, CallDone
<1>15. ASSUME NEW r \in Replicas, Resign(r) PROVE Typed'
  BY <1>15 DEF Resign
<1>16. ASSUME NEW r \in Replicas, Stop(r) PROVE Typed'
  BY <1>16 DEF Stop
<1>17. ASSUME NEW r \in Replicas, HeartbeatStops(r) PROVE Typed'
  BY <1>17, AbandonType DEF HeartbeatStops, CallDone, Fault
<1>18. ASSUME NEW r \in Replicas, Demote(r) PROVE Typed'
  BY <1>18 DEF Demote, Send
<1>19. ASSUME NEW r \in Replicas, Released(r) PROVE Typed'
  BY <1>19, AbandonType DEF Released, EndIteration, CallDone, Fault
<1>20. ASSUME NEW r \in Replicas, Crash(r) PROVE Typed'
  BY <1>20, AbandonType DEF Crash, EndIteration, CallDone, Fault
<1>21. ASSUME Tick PROVE Typed'
  BY <1>21 DEF Tick, Older
<1>22. CASE UNCHANGED vars
  BY <1>22 DEF vars, Requests
<1> QED
  BY <1>1, <1>2, <1>3, <1>4, <1>5, <1>6, <1>7, <1>8, <1>9, <1>10, <1>11, <1>12,
     <1>13, <1>14, <1>15, <1>16, <1>17, <1>18, <1>19, <1>20, <1>21, <1>22
  DEF Next, Progress, Environment

\* Every variable keeps its type, the key has a lifetime exactly when it
\* exists, a value is drawn in every call and calls fit the role of Run.
THEOREM TypeCorrect == Spec => []TypeOK
<1>1. Init => Typed
  BY ConstantsAssumption DEF Init, Typed, TypeOK, Drawn, CallFits, Roles, Requests
<1>2. Typed => TypeOK
  BY DEF Typed
<1> QED BY <1>1, <1>2, TypedStep, PTL DEF Spec

-----------------------------------------------------------------------------
(* Deadlines                                                               *)

\* The age a at which the last call of a term was sent: on a beat, or when
\* the heartbeat started.
Due(r, a) == a <= beat[r] + Jitter \/ a <= StartDelay

\* How old lastOK can be in each role.
Timing(r) ==
  /\ role[r] \in {"campaign", "elected"} => since[r] <= StartDelay
  /\ role[r] \in {"leading", "resigning"} => beat[r] \in {Interval, 2 * Interval}
  /\ (role[r] = "leading" /\ call[r] = "none") => Due(r, since[r])
  /\ call[r] = "renew" => /\ sent[r] <= MaxCall
                          /\ since[r] >= beat[r] + sent[r]
                          /\ Due(r, since[r] - sent[r])
  /\ role[r] = "resigning" => since[r] <= beat[r] + Jitter + MaxCall
                              \/ since[r] <= StartDelay + MaxCall

TimingInv == \A r \in Replicas : Timing(r)

\* A replica whose part of the state is unchanged keeps its deadlines.
LEMMA TimingFrame ==
  ASSUME NEW s \in Replicas, Timing(s),
         role'[s] = role[s], since'[s] = since[s], beat'[s] = beat[s],
         call'[s] = call[s], sent'[s] = sent[s]
  PROVE  Timing(s)'
BY DEF Timing, Due

\* TimingInv is inductive when the fence is guaranteed.
LEMMA TimingStep ==
  ASSUME Guaranteed, Typed, TimingInv, [Next]_vars
  PROVE  TimingInv'
<1> SUFFICES ASSUME NEW s \in Replicas PROVE Timing(s)'
  BY DEF TimingInv
<1>0. Timing(s) BY DEF TimingInv
<1> USE TimeFacts DEF Typed, TypeOK, CallFits
<1>f. FenceAfter = 2 * Interval /\ MaxCall < Interval
  BY DEF FenceAfter, Guaranteed
<1>1. ASSUME NEW r \in Replicas, ServerExecutes(r) PROVE Timing(s)'
  BY <1>0, <1>1, TimingFrame DEF ServerExecutes
<1>2. ASSUME NEW m \in late, LateExecutes(m) PROVE Timing(s)'
  BY <1>0, <1>2, TimingFrame DEF LateExecutes
<1>3. ASSUME NEW r \in Replicas, ClientRetries(r) PROVE Timing(s)'
  BY <1>0, <1>3, TimingFrame DEF ClientRetries
<1>4. ASSUME NEW r \in Replicas, Campaign(r) PROVE Timing(s)'
  BY <1>0, <1>4 DEF Campaign, Send, Timing, Due
<1>5. ASSUME NEW r \in Replicas, RunReturns(r) PROVE Timing(s)'
  BY <1>0, <1>5 DEF RunReturns, Timing, Due
<1>6. ASSUME NEW r \in Replicas, Elected(r) PROVE Timing(s)'
  BY <1>0, <1>6 DEF Elected, CallDone, Timing, Due
<1>7. ASSUME NEW r \in Replicas, CheckOwned(r) PROVE Timing(s)'
  BY <1>0, <1>7 DEF CheckOwned, Send, Timing, Due
<1>8. ASSUME NEW r \in Replicas, NotOwned(r) PROVE Timing(s)'
  BY <1>0, <1>8 DEF NotOwned, EndIteration, CallDone, Timing, Due
<1>9. ASSUME NEW r \in Replicas, CampaignFails(r) PROVE Timing(s)'
  BY <1>0, <1>9 DEF CampaignFails, EndIteration, CallDone, Timing, Due
<1>10. ASSUME NEW r \in Replicas, StartHeartbeat(r) PROVE Timing(s)'
  BY <1>0, <1>10 DEF StartHeartbeat, Timing, Due
<1>11. ASSUME NEW r \in Replicas, Beat(r) PROVE Timing(s)'
  BY <1>0, <1>11 DEF Beat, Send, Timing, Due
<1>12. ASSUME NEW r \in Replicas, Renewed(r) PROVE Timing(s)'
  BY <1>0, <1>12, <1>f DEF Renewed, CallDone, Timing, Due
<1>13. ASSUME NEW r \in Replicas, RenewLost(r) PROVE Timing(s)'
  BY <1>0, <1>13 DEF RenewLost, CallDone, Timing, Due
<1>14. ASSUME NEW r \in Replicas, RenewFails(r) PROVE Timing(s)'
  BY <1>0, <1>14, <1>f DEF RenewFails, CallDone, Timing, Due
<1>15. ASSUME NEW r \in Replicas, Resign(r) PROVE Timing(s)'
  BY <1>0, <1>15 DEF Resign, Timing, Due
<1>16. ASSUME NEW r \in Replicas, Stop(r) PROVE Timing(s)'
  BY <1>0, <1>16 DEF Stop, Timing, Due
<1>17. ASSUME NEW r \in Replicas, HeartbeatStops(r) PROVE Timing(s)'
  BY <1>0, <1>17 DEF HeartbeatStops, CallDone, Timing, Due
<1>18. ASSUME NEW r \in Replicas, Demote(r) PROVE Timing(s)'
  BY <1>0, <1>18 DEF Demote, Send, Timing, Due
<1>19. ASSUME NEW r \in Replicas, Released(r) PROVE Timing(s)'
  BY <1>0, <1>19 DEF Released, EndIteration, CallDone, Timing, Due
<1>20. ASSUME NEW r \in Replicas, Crash(r) PROVE Timing(s)'
  BY <1>0, <1>20 DEF Crash, EndIteration, CallDone, Timing, Due
<1>21. ASSUME Tick PROVE Timing(s)'
  <2> DEFINE on == role[s] \in {"campaign", "elected", "leading", "resigning"}
  <2>1. /\ MayWait(s)
        /\ role' = role /\ beat' = beat /\ call' = call
        /\ since'[s] = Older(s)
        /\ sent'[s] = IF call[s] = "renew" THEN sent[s] + 1 ELSE sent[s]
    BY <1>21 DEF Tick
  <2>2. /\ since[s] \in Nat /\ sent[s] \in Nat /\ beat[s] \in Nat
        /\ role[s] \in Roles
    OBVIOUS
  <2>3. CASE on
    <3>1. since'[s] = since[s] + 1 BY <2>1, <2>3 DEF Older
    <3>2. CASE call[s] = "renew" BY <1>0, <2>1, <2>2, <3>1, <3>2 DEF MayWait, Timing, Due
    <3>3. CASE call[s] # "renew" BY <1>0, <2>1, <2>2, <2>3, <3>1, <3>3 DEF MayWait, Timing, Due
    <3> QED BY <3>2, <3>3
  <2>4. CASE ~on
    <3>1. call[s] # "renew" BY <2>2, <2>4 DEF Roles
    <3> QED BY <2>1, <2>4, <3>1 DEF Timing
  <2> QED BY <2>3, <2>4
<1>22. CASE UNCHANGED vars
  BY <1>0, <1>22, TimingFrame DEF vars
<1> QED
  BY <1>1, <1>2, <1>3, <1>4, <1>5, <1>6, <1>7, <1>8, <1>9, <1>10, <1>11, <1>12,
     <1>13, <1>14, <1>15, <1>16, <1>17, <1>18, <1>19, <1>20, <1>21, <1>22
  DEF Next, Progress, Environment

\* Even when an election is slower than the key's lifetime, nobody reports
\* IsLeader for longer than the fence, or the start of the heartbeat, plus
\* one call after its last success.
THEOREM StaleTermSafe == ASSUME Guaranteed PROVE Spec => []StaleTermEnds
<1>1. Init => Typed /\ TimingInv
  BY ConstantsAssumption, TimeFacts
  DEF Init, Typed, TypeOK, Drawn, CallFits, Roles, Requests, TimingInv, Timing, Due
<1>2. Typed /\ TimingInv /\ [Next]_vars => (Typed /\ TimingInv)'
  BY TypedStep, TimingStep
<1>3. Typed /\ TimingInv => StaleTermEnds
  BY TimeFacts
  DEF Typed, TypeOK, CallFits, TimingInv, Timing, Due, StaleTermEnds, IsLeader,
      FenceAfter
<1> QED BY <1>1, <1>2, <1>3, PTL DEF Spec

\* One failed renewal, sent on time, does not end a term when the timer's
\* lateness leaves room for one call before the second beat.
THEOREM BlipSafe ==
  ASSUME Guaranteed, Jitter + MaxCall < Interval
  PROVE  Spec => BlipTolerated
<1>1. Init => Typed /\ TimingInv
  BY ConstantsAssumption, TimeFacts
  DEF Init, Typed, TypeOK, Drawn, CallFits, Roles, Requests, TimingInv, Timing, Due
<1>2. Typed /\ TimingInv /\ [Next]_vars => (Typed /\ TimingInv)'
  BY TypedStep, TimingStep
<1>3. Typed /\ TimingInv /\ [Next]_vars =>
        [\A r \in Replicas :
           (/\ RenewFails(r) /\ beat[r] = Interval
            /\ since[r] <= Interval + Jitter + sent[r]) => role'[r] = "leading"]_vars
  <2> SUFFICES ASSUME Typed, TimingInv, NEW r \in Replicas, RenewFails(r),
                      beat[r] = Interval, since[r] <= Interval + Jitter + sent[r]
               PROVE  role'[r] = "leading"
    OBVIOUS
  <2>1. since[r] < FenceAfter
    BY TimeFacts DEF Typed, TypeOK, TimingInv, Timing, Due, RenewFails, FenceAfter
  <2> QED BY <2>1, TimeFacts DEF RenewFails, Typed, TypeOK
<1> QED BY <1>1, <1>2, <1>3, PTL DEF Spec, BlipTolerated

-----------------------------------------------------------------------------
(* The key                                                                 *)

Active(r) == role[r] \in {"campaign", "elected", "leading", "resigning"}

\* Replica r leads, or the server has told it that it has won.
Holder(r) == IsLeader(r) \/ (role[r] = "campaign" /\ reply[r] = "yes")

\* What replica r has the key for.
KeyOf(r) ==
  /\ (Holder(r) /\ since[r] < TTL) => keyVal = val[r]
  /\ (Active(r) /\ keyVal = val[r]) => keyLeft + since[r] >= TTL
  /\ (call[r] = "renew" /\ reply[r] = "yes" /\ sent[r] < TTL) =>
       keyVal = val[r] /\ keyLeft + sent[r] >= TTL
  /\ \A m \in late : (m.op = "release" /\ Active(r)) => m.val # val[r]

\* Lock values in use are distinct.
Distinct ==
  \A r, s \in Replicas : (r # s /\ val[r] # NoToken) => val[r] # val[s]

KeyInv == Distinct /\ \A r \in Replicas : KeyOf(r)

\* Executing a request (of replica r itself, or a late one) keeps every
\* term's hold on the key, provided it is not a release of that term.
LEMMA ExecuteKeeps ==
  ASSUME Typed, NEW s \in Replicas, KeyOf(s), NEW op, NEW v \in Tokens,
         Execute(op, v), (op = "release" /\ Active(s)) => v # val[s]
  PROVE  /\ (Holder(s) /\ since[s] < TTL) => keyVal' = val[s]
         /\ (Active(s) /\ keyVal' = val[s]) => keyLeft' + since[s] >= TTL
         /\ (call[s] = "renew" /\ reply[s] = "yes" /\ sent[s] < TTL) =>
              keyVal' = val[s] /\ keyLeft' + sent[s] >= TTL
<1> USE TimeFacts, ConstantsAssumption
    DEF Typed, TypeOK, Drawn, CallFits, KeyOf, Holder, Active, IsLeader
<1>1. CASE op = "setnx" BY <1>1 DEF Execute
<1>2. CASE op = "renew" BY <1>2 DEF Execute
<1>3. CASE op = "release" BY <1>3 DEF Execute
<1>4. CASE op \notin {"setnx", "renew", "release"} BY <1>4 DEF Execute
<1> QED BY <1>1, <1>2, <1>3, <1>4

\* A request given up is never the release of a term that is still going on.
LEMMA AbandonKeeps ==
  ASSUME Typed, KeyInv, NEW r \in Replicas, Abandon(r), NEW s \in Replicas, Active(s)
  PROVE  \A m \in late' : m.op = "release" => m.val # val[s]
<1> SUFFICES ASSUME NEW m \in late', m.op = "release" PROVE m.val # val[s]
  OBVIOUS
<1>1. CASE m \in late BY <1>1 DEF KeyInv, KeyOf
<1>2. CASE m \notin late
  <2>1. m.op = call[r] /\ m.val = val[r] BY <1>2 DEF Abandon
  <2>2. role[r] = "releasing" /\ val[r] # NoToken
    BY <2>1 DEF Typed, TypeOK, Drawn, CallFits, Roles
  <2> QED BY <2>1, <2>2 DEF KeyInv, Distinct, Active
<1> QED BY <1>1, <1>2

\* A replica keeps its hold on the key when neither the key nor its own part
\* of the state changes, or when it ends its term.
LEMMA KeyFrame ==
  ASSUME NEW s \in Replicas, KeyOf(s),
         keyVal' = keyVal, keyLeft' = keyLeft,
         role'[s] = role[s], val'[s] = val[s], since'[s] = since[s],
         call'[s] = call[s], sent'[s] = sent[s], reply'[s] = reply[s],
         Active(s) => \A m \in late' : m.op = "release" => m.val # val[s]
  PROVE  KeyOf(s)'
BY DEF KeyOf, Holder, Active, IsLeader

\* KeyInv is inductive, whatever the delays.
LEMMA KeyStep ==
  ASSUME Typed, Typed', KeyInv, [Next]_vars
  PROVE  KeyInv'
<1> USE TimeFacts, ConstantsAssumption
<1>t. /\ \A q \in Replicas : KeyOf(q)
      /\ \A q \in Replicas : Active(q) => \A m \in late : m.op = "release" => m.val # val[q]
  BY DEF KeyInv, KeyOf
<1>1. ASSUME NEW r \in Replicas, ServerExecutes(r) PROVE KeyInv'
  <2>1. val[r] \in Tokens /\ Execute(call[r], val[r])
    BY <1>1 DEF ServerExecutes, Typed, Drawn
  <2>2. ASSUME NEW s \in Replicas PROVE KeyOf(s)'
    <3>1. (call[r] = "release" /\ Active(s)) => val[r] # val[s]
      BY <2>1 DEF Typed, TypeOK, CallFits, Active, KeyInv, Distinct
    <3>2. /\ (Holder(s) /\ since[s] < TTL) => keyVal' = val[s]
          /\ (Active(s) /\ keyVal' = val[s]) => keyLeft' + since[s] >= TTL
          /\ (call[s] = "renew" /\ reply[s] = "yes" /\ sent[s] < TTL) =>
               keyVal' = val[s] /\ keyLeft' + sent[s] >= TTL
      BY <1>t, <2>1, <3>1, ExecuteKeeps
    <3>3. CASE s # r
      BY <1>1, <1>t, <3>2, <3>3
      DEF ServerExecutes, KeyOf, Holder, Active, IsLeader, Typed, TypeOK
    <3>4. CASE s = r
      <4>1. (call[s] # "release" /\ reply'[s] = "yes") => keyVal' = val[s]
        BY <1>1, <2>1, <3>4 DEF ServerExecutes, Answer, Execute, Typed, TypeOK, Drawn, CallFits
      <4>2. (call[s] = "renew" /\ reply'[s] = "yes") => keyLeft' = TTL
        BY <1>1, <2>1, <3>4 DEF ServerExecutes, Answer, Execute, Typed, TypeOK
      <4> QED
        BY <1>1, <1>t, <3>2, <3>4, <4>1, <4>2
        DEF ServerExecutes, KeyOf, Holder, Active, IsLeader, Typed, TypeOK, CallFits
    <3> QED BY <3>3, <3>4
  <2> QED BY <1>1, <2>2 DEF KeyInv, Distinct, ServerExecutes
<1>2. ASSUME NEW m \in late, LateExecutes(m) PROVE KeyInv'
  <2>1. m.val \in Tokens /\ Execute(m.op, m.val)
    BY <1>2 DEF LateExecutes, Typed, TypeOK, Requests
  <2>2. ASSUME NEW s \in Replicas PROVE KeyOf(s)'
    <3>1. (m.op = "release" /\ Active(s)) => m.val # val[s]
      BY <1>t
    <3>2. /\ (Holder(s) /\ since[s] < TTL) => keyVal' = val[s]
          /\ (Active(s) /\ keyVal' = val[s]) => keyLeft' + since[s] >= TTL
          /\ (call[s] = "renew" /\ reply[s] = "yes" /\ sent[s] < TTL) =>
               keyVal' = val[s] /\ keyLeft' + sent[s] >= TTL
      BY <1>t, <2>1, <3>1, ExecuteKeeps
    <3> QED BY <1>2, <1>t, <3>2 DEF LateExecutes, KeyOf, Holder, Active, IsLeader
  <2> QED BY <1>2, <2>2 DEF KeyInv, Distinct, LateExecutes
<1>3. ASSUME NEW r \in Replicas, ClientRetries(r) PROVE KeyInv'
  <2>1. ASSUME NEW s \in Replicas PROVE KeyOf(s)'
    <3>1. Active(s) => \A m \in late' : m.op = "release" => m.val # val[s]
      BY <1>3, AbandonKeeps DEF ClientRetries
    <3>2. CASE s # r BY <1>3, <1>t, <3>1, <3>2, KeyFrame DEF ClientRetries, Typed, TypeOK
    <3>3. CASE s = r
      BY <1>3, <1>t, <3>1, <3>3
      DEF ClientRetries, KeyOf, Holder, Active, IsLeader, Typed, TypeOK
    <3> QED BY <3>2, <3>3
  <2> QED BY <1>3, <2>1 DEF KeyInv, Distinct, ClientRetries
<1>4. ASSUME NEW r \in Replicas, Campaign(r) PROVE KeyInv'
  <2>1. PICK t \in FreshTokens : val' = [val EXCEPT ![r] = t]
    <3>1. (CHOOSE t \in FreshTokens : TRUE) \in FreshTokens
      BY <1>4 DEF Campaign
    <3> QED BY <1>4, <3>1 DEF Campaign
  <2>2. ASSUME NEW s \in Replicas PROVE KeyOf(s)'
    <3>1. CASE s # r
      BY <1>4, <1>t, <2>1, <3>1, KeyFrame DEF Campaign, Send, Typed, TypeOK
    <3>2. CASE s = r
      BY <1>4, <2>1, <3>2
      DEF Campaign, Send, FreshTokens, KeyOf, Holder, Active, IsLeader, Typed, TypeOK
    <3> QED BY <3>1, <3>2
  <2> QED BY <1>4, <2>1, <2>2 DEF KeyInv, Distinct, FreshTokens, Typed, TypeOK
<1>5. ASSUME NEW r \in Replicas, RunReturns(r) PROVE KeyInv'
  <2>1. ASSUME NEW s \in Replicas PROVE KeyOf(s)'
    <3>1. CASE s # r BY <1>5, <1>t, <3>1, KeyFrame DEF RunReturns, Typed, TypeOK
    <3>2. CASE s = r
      BY <1>5, <1>t, <3>2 DEF RunReturns, KeyOf, Holder, Active, IsLeader, Typed, TypeOK, CallFits
    <3> QED BY <3>1, <3>2
  <2> QED BY <1>5, <2>1 DEF KeyInv, Distinct, RunReturns
<1>6. ASSUME NEW r \in Replicas, Elected(r) PROVE KeyInv'
  <2>1. ASSUME NEW s \in Replicas PROVE KeyOf(s)'
    BY <1>6, <1>t DEF Elected, CallDone, KeyOf, Holder, Active, IsLeader, Typed, TypeOK
  <2> QED BY <1>6, <2>1 DEF KeyInv, Distinct, Elected
<1>7. ASSUME NEW r \in Replicas, CheckOwned(r) PROVE KeyInv'
  <2>1. ASSUME NEW s \in Replicas PROVE KeyOf(s)'
    BY <1>7, <1>t DEF CheckOwned, Send, KeyOf, Holder, Active, IsLeader, Typed, TypeOK
  <2> QED BY <1>7, <2>1 DEF KeyInv, Distinct, CheckOwned
<1>8. ASSUME NEW r \in Replicas, \/ NotOwned(r) \/ CampaignFails(r) \/ Released(r) \/ Crash(r)
      PROVE KeyInv'
  <2>1. /\ keyVal' = keyVal /\ keyLeft' = keyLeft
        /\ \/ EndIteration(r, "waiting") \/ EndIteration(r, "idle")
        /\ \/ late' = late \/ Abandon(r)
    BY <1>8 DEF NotOwned, CampaignFails, Released, Crash
  <2>2. ASSUME NEW s \in Replicas PROVE KeyOf(s)'
    <3>1. Active(s) => \A m \in late' : m.op = "release" => m.val # val[s]
      BY <1>t, <2>1, AbandonKeeps
    <3>2. CASE s # r
      BY <1>t, <2>1, <3>1, <3>2, KeyFrame DEF EndIteration, CallDone, Typed, TypeOK
    <3>3. CASE s = r
      BY <2>1, <3>3 DEF EndIteration, CallDone, KeyOf, Holder, Active, IsLeader, Typed, TypeOK
    <3> QED BY <3>2, <3>3
  <2> QED BY <2>1, <2>2 DEF KeyInv, Distinct, EndIteration, Typed, TypeOK
<1>10. ASSUME NEW r \in Replicas, StartHeartbeat(r) PROVE KeyInv'
  <2>1. ASSUME NEW s \in Replicas PROVE KeyOf(s)'
    BY <1>10, <1>t DEF StartHeartbeat, KeyOf, Holder, Active, IsLeader, Typed, TypeOK
  <2> QED BY <1>10, <2>1 DEF KeyInv, Distinct, StartHeartbeat
<1>11. ASSUME NEW r \in Replicas, Beat(r) PROVE KeyInv'
  <2>1. ASSUME NEW s \in Replicas PROVE KeyOf(s)'
    BY <1>11, <1>t DEF Beat, Send, KeyOf, Holder, Active, IsLeader, Typed, TypeOK
  <2> QED BY <1>11, <2>1 DEF KeyInv, Distinct, Beat
<1>12. ASSUME NEW r \in Replicas, Renewed(r) PROVE KeyInv'
  <2>1. ASSUME NEW s \in Replicas PROVE KeyOf(s)'
    BY <1>12, <1>t DEF Renewed, CallDone, KeyOf, Holder, Active, IsLeader, Typed, TypeOK
  <2> QED BY <1>12, <2>1 DEF KeyInv, Distinct, Renewed
<1>13. ASSUME NEW r \in Replicas, RenewLost(r) PROVE KeyInv'
  <2>1. ASSUME NEW s \in Replicas PROVE KeyOf(s)'
    BY <1>13, <1>t DEF RenewLost, CallDone, KeyOf, Holder, Active, IsLeader, Typed, TypeOK
  <2> QED BY <1>13, <2>1 DEF KeyInv, Distinct, RenewLost
<1>14. ASSUME NEW r \in Replicas, RenewFails(r) \/ HeartbeatStops(r) PROVE KeyInv'
  <2>1. /\ keyVal' = keyVal /\ keyLeft' = keyLeft /\ CallDone(r)
        /\ val' = val /\ since' = since
        /\ late' = late \/ Abandon(r)
        /\ role[r] \in {"leading", "resigning"}
        /\ role'[r] \in {"leading", "resigning"}
        /\ \A s \in Replicas \ {r} : role'[s] = role[s]
    BY <1>14 DEF RenewFails, HeartbeatStops, Typed, TypeOK
  <2>2. ASSUME NEW s \in Replicas PROVE KeyOf(s)'
    <3>1. Active(s) => \A m \in late' : m.op = "release" => m.val # val[s]
      BY <1>t, <2>1, AbandonKeeps
    <3>2. CASE s # r
      BY <1>t, <2>1, <3>1, <3>2, KeyFrame DEF CallDone, Typed, TypeOK
    <3>3. CASE s = r
      BY <1>t, <2>1, <3>1, <3>3 DEF CallDone, KeyOf, Holder, Active, IsLeader, Typed, TypeOK
    <3> QED BY <3>2, <3>3
  <2> QED BY <2>1, <2>2 DEF KeyInv, Distinct
<1>15. ASSUME NEW r \in Replicas, Resign(r) PROVE KeyInv'
  <2>1. ASSUME NEW s \in Replicas PROVE KeyOf(s)'
    BY <1>15, <1>t DEF Resign, KeyOf, Holder, Active, IsLeader, Typed, TypeOK
  <2> QED BY <1>15, <2>1 DEF KeyInv, Distinct, Resign
<1>16. ASSUME NEW r \in Replicas, Stop(r) PROVE KeyInv'
  <2>1. ASSUME NEW s \in Replicas PROVE KeyOf(s)'
    BY <1>16, <1>t DEF Stop, KeyOf, Holder, Active, IsLeader, Typed, TypeOK
  <2> QED BY <1>16, <2>1 DEF KeyInv, Distinct, Stop
<1>18. ASSUME NEW r \in Replicas, Demote(r) PROVE KeyInv'
  <2>1. ASSUME NEW s \in Replicas PROVE KeyOf(s)'
    BY <1>18, <1>t DEF Demote, Send, KeyOf, Holder, Active, IsLeader, Typed, TypeOK
  <2> QED BY <1>18, <2>1 DEF KeyInv, Distinct, Demote
<1>21. ASSUME Tick PROVE KeyInv'
  <2>1. ASSUME NEW s \in Replicas PROVE KeyOf(s)'
    <3>1. CASE Active(s)
      <4>1. /\ since'[s] = since[s] + 1 /\ role'[s] = role[s] /\ val'[s] = val[s]
            /\ call'[s] = call[s] /\ reply'[s] = reply[s] /\ late' = late
            /\ call[s] = "renew" => sent'[s] = sent[s] + 1
        BY <1>21, <3>1 DEF Tick, Older, Active, Typed, TypeOK
      <4>2. val[s] # NoToken BY <3>1 DEF Typed, Drawn, Active
      <4>3. (keyVal = val[s] /\ keyLeft > 1) => keyVal' = val[s] /\ keyLeft' = keyLeft - 1
        BY <1>21 DEF Tick, Typed, TypeOK
      <4>4. keyVal' = val[s] => keyVal = val[s] /\ keyLeft > 1
        BY <1>21, <4>2 DEF Tick, Typed, TypeOK
      <4>5. (Holder(s) /\ since'[s] < TTL) => keyVal' = val[s]
        BY <1>t, <3>1, <4>1, <4>3 DEF KeyOf, Typed, TypeOK
      <4>6. keyVal' = val[s] => keyLeft' + since'[s] >= TTL
        BY <1>t, <3>1, <4>1, <4>3, <4>4 DEF KeyOf, Typed, TypeOK
      <4>7. (call[s] = "renew" /\ reply[s] = "yes" /\ sent'[s] < TTL) =>
              keyVal' = val[s] /\ keyLeft' + sent'[s] >= TTL
        BY <1>t, <4>1, <4>3 DEF KeyOf, Typed, TypeOK
      <4> QED
        BY <1>t, <3>1, <4>1, <4>5, <4>6, <4>7 DEF KeyOf, Holder, Active, IsLeader
    <3>2. CASE ~Active(s)
      BY <1>21, <3>2 DEF Tick, KeyOf, Holder, Active, IsLeader, Typed, TypeOK, CallFits, Roles
    <3> QED BY <3>1, <3>2
  <2> QED BY <1>21, <2>1 DEF KeyInv, Distinct, Tick
<1>22. CASE UNCHANGED vars
  BY <1>22, <1>t DEF vars, KeyInv, Distinct, KeyOf, Holder, Active, IsLeader
<1> QED
  BY <1>1, <1>2, <1>3, <1>4, <1>5, <1>6, <1>7, <1>8, <1>10, <1>11, <1>12,
     <1>13, <1>14, <1>15, <1>16, <1>18, <1>21, <1>22
  DEF Next, Progress, Environment

\* The inductive invariant.
IInv == Typed /\ KeyInv

\* IInv holds in every reachable state.
THEOREM Inductive == Spec => []IInv
<1>1. Init => IInv
  BY ConstantsAssumption
  DEF Init, IInv, Typed, TypeOK, Drawn, CallFits, Roles, Requests,
      KeyInv, Distinct, KeyOf, Holder, Active, IsLeader
<1>2. IInv /\ [Next]_vars => IInv'
  BY TypedStep, KeyStep DEF IInv
<1> QED BY <1>1, <1>2, PTL DEF Spec

\* The key exists on the server with the leader's value as long as IsLeader
\* reports true and lastOK is younger than TTL.
THEOREM LeaderSafe == Spec => []LeaderHoldsKey
<1>1. IInv => LeaderHoldsKey
  BY DEF IInv, KeyInv, KeyOf, Holder, LeaderHoldsKey, Current
<1> QED BY <1>1, Inductive, PTL

\* There is never more than one leader whose lastOK is younger than TTL.
THEOREM SingleLeader == Spec => []AtMostOneLeader
<1>1. IInv => AtMostOneLeader
  <2> SUFFICES ASSUME IInv, NEW r \in Replicas, NEW s \in Replicas,
                      Current(r), Current(s)
               PROVE  r = s
    BY DEF AtMostOneLeader
  <2>1. keyVal = val[r] /\ keyVal = val[s]
    BY DEF IInv, KeyInv, KeyOf, Holder, Current
  <2>2. val[r] # NoToken
    BY DEF IInv, Typed, Drawn, IsLeader, Current
  <2> QED BY <2>1, <2>2 DEF IInv, KeyInv, Distinct
<1> QED BY <1>1, Inductive, PTL

\* The premises of FenceAfter: the fence is guaranteed with the lateness of
\* the timer included, and the heartbeat starts one call before the key runs
\* out.
TimingPremise ==
  /\ Guaranteed
  /\ 2 * Interval + Jitter + MaxCall < TTL
  /\ StartDelay + MaxCall < TTL

\* Nobody reports IsLeader without having the key, nor does a second replica.
StrictLeader ==
  /\ \A r \in Replicas : IsLeader(r) => keyVal = val[r]
  /\ \A r, s \in Replicas : IsLeader(r) /\ IsLeader(s) => r = s

\* FenceAfter (c): when its premises hold, stepping down is over before the
\* key expires, so that IsLeader alone means to have the key, and to be the
\* only one.
THEOREM FencedInTime == ASSUME TimingPremise PROVE Spec => []StrictLeader
<1>1. TypeOK /\ StaleTermEnds /\ LeaderHoldsKey /\ AtMostOneLeader => StrictLeader
  <2> SUFFICES ASSUME TypeOK, StaleTermEnds, LeaderHoldsKey, AtMostOneLeader
               PROVE  StrictLeader
    OBVIOUS
  <2>1. \A r \in Replicas : IsLeader(r) => since[r] < TTL
    BY TimeFacts DEF StaleTermEnds, TimingPremise, FenceAfter, TypeOK
  <2> QED BY <2>1 DEF StrictLeader, LeaderHoldsKey, AtMostOneLeader, Current
<1>2. Guaranteed BY DEF TimingPremise
<1> QED BY <1>1, <1>2, TypeCorrect, StaleTermSafe, LeaderSafe, SingleLeader, PTL
=============================================================================
