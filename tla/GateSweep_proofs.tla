-------------------------- MODULE GateSweep_proofs --------------------------
(***************************************************************************)
(* Proofs about the dead-gate sweep, for any number of players, gates and  *)
(* replicas, with or without legacy writers and overlapping replicas.      *)
(***************************************************************************)
EXTENDS GateSweep, TLAPS

\* The store: the index is exact for capable records, and the registry and
\* the records only name gates that have registered in etcd.
StoreInv ==
  /\ IndexTypeOK
  /\ IndexCovers
  /\ registry \subseteq started
  /\ \A p \in Players : indexedGate(session[p]) \subseteq started

\* A gate that has started is registered still unless it has left; the gates
\* of a snapshot have started.
OnlyStarted ==
  /\ started \ etcd \subseteq left
  /\ \A r \in Replicas : pairs[r] \subseteq started

\* A gate of the snapshot that the view does not have has left etcd.
ViewTrue ==
  \A r \in Replicas : pc[r] = "judge" => pairs[r] \ live[r] \subseteq left

\* The keys to sweep and the key being swept are those of gates found dead.
SweepsDead ==
  \A r \in Replicas :
    /\ \A g \in todo[r] : suspects[r][g] = 2
    /\ gate[r] # NoGate => gate[r] \in todo[r]
    /\ pc[r] \in {"mget", "act", "release"} => gate[r] # NoGate
    /\ pc[r] \in {"wait", "view", "judge"} => todo[r] = {}
    /\ pc[r] \notin {"mget", "act"} => members[r] = {}

IInv ==
  /\ TypeOK
  /\ StoreInv
  /\ OnlyStarted
  /\ ViewTrue
  /\ SteadyGateNotSuspected
  /\ SweepsDead

-----------------------------------------------------------------------------
(* The scripts.                                                            *)

USE SweepAssumption, IndexAssumption

LEMMA IndexedGateType ==
  ASSUME NEW s \in Session \cup {NoSession}
  PROVE  /\ indexedGate(s) \subseteq Gates
         /\ \A g \in indexedGate(s) : s \in Session /\ s.gate = g /\ s.state = "ONLINE"
         /\ s \in Session /\ s.state = "ONLINE" => indexedGate(s) = {s.gate}
         /\ s \in Session /\ s.state # "ONLINE" => indexedGate(s) = {}
         /\ s = NoSession => indexedGate(s) = {}
BY DEF indexedGate, Session

\* A capable write keeps the index exact for the record it writes and takes
\* no entry that another record needs.
LEMMA CapableWriteSafe ==
  ASSUME StoreInv, NEW p \in Players, NEW s \in Session \cup {NoSession},
         CapableWrite(p, s), indexedGate(s) \subseteq started, UNCHANGED clusterVars
  PROVE  StoreInv'
<1> USE DEF StoreInv
<1>1. session' = [session EXCEPT ![p] = s] /\ session'[p] = s
  BY DEF CapableWrite, IndexTypeOK
<1>2. \A q \in Players : q # p => session'[q] = session[q]
  BY <1>1 DEF IndexTypeOK
<1> DEFINE gone == indexedGate(session[p]) \ indexedGate(s)
<1>3. /\ index' = [g \in Gates |-> IF g \in gone THEN index[g] \ {p}
                              ELSE index[g] \cup {q \in {p} : g \in indexedGate(s)}]
      /\ registry' = (registry \ {g \in gone : index[g] \ {p} = {}}) \cup indexedGate(s)
  BY DEF CapableWrite, MoveIndex
<1>4. /\ indexedGate(s) \subseteq Gates
      /\ \A q \in Players : indexedGate(session[q]) \subseteq Gates
  BY IndexedGateType DEF IndexTypeOK
<1>5. IndexTypeOK'
  <2>1. session' \in [Players -> Session \cup {NoSession}] /\ writes' \in [Players -> Nat]
    BY DEF CapableWrite, IndexTypeOK
  <2>2. index' \in [Gates -> SUBSET Players]
    BY <1>3 DEF IndexTypeOK
  <2>3. registry' \in SUBSET Gates
    BY <1>3, <1>4 DEF IndexTypeOK
  <2> QED BY <2>1, <2>2, <2>3 DEF IndexTypeOK, clusterVars
<1>6. \A g \in Gates, q \in Players : q # p /\ q \in index[g] => q \in index'[g]
  BY <1>3
<1>7. \A g \in indexedGate(s) : p \in index'[g]
  BY <1>3, <1>4
<1>8. \A g \in Gates : index'[g] # {} => g \in registry'
  <2> SUFFICES ASSUME NEW g \in Gates, index'[g] # {} PROVE g \in registry'
    OBVIOUS
  <2>1. CASE g \in gone
    BY <1>3, <2>1 DEF IndexCovers, IndexTypeOK
  <2>2. CASE g \in indexedGate(s)
    BY <1>3, <2>2
  <2>3. CASE g \notin gone /\ g \notin indexedGate(s)
    BY <1>3, <2>3 DEF IndexCovers, IndexTypeOK
  <2> QED BY <2>1, <2>2, <2>3
<1>9. \A q \in Players : \A g \in indexedGate(session'[q]) :
        session'[q].capable => q \in index'[g]
  BY <1>1, <1>2, <1>4, <1>6, <1>7 DEF IndexCovers
<1>10. IndexCovers'
  BY <1>8, <1>9 DEF IndexCovers, indexedGate
<1>11. registry' \subseteq started'
  BY <1>3 DEF clusterVars
<1>12. \A q \in Players : indexedGate(session'[q]) \subseteq started'
  BY <1>1, <1>2 DEF clusterVars
<1> QED BY <1>5, <1>10, <1>11, <1>12

LEMMA TransitionSafe ==
  ASSUME StoreInv, NEW p \in Players, NEW raw \in Session,
         transitionToDisconnecting(p, raw), UNCHANGED clusterVars
  PROVE  StoreInv'
<1> DEFINE s == [raw EXCEPT !.state = "DISCONNECTING", !.ver = writes[p] + 1, !.capable = TRUE]
<1>0. writes[p] + 1 \in Nat
  BY DEF StoreInv, IndexTypeOK
<1>1. s \in Session /\ s.state = "DISCONNECTING"
  BY <1>0 DEF Session
<1>2. indexedGate(s) = {}
  BY <1>1 DEF indexedGate
<1>3. CASE session[p] = raw
  <2>1. CapableWrite(p, s)
    BY <1>3 DEF transitionToDisconnecting
  <2> QED BY <1>1, <1>2, <2>1, CapableWriteSafe
<1>4. CASE session[p] # raw
  BY <1>4 DEF transitionToDisconnecting, storeVars, clusterVars, StoreInv, IndexTypeOK,
              IndexCovers, indexedGate
<1> QED BY <1>3, <1>4

\* A member is pruned only when the session that was judged is still there,
\* and that one does not belong to the gate.
LEMMA PruneSafe ==
  ASSUME StoreInv, NEW g \in Gates, NEW p \in Players,
         NEW raw \in Session \cup {NoSession}, indexedGate(raw) # {g},
         pruneGateIndexMember(g, p, raw), UNCHANGED clusterVars
  PROVE  StoreInv'
<1> USE DEF StoreInv
<1>1. UNCHANGED <<session, writes, registry, started, dead, etcd>>
  BY DEF pruneGateIndexMember, clusterVars
<1>2. index' \in [Gates -> SUBSET Players] /\ \A h \in Gates : index'[h] \subseteq index[h]
  BY DEF pruneGateIndexMember, IndexTypeOK
<1>3. IndexTypeOK'
  BY <1>1, <1>2 DEF IndexTypeOK
<1>4. ASSUME NEW q \in Players, NEW h \in indexedGate(session[q]), session[q].capable
      PROVE  q \in index'[h]
  <2>1. h \in Gates /\ indexedGate(session[q]) = {h}
    BY IndexedGateType DEF IndexTypeOK
  <2>2. q \in index[h]
    BY <1>4 DEF IndexCovers
  <2>3. h # g \/ q # p \/ session[p] # raw
    BY <2>1
  <2> QED BY <2>1, <2>2, <2>3 DEF pruneGateIndexMember, IndexTypeOK
<1>5. IndexCovers'
  BY <1>1, <1>2, <1>4 DEF IndexCovers, indexedGate
<1> QED BY <1>1, <1>3, <1>5 DEF indexedGate

LEMMA ReleaseSafe ==
  ASSUME StoreInv, NEW g \in Gates, releaseGateIndexIfEmpty(g), UNCHANGED clusterVars
  PROVE  StoreInv'
<1> USE DEF StoreInv
<1>1. UNCHANGED <<session, writes, index, started, dead, etcd>>
  BY DEF releaseGateIndexIfEmpty, clusterVars
<1>2. registry' \subseteq registry /\ \A h \in registry : index[h] # {} => h \in registry'
  BY DEF releaseGateIndexIfEmpty
<1>3. IndexTypeOK'
  BY <1>1, <1>2 DEF IndexTypeOK
<1>4. IndexCovers'
  BY <1>1, <1>2 DEF IndexCovers, IndexTypeOK, indexedGate
<1> QED BY <1>1, <1>2, <1>3, <1>4 DEF indexedGate

\* A legacy write takes nothing from the index; its record claims nothing.
LEMMA LegacySafe ==
  ASSUME StoreInv, NEW p \in Players, LegacyWrite(p), UNCHANGED clusterVars
  PROVE  StoreInv'
<1> USE DEF StoreInv
<1>1. UNCHANGED <<index, registry, started, dead, etcd>>
  BY DEF LegacyWrite, clusterVars
<1>2. writes' \in [Players -> Nat] /\ writes[p] + 1 \in Nat
  BY DEF LegacyWrite, IndexTypeOK
<1>3. PICK s \in Session \cup {NoSession} :
        /\ session' = [session EXCEPT ![p] = s]
        /\ indexedGate(s) \subseteq started
        /\ s \in Session /\ indexedGate(s) # {} => ~s.capable
  <2>1. CASE \E g \in started : session' = [session EXCEPT ![p] = Record(p, g, FALSE)]
    <3>1. PICK g \in started : session' = [session EXCEPT ![p] = Record(p, g, FALSE)]
      BY <2>1
    <3>2. Record(p, g, FALSE) \in Session
      BY <1>2 DEF Record, Session, IndexTypeOK
    <3>3. indexedGate(Record(p, g, FALSE)) \subseteq {g} /\ ~Record(p, g, FALSE).capable
      BY DEF indexedGate, Record
    <3> QED BY <3>1, <3>2, <3>3
  <2>2. CASE /\ indexedGate(session[p]) # {}
             /\ session' = [session EXCEPT ![p].state = "DISCONNECTING",
                                           ![p].ver = writes[p] + 1, ![p].capable = FALSE]
    <3> DEFINE s == [session[p] EXCEPT !.state = "DISCONNECTING",
                                       !.ver = writes[p] + 1, !.capable = FALSE]
    <3>1. session[p] \in Session
      BY <2>2, IndexedGateType DEF IndexTypeOK
    <3>2. s \in Session /\ s.state = "DISCONNECTING"
      BY <1>2, <3>1 DEF Session
    <3>3. session' = [session EXCEPT ![p] = s]
      BY <2>2, <3>1 DEF IndexTypeOK, Session
    <3>4. indexedGate(s) = {}
      BY <3>2 DEF indexedGate
    <3> QED BY <3>2, <3>3, <3>4
  <2>3. CASE session' = [session EXCEPT ![p] = NoSession]
    BY <2>3, IndexedGateType
  <2> QED BY <2>1, <2>2, <2>3 DEF LegacyWrite
<1>4. session' \in [Players -> Session \cup {NoSession}]
      /\ session'[p] = s /\ \A q \in Players : q # p => session'[q] = session[q]
  BY <1>3 DEF IndexTypeOK
<1>5. IndexTypeOK'
  BY <1>1, <1>2, <1>4 DEF IndexTypeOK
<1>6. \A q \in Players : \A g \in indexedGate(session'[q]) :
        session'[q].capable => q \in index[g]
  <2> SUFFICES ASSUME NEW q \in Players, NEW g \in indexedGate(session'[q]),
                      session'[q].capable
               PROVE  q \in index[g]
    OBVIOUS
  <2>1. CASE q = p
    <3>1. s \in Session /\ indexedGate(s) # {}
      BY <1>4, <2>1, IndexedGateType
    <3> QED BY <1>3, <1>4, <2>1, <3>1
  <2>2. CASE q # p
    BY <1>4, <2>2 DEF IndexCovers
  <2> QED BY <2>1, <2>2
<1>7. IndexCovers'
  BY <1>1, <1>6 DEF IndexCovers, indexedGate
<1>8. \A q \in Players : indexedGate(session'[q]) \subseteq started
  BY <1>3, <1>4
<1> QED BY <1>1, <1>5, <1>7, <1>8 DEF indexedGate

LEMMA WriterSafe ==
  ASSUME StoreInv, Writer
  PROVE  StoreInv'
<1>1. UNCHANGED clusterVars
  BY DEF Writer
<1>2. PICK p \in Players :
        \/ \E g \in Gates : SetSession(p, g)
        \/ SetDisconnecting(p)
        \/ DeleteSession(p)
        \/ Legacy /\ LegacyWrite(p)
  BY DEF Writer
<1>3. ASSUME NEW g \in Gates, SetSession(p, g)
      PROVE  StoreInv'
  <2>1. Record(p, g, TRUE) \in Session
    BY DEF Record, Session, StoreInv, IndexTypeOK
  <2>2. indexedGate(Record(p, g, TRUE)) \subseteq started
    BY <1>3 DEF indexedGate, Record, SetSession
  <2> QED BY <1>1, <1>3, <2>1, <2>2, CapableWriteSafe DEF SetSession
<1>4. CASE SetDisconnecting(p)
  <2>1. session[p] \in Session
    BY <1>4, IndexedGateType DEF SetDisconnecting, StoreInv, IndexTypeOK
  <2> QED BY <1>1, <1>4, <2>1, TransitionSafe DEF SetDisconnecting
<1>5. CASE DeleteSession(p)
  BY <1>1, <1>5, CapableWriteSafe, IndexedGateType DEF DeleteSession
<1>6. CASE LegacyWrite(p)
  BY <1>1, <1>6, LegacySafe
<1> QED BY <1>2, <1>3, <1>4, <1>5, <1>6

LEMMA ClusterSafe ==
  ASSUME StoreInv, OnlyStarted, left \in SUBSET started, Cluster
  PROVE  /\ StoreInv'
         /\ OnlyStarted'
         /\ left' \in SUBSET started'
         /\ left \subseteq left'
<1>1. UNCHANGED <<session, writes, index, registry, pairs>>
  BY DEF Cluster, storeVars
<1>2. PICK g \in Gates :
        \/ (GateStarts(g) \/ GateDies(g) \/ Reregisters(g)) /\ UNCHANGED left
        \/ RegistrationEnds(g) /\ left' = left \cup {g}
  BY DEF Cluster
<1>3. /\ started \subseteq started' /\ started' \subseteq Gates
      /\ dead' \subseteq started' /\ etcd' \subseteq started'
      /\ left \subseteq left' /\ left' \subseteq started'
      /\ started' \ etcd' \subseteq left'
  BY <1>2 DEF GateStarts, GateDies, Reregisters, RegistrationEnds, StoreInv, IndexTypeOK,
              OnlyStarted
<1>4. StoreInv'
  BY <1>1, <1>3 DEF StoreInv, IndexTypeOK, IndexCovers, indexedGate
<1>5. OnlyStarted'
  BY <1>1, <1>3 DEF OnlyStarted
<1> QED BY <1>3, <1>4, <1>5

LEMMA StoreKept ==
  ASSUME StoreInv, UNCHANGED indexVars
  PROVE  StoreInv'
BY DEF indexVars, StoreInv, IndexTypeOK, IndexCovers, indexedGate

-----------------------------------------------------------------------------
(* The round of a replica.                                                 *)

\* The end of a round, however it ends, drops what the round held.
LEMMA ForgetType ==
  ASSUME TypeOK, NEW r \in Replicas, Forget(r)
  PROVE  /\ pc' \in [Replicas -> {"wait", "view", "judge", "sweep", "mget", "act", "release"}]
         /\ pairs' \in [Replicas -> SUBSET Gates]
         /\ live' \in [Replicas -> SUBSET Gates]
         /\ todo' \in [Replicas -> SUBSET Gates]
         /\ gate' \in [Replicas -> Gates \cup {NoGate}]
         /\ members' \in [Replicas -> SUBSET Players]
         /\ raws' \in [Replicas -> [Players -> Session \cup {NoSession}]]
         /\ next' \in [Replicas -> SUBSET Players]
BY DEF TypeOK, Forget, NoRaws

LEMMA SucceedsType ==
  ASSUME TypeOK, NEW r \in Replicas, RoundSucceeds(r)
  PROVE  /\ eligible' \in [Replicas -> BOOLEAN]
         /\ failures' \in [Replicas -> Nat]
BY DEF TypeOK, RoundSucceeds

LEMMA FaultType ==
  ASSUME TypeOK, Fault
  PROVE  faults' \in 0..MaxFaults
BY DEF TypeOK, Fault

LEMMA RoundTyping ==
  ASSUME TypeOK, IndexTypeOK', UNCHANGED clusterVars, NEW r \in Replicas, Round(r)
  PROVE  TypeOK'
<1> USE DEF TypeOK, indexVars, clusterVars
<1>1. CASE RoundSkipped(r)
  BY <1>1, ForgetType, SucceedsType DEF RoundSkipped, RoundSucceeds
<1>2. CASE ReadRegistries(r)
  BY <1>2 DEF ReadRegistries, IndexTypeOK
<1>3. CASE LiveGateInstances(r)
  BY <1>3 DEF LiveGateInstances, IndexTypeOK
<1>4. CASE ViewHeld(r)
  BY <1>4, ForgetType, SucceedsType DEF ViewHeld, RoundSucceeds
<1>5. CASE AdvanceSuspects(r)
  <2>1. advance(r) \in [Gates -> 0..2]
    <3>1. \A g \in Gates : suspects[r][g] \in 0..2
      OBVIOUS
    <3>2. \A g \in Gates : (IF suspects[r][g] < 2 THEN suspects[r][g] + 1 ELSE 2) \in 0..2
      BY ONLY <3>1
    <3> HIDE DEF TypeOK
    <3> QED BY <3>2 DEF advance
  <2>2. suspects' \in [Replicas -> [Gates -> 0..2]]
    BY <1>5, <2>1 DEF AdvanceSuspects
  <2>3. [g \in Gates |-> IF g \in {h \in Known(r) : advance(r)[h] = 2} THEN cursors[r][g] ELSE {}]
          \in [Gates -> SUBSET Players]
    OBVIOUS
  <2>4. cursors' \in [Replicas -> [Gates -> SUBSET Players]]
    BY <1>5, <2>3 DEF AdvanceSuspects
  <2>5. todo' \in [Replicas -> SUBSET Gates]
    BY <1>5 DEF AdvanceSuspects, Known
  <2>6. pc' \in [Replicas -> {"wait", "view", "judge", "sweep", "mget", "act", "release"}]
    BY <1>5 DEF AdvanceSuspects
  <2> QED BY <1>5, <2>2, <2>4, <2>5, <2>6 DEF AdvanceSuspects
<1>6. CASE MGet(r)
  <2>1. [p \in Players |-> IF p \in members[r] THEN session[p] ELSE NoSession]
          \in [Players -> Session \cup {NoSession}]
    BY DEF IndexTypeOK
  <2> QED BY <1>6, <2>1 DEF MGet
<1>7. CASE PageDone(r)
  <2>1. cursors' \in [Replicas -> [Gates -> SUBSET Players]]
    BY <1>7 DEF PageDone
  <2>2. raws' \in [Replicas -> [Players -> Session \cup {NoSession}]]
    BY <1>7 DEF PageDone, NoRaws
  <2>3. next' \in [Replicas -> SUBSET Players]
        /\ pc' \in [Replicas -> {"wait", "view", "judge", "sweep", "mget", "act", "release"}]
    BY <1>7 DEF PageDone
  <2> QED BY <1>7, <2>1, <2>2, <2>3 DEF PageDone
<1>8. CASE ReleaseIndex(r)
  BY <1>8 DEF ReleaseIndex
<1>9. CASE RoundEnds(r)
  BY <1>9, ForgetType, SucceedsType DEF RoundEnds, RoundSucceeds
<1>10. ASSUME NEW g \in Gates, SScan(r, g)
       PROVE  TypeOK'
  <2>1. members' \in [Replicas -> SUBSET Players] /\ next' \in [Replicas -> SUBSET Players]
    BY <1>10 DEF SScan, IndexTypeOK
  <2>2. gate' \in [Replicas -> Gates \cup {NoGate}]
        /\ pc' \in [Replicas -> {"wait", "view", "judge", "sweep", "mget", "act", "release"}]
    BY <1>10 DEF SScan
  <2> QED BY <1>10, <2>1, <2>2 DEF SScan
<1>11. ASSUME NEW p \in Players, SweepIndexPage(r, p)
       PROVE  TypeOK'
  BY <1>11 DEF SweepIndexPage
<1> QED BY <1>1, <1>2, <1>3, <1>4, <1>5, <1>6, <1>7, <1>8, <1>9, <1>10, <1>11 DEF Round

\* The other steps of a replica.
Disturbed(r) ==
  \/ RoundFails(r)
  \/ AcquireSlot(r)
  \/ LeaveSlot(r)
  \/ Restart(r)
  \/ \E p \in Players : MemberSkipped(r, p)
  \/ \E g \in Gates : KeySkipped(r, g)

LEMMA DisturbedTyping ==
  ASSUME TypeOK, NEW r \in Replicas, Disturbed(r)
  PROVE  TypeOK' /\ UNCHANGED indexVars /\ UNCHANGED left
<1>0. UNCHANGED indexVars /\ UNCHANGED left
  BY DEF Disturbed, RoundFails, AcquireSlot, LeaveSlot, Restart, MemberSkipped, KeySkipped
<1>i. IndexTypeOK' /\ left' \in SUBSET started'
  BY <1>0 DEF TypeOK, indexVars, IndexTypeOK
<1> USE DEF TypeOK
<1>1. CASE RoundFails(r)
  <2>1. failures' \in [Replicas -> Nat] /\ eligible' \in [Replicas -> BOOLEAN]
    BY <1>1 DEF RoundFails, CountFailure
  <2>2. faults' \in 0..MaxFaults
    BY <1>1, FaultType DEF RoundFails
  <2> QED BY <1>1, <1>i, <2>1, <2>2, ForgetType DEF RoundFails
<1>2. CASE AcquireSlot(r)
  BY <1>2, <1>i DEF AcquireSlot
<1>3. CASE LeaveSlot(r)
  BY <1>3, <1>i, FaultType DEF LeaveSlot
<1>4. CASE Restart(r)
  <2>1. suspects' \in [Replicas -> [Gates -> 0..2]]
    BY <1>4 DEF Restart, NoCounts
  <2>2. cursors' \in [Replicas -> [Gates -> SUBSET Players]]
    BY <1>4 DEF Restart, NoCursors
  <2>3. /\ owned' \in [Replicas -> BOOLEAN] /\ eligible' \in [Replicas -> BOOLEAN]
        /\ failures' \in [Replicas -> Nat]
    BY <1>4 DEF Restart
  <2> QED BY <1>4, <1>i, <2>1, <2>2, <2>3, ForgetType, FaultType DEF Restart
<1>5. ASSUME NEW p \in Players, MemberSkipped(r, p)
      PROVE  TypeOK'
  BY <1>5, <1>i, FaultType DEF MemberSkipped
<1>6. ASSUME NEW g \in Gates, KeySkipped(r, g)
      PROVE  TypeOK'
  <2>1. cursors' \in [Replicas -> [Gates -> SUBSET Players]]
    BY <1>6 DEF KeySkipped
  <2> QED BY <1>6, <1>i, <2>1, FaultType DEF KeySkipped
<1> QED BY <1>0, <1>1, <1>2, <1>3, <1>4, <1>5, <1>6 DEF Disturbed

\* What the rounds rely on, for a step that leaves the cluster alone.
RoundInv == OnlyStarted /\ ViewTrue /\ SteadyGateNotSuspected /\ SweepsDead

LEMMA RoundStep ==
  ASSUME TypeOK, StoreInv, RoundInv, NEW r \in Replicas, Round(r)
  PROVE  StoreInv' /\ RoundInv' /\ UNCHANGED clusterVars /\ UNCHANGED left
<1> USE DEF RoundInv
<1>0. UNCHANGED <<started, dead, etcd, left>>
  BY DEF Round, RoundSkipped, ReadRegistries, LiveGateInstances, ViewHeld, AdvanceSuspects,
         MGet, PageDone, ReleaseIndex, RoundEnds, SScan, SweepIndexPage, indexVars, clusterVars
<1>c. UNCHANGED clusterVars /\ UNCHANGED left
  BY <1>0 DEF clusterVars
<1>1. CASE RoundSkipped(r) \/ ViewHeld(r) \/ RoundEnds(r)
  <2>1. Forget(r) /\ UNCHANGED <<suspects, indexVars>>
    BY <1>1 DEF RoundSkipped, ViewHeld, RoundEnds, RoundSucceeds
  <2>2. RoundInv'
    BY <1>0, <2>1 DEF Forget, OnlyStarted, ViewTrue, SteadyGateNotSuspected, SweepsDead, TypeOK
  <2> QED BY <1>c, <2>1, <2>2, StoreKept
<1>2. CASE ReadRegistries(r)
  <2>1. UNCHANGED indexVars
    BY <1>2 DEF ReadRegistries
  <2>2. RoundInv'
    BY <1>0, <1>2 DEF ReadRegistries, OnlyStarted, ViewTrue, SteadyGateNotSuspected, SweepsDead,
                      TypeOK, StoreInv
  <2> QED BY <1>c, <2>1, <2>2, StoreKept
<1>3. CASE LiveGateInstances(r)
  <2>1. UNCHANGED indexVars
    BY <1>3 DEF LiveGateInstances
  <2>2. RoundInv'
    BY <1>0, <1>3 DEF LiveGateInstances, OnlyStarted, ViewTrue, SteadyGateNotSuspected,
                      SweepsDead, TypeOK
  <2> QED BY <1>c, <2>1, <2>2, StoreKept
<1>4. CASE AdvanceSuspects(r)
  <2>1. UNCHANGED <<indexVars, pairs, live, gate, members>>
    BY <1>4 DEF AdvanceSuspects
  <2>2. /\ suspects' = [suspects EXCEPT ![r] = advance(r)]
        /\ todo' = [todo EXCEPT ![r] = {g \in Known(r) : advance(r)[g] = 2}]
        /\ pc' = [pc EXCEPT ![r] = "sweep"]
        /\ pc[r] = "judge"
    BY <1>4 DEF AdvanceSuspects
  <2>3. \A g \in Gates : advance(r)[g] > 0 => g \in left
    BY <2>2 DEF advance, Known, ViewTrue
  <2>4. OnlyStarted' /\ ViewTrue'
    BY <1>0, <2>1, <2>2 DEF OnlyStarted, ViewTrue, TypeOK
  <2>5. SteadyGateNotSuspected'
    BY <1>0, <2>2, <2>3 DEF SteadyGateNotSuspected, TypeOK
  <2>6. gate[r] = NoGate
    BY <2>2 DEF SweepsDead
  <2>7. SweepsDead'
    BY <2>1, <2>2, <2>6 DEF SweepsDead, TypeOK
  <2> QED BY <1>c, <2>1, <2>4, <2>5, <2>7, StoreKept
<1>5. CASE MGet(r)
  <2>1. UNCHANGED indexVars
    BY <1>5 DEF MGet
  <2>2. RoundInv'
    BY <1>0, <1>5 DEF MGet, OnlyStarted, ViewTrue, SteadyGateNotSuspected, SweepsDead, TypeOK
  <2> QED BY <1>c, <2>1, <2>2, StoreKept
<1>6. CASE PageDone(r)
  <2>1. UNCHANGED indexVars
    BY <1>6 DEF PageDone
  <2>2. RoundInv'
    BY <1>0, <1>6 DEF PageDone, OnlyStarted, ViewTrue, SteadyGateNotSuspected, SweepsDead, TypeOK
  <2> QED BY <1>c, <2>1, <2>2, StoreKept
<1>7. CASE ReleaseIndex(r)
  <2>1. gate[r] \in Gates
    BY <1>7 DEF ReleaseIndex, SweepsDead, TypeOK
  <2>2. StoreInv'
    BY <1>7, <1>c, <2>1, ReleaseSafe DEF ReleaseIndex
  <2>3. RoundInv'
    BY <1>0, <1>7 DEF ReleaseIndex, OnlyStarted, ViewTrue, SteadyGateNotSuspected, SweepsDead,
                      TypeOK
  <2> QED BY <1>c, <2>2, <2>3
<1>8. ASSUME NEW g \in Gates, SScan(r, g)
      PROVE  StoreInv' /\ RoundInv'
  <2>1. UNCHANGED indexVars
    BY <1>8 DEF SScan
  <2>2. PICK page \in SUBSET (index[g] \ cursors[r][g]) :
          members' = [members EXCEPT ![r] = page]
    BY <1>8 DEF SScan
  <2>3. RoundInv'
    BY <1>0, <1>8, <2>2 DEF SScan, OnlyStarted, ViewTrue, SteadyGateNotSuspected, SweepsDead,
                            TypeOK
  <2> QED BY <2>1, <2>3, StoreKept
<1>9. ASSUME NEW p \in Players, SweepIndexPage(r, p)
      PROVE  StoreInv' /\ RoundInv'
  <2>1. gate[r] \in Gates /\ raws[r][p] \in Session \cup {NoSession}
    BY <1>9 DEF SweepIndexPage, SweepsDead, TypeOK
  <2>2. StoreInv'
    <3>1. CASE indexedGate(raws[r][p]) = {gate[r]}
      <4>1. raws[r][p] \in Session
        BY <2>1, <3>1, IndexedGateType
      <4> QED BY <1>c, <1>9, <3>1, <4>1, TransitionSafe DEF SweepIndexPage, SweepMember
    <3>2. CASE indexedGate(raws[r][p]) # {gate[r]}
      BY <1>c, <1>9, <2>1, <3>2, PruneSafe DEF SweepIndexPage, SweepMember
    <3> QED BY <3>1, <3>2
  <2>3. RoundInv'
    BY <1>0, <1>9 DEF SweepIndexPage, OnlyStarted, ViewTrue, SteadyGateNotSuspected, SweepsDead,
                      TypeOK
  <2> QED BY <2>2, <2>3
<1> QED BY <1>c, <1>1, <1>2, <1>3, <1>4, <1>5, <1>6, <1>7, <1>8, <1>9 DEF Round

LEMMA DisturbedStep ==
  ASSUME TypeOK, StoreInv, RoundInv, NEW r \in Replicas, Disturbed(r)
  PROVE  StoreInv' /\ RoundInv'
<1> USE DEF RoundInv
<1>0. UNCHANGED indexVars /\ UNCHANGED left /\ StoreInv'
  BY DisturbedTyping, StoreKept
<1>i. UNCHANGED <<started, etcd, left>>
  BY <1>0 DEF indexVars
<1>1. CASE RoundFails(r)
  BY <1>0, <1>i, <1>1 DEF RoundFails, Forget, OnlyStarted, ViewTrue, SteadyGateNotSuspected,
                          SweepsDead, TypeOK
<1>2. CASE AcquireSlot(r)
  BY <1>0, <1>i, <1>2 DEF AcquireSlot, OnlyStarted, ViewTrue, SteadyGateNotSuspected, SweepsDead
<1>3. CASE LeaveSlot(r)
  BY <1>0, <1>i, <1>3 DEF LeaveSlot, OnlyStarted, ViewTrue, SteadyGateNotSuspected, SweepsDead
<1>4. CASE Restart(r)
  <2>1. Forget(r) /\ suspects' = [suspects EXCEPT ![r] = NoCounts]
    BY <1>4 DEF Restart
  <2>2. OnlyStarted' /\ ViewTrue'
    BY <1>i, <2>1 DEF Forget, OnlyStarted, ViewTrue, TypeOK
  <2>3. SteadyGateNotSuspected'
    BY <1>i, <2>1 DEF SteadyGateNotSuspected, NoCounts, TypeOK
  <2>4. SweepsDead'
    BY <2>1 DEF Forget, SweepsDead, TypeOK
  <2> QED BY <1>0, <2>2, <2>3, <2>4
<1>5. ASSUME NEW p \in Players, MemberSkipped(r, p)
      PROVE  RoundInv'
  BY <1>i, <1>5 DEF MemberSkipped, OnlyStarted, ViewTrue, SteadyGateNotSuspected, SweepsDead,
                    TypeOK
<1>6. ASSUME NEW g \in Gates, KeySkipped(r, g)
      PROVE  RoundInv'
  BY <1>i, <1>6 DEF KeySkipped, OnlyStarted, ViewTrue, SteadyGateNotSuspected, SweepsDead, TypeOK
<1> QED BY <1>0, <1>1, <1>2, <1>3, <1>4, <1>5, <1>6 DEF Disturbed

-----------------------------------------------------------------------------
(* The inductive invariant.                                                *)

LEMMA Start == Init => IInv
<1> SUFFICES ASSUME Init PROVE IInv
  OBVIOUS
<1>1. TypeOK
  BY DEF Init, IndexInit, TypeOK, IndexTypeOK, NoRaws, NoCursors, NoCounts
<1>2. StoreInv
  BY <1>1 DEF Init, IndexInit, TypeOK, StoreInv, IndexCovers, indexedGate
<1>3. OnlyStarted /\ ViewTrue /\ SweepsDead
  BY DEF Init, IndexInit, OnlyStarted, ViewTrue, SweepsDead
<1>4. SteadyGateNotSuspected
  BY DEF Init, SteadyGateNotSuspected, NoCounts
<1> QED BY <1>1, <1>2, <1>3, <1>4 DEF IInv

LEMMA Step == IInv /\ [Next]_vars => IInv'
<1> SUFFICES ASSUME IInv, [Next]_vars PROVE IInv'
  OBVIOUS
<1> USE DEF IInv
<1>r. RoundInv
  BY DEF RoundInv
<1>1. CASE Writer
  <2>1. StoreInv'
    BY <1>1, WriterSafe
  <2>2. UNCHANGED sweepVars /\ UNCHANGED clusterVars
    BY <1>1 DEF Writer
  <2>3. TypeOK'
    BY <2>1, <2>2 DEF TypeOK, StoreInv, sweepVars, clusterVars
  <2>4. OnlyStarted' /\ ViewTrue' /\ SteadyGateNotSuspected' /\ SweepsDead'
    BY <2>2 DEF sweepVars, clusterVars, OnlyStarted, ViewTrue, SteadyGateNotSuspected, SweepsDead
  <2> QED BY <2>1, <2>3, <2>4
<1>2. CASE Cluster
  <2>0. faults' \in 0..MaxFaults
    BY <1>2, FaultType DEF Cluster, TypeOK
  <2>1. UNCHANGED <<owned, eligible, failures, pc, pairs, live, suspects, todo, gate, members,
                    raws, cursors, next>>
    BY <1>2 DEF Cluster
  <2>2. /\ StoreInv' /\ OnlyStarted'
        /\ left' \in SUBSET started' /\ left \subseteq left'
    BY <1>2, ClusterSafe DEF TypeOK
  <2>3. TypeOK'
    BY <2>0, <2>1, <2>2 DEF TypeOK, StoreInv
  <2>4. ViewTrue' /\ SteadyGateNotSuspected' /\ SweepsDead'
    BY <2>1, <2>2 DEF ViewTrue, SteadyGateNotSuspected, SweepsDead
  <2> QED BY <2>2, <2>3, <2>4
<1>3. ASSUME NEW r \in Replicas, Round(r)
      PROVE  IInv'
  <2>1. StoreInv' /\ RoundInv' /\ UNCHANGED clusterVars
    BY <1>3, <1>r, RoundStep
  <2>2. TypeOK'
    BY <1>3, <2>1, RoundTyping DEF StoreInv
  <2> QED BY <2>1, <2>2 DEF RoundInv
<1>4. ASSUME NEW r \in Replicas, Disturbed(r)
      PROVE  IInv'
  BY <1>4, <1>r, DisturbedTyping, DisturbedStep DEF RoundInv
<1>5. CASE UNCHANGED vars
  <2>1. UNCHANGED indexVars
    BY <1>5 DEF vars, indexVars
  <2>2. StoreInv'
    BY <2>1, StoreKept
  <2>3. TypeOK'
    BY <1>5, <2>2 DEF TypeOK, StoreInv, vars
  <2>4. OnlyStarted' /\ ViewTrue' /\ SteadyGateNotSuspected' /\ SweepsDead'
    BY <1>5 DEF vars, OnlyStarted, ViewTrue, SteadyGateNotSuspected, SweepsDead
  <2> QED BY <2>2, <2>3, <2>4
<1> QED BY <1>1, <1>2, <1>3, <1>4, <1>5 DEF Next, Disturbed

THEOREM Invariance == Spec => []IInv
BY Start, Step, PTL DEF Spec

-----------------------------------------------------------------------------
(* The results.                                                            *)

\* No script takes the index entry of a session that a capable locator wrote,
\* whatever the replicas that sweep the slot at once, the writers and the
\* legacy locators do (I1 and I2 of gate_session_index.go).
THEOREM IndexKept == Spec => []IndexCovers
<1>1. IInv => IndexCovers
  BY DEF IInv, StoreInv
<1> QED BY <1>1, Invariance, PTL

\* A gate that has been registered without interruption is never suspected.
THEOREM SteadyGateKept == Spec => []SteadyGateNotSuspected
<1>1. IInv => SteadyGateNotSuspected
  BY DEF IInv
<1> QED BY <1>1, Invariance, PTL

\* The sweep changes only sessions that are ONLINE on the gate found dead when
\* the change is made, not merely when they were read.
THEOREM SweepsOnlyDead == Spec => SweepOnlyDead
<1>1. ASSUME IInv, [Next]_vars, NEW r \in Replicas, NEW p \in members[r] \ members'[r],
             session'[p] # session[p]
      PROVE  indexedGate(session[p]) = {gate[r]} /\ suspects[r][gate[r]] = 2
  <2> USE DEF IInv
  <2>1. PICK q \in Replicas : Round(q) \/ Disturbed(q)
    <3>1. ~Writer /\ ~Cluster /\ ~UNCHANGED vars
      BY <1>1 DEF Writer, Cluster, sweepVars, vars
    <3> QED BY <1>1, <3>1 DEF Next, Disturbed
  <2>2. ~Disturbed(q)
    BY <1>1, DisturbedTyping DEF indexVars
  <2>3. \/ \E g \in Gates : SScan(q, g)
        \/ ReleaseIndex(q)
        \/ \E s \in Players : SweepIndexPage(q, s)
    BY <1>1, <2>1, <2>2 DEF Round, RoundSkipped, ReadRegistries, LiveGateInstances, ViewHeld,
         AdvanceSuspects, MGet, PageDone, RoundEnds, indexVars
  <2>4. PICK s \in Players : SweepIndexPage(q, s)
    BY <1>1, <2>3 DEF SScan, ReleaseIndex, indexVars
  <2>5. r = q /\ p = s
    BY <1>1, <2>4 DEF SweepIndexPage, TypeOK
  <2>6. indexedGate(raws[r][p]) = {gate[r]} /\ session[p] = raws[r][p]
    BY <1>1, <2>4, <2>5 DEF SweepIndexPage, SweepMember, transitionToDisconnecting,
         pruneGateIndexMember, storeVars
  <2>7. suspects[r][gate[r]] = 2
    BY <1>1, <2>4, <2>5 DEF SweepIndexPage, SweepsDead
  <2> QED BY <2>6, <2>7
<1>2. IInv /\ [Next]_vars =>
        [\A r \in Replicas : \A p \in members[r] \ members'[r] :
           session'[p] # session[p] =>
             indexedGate(session[p]) = {gate[r]} /\ suspects[r][gate[r]] = 2]_vars
  BY <1>1
<1> QED BY <1>2, Invariance, PTL DEF Spec, SweepOnlyDead

=============================================================================
