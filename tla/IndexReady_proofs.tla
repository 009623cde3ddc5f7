-------------------------- MODULE IndexReady_proofs -------------------------
(***************************************************************************)
(* Proofs about the ready marker of the gate index, for any number of      *)
(* players, gates and leaders, with overlapping leaders, failed passes and *)
(* legacy locators that come and go.                                       *)
(***************************************************************************)
EXTENDS IndexReady, TLAPS

\* The player's session is in the index it belongs to.
Indexed(p) == \A g \in indexedGate(session[p]) : p \in index[g]

\* The gates of non-empty keys are registered.
Registered == \A g \in Gates : index[g] # {} => g \in registry

Scanning == {"scan", "check", "write"}
Passing == Scanning \cup {"keys", "page", "guard", "release", "mark"}

\* What a pass has in hand at each of its steps.
HandOf(l) ==
  /\ pc[l] \in {"check", "write", "guard"} => player[l] \in Players
  /\ pc[l] \in {"page", "guard", "release"} => key[l] \in Gates
  /\ pc[l] \in Passing \ Scanning => scan[l] = {}
  /\ pc[l] \notin Passing \/ pc[l] = "mark" => ~audit[l]
  /\ pc[l] = "mark" => ~skipped[l]

\* A legacy locator that was noticed: the marker is gone, and a pass that
\* could set it again has yet to check the writers, or has seen the locator.
SeenBy(l) ==
  l \notin outdated /\ ~audit[l] =>
    pc[l] \in {"wait", "gen", "writers"} \/ (pc[l] = "apply" /\ saw[l])

Noticed == legacy /\ observed => ~ready /\ \A l \in Leaders : SeenBy(l)

\* A backfill whose generation is current, with no legacy locator around: the
\* sessions it has visited are in the index, and the one in hand is there or is
\* still the one that was read.
PassOf(l) ==
  l \notin outdated /\ pc[l] \in Passing /\ ~audit[l] /\ ~skipped[l] =>
    /\ \A p \in Players \ scan[l] : Indexed(p)
    /\ pc[l] \in {"check", "write"} => session[player[l]] = raw[l] \/ Indexed(player[l])
    /\ pc[l] = "write" /\ indexed[l] => Indexed(player[l])

Visited == ~legacy => \A l \in Leaders : PassOf(l)

ReadyIndexed == ready /\ ~legacy => \A p \in Players : Indexed(p)

IInv ==
  /\ TypeOK
  /\ Registered
  /\ \A l \in Leaders : HandOf(l)
  /\ Noticed
  /\ Visited
  /\ ReadyIndexed

-----------------------------------------------------------------------------
(* The scripts.                                                            *)

USE ReadyAssumption, IndexAssumption

\* What no script may do without a legacy locator: take the entry of a session,
\* or write one that is not indexed.
Keeps ==
  \A p \in Players : /\ Indexed(p) => Indexed(p)'
                     /\ session'[p] = session[p] \/ Indexed(p)'

Store == IndexTypeOK /\ Registered

LEMMA IndexedGateType ==
  ASSUME NEW s \in Session \cup {NoSession}
  PROVE  /\ indexedGate(s) \subseteq Gates
         /\ \A g \in indexedGate(s) : s \in Session /\ s.gate = g /\ indexedGate(s) = {g}
BY DEF indexedGate, Session

\* A write of a capable locator.
LEMMA CapableKeeps ==
  ASSUME Store, NEW p \in Players, NEW s \in Session \cup {NoSession},
         CapableWrite(p, s), UNCHANGED clusterVars
  PROVE  Store' /\ Keeps
<1> USE DEF Store
<1>1. session'[p] = s /\ \A q \in Players : q # p => session'[q] = session[q]
  BY DEF CapableWrite, IndexTypeOK
<1> DEFINE gone == indexedGate(session[p]) \ indexedGate(s)
<1>2. /\ index' = [g \in Gates |-> IF g \in gone THEN index[g] \ {p}
                              ELSE index[g] \cup {q \in {p} : g \in indexedGate(s)}]
      /\ registry' = (registry \ {g \in gone : index[g] \ {p} = {}}) \cup indexedGate(s)
  BY DEF CapableWrite, MoveIndex
<1>3. /\ indexedGate(s) \subseteq Gates
      /\ \A q \in Players : indexedGate(session[q]) \subseteq Gates
  BY IndexedGateType DEF IndexTypeOK
<1>4. IndexTypeOK'
  <2>1. session' \in [Players -> Session \cup {NoSession}] /\ writes' \in [Players -> Nat]
    BY DEF CapableWrite, IndexTypeOK
  <2>2. index' \in [Gates -> SUBSET Players]
    BY <1>2 DEF IndexTypeOK
  <2>3. registry' \in SUBSET Gates
    BY <1>2, <1>3 DEF IndexTypeOK
  <2> QED BY <2>1, <2>2, <2>3 DEF IndexTypeOK, clusterVars
<1>5. Registered'
  <2> SUFFICES ASSUME NEW g \in Gates, index'[g] # {} PROVE g \in registry'
    BY DEF Registered
  <2>1. CASE g \in gone
    BY <1>2, <2>1 DEF Registered
  <2>2. CASE g \in indexedGate(s)
    BY <1>2, <2>2
  <2>3. CASE g \notin gone /\ g \notin indexedGate(s)
    BY <1>2, <2>3 DEF Registered
  <2> QED BY <2>1, <2>2, <2>3
<1>6. \A g \in indexedGate(session'[p]) : p \in index'[g]
  BY <1>1, <1>2, <1>3
<1>7. \A q \in Players : q # p => \A g \in Gates : q \in index[g] => q \in index'[g]
  BY <1>2
<1>8. Keeps
  BY <1>1, <1>3, <1>6, <1>7 DEF Keeps, Indexed, indexedGate
<1> QED BY <1>4, <1>5, <1>8

\* A prune takes an entry only if the session that was judged is still there,
\* and that one does not belong to the gate.
LEMMA PruneKeeps ==
  ASSUME Store, NEW g \in Gates, NEW p \in Players,
         NEW s \in Session \cup {NoSession}, indexedGate(s) # {g},
         pruneGateIndexMember(g, p, s), UNCHANGED clusterVars
  PROVE  Store' /\ Keeps
<1> USE DEF Store
<1>1. UNCHANGED <<session, writes, registry, started, dead, etcd>>
  BY DEF pruneGateIndexMember, clusterVars
<1>2. index' \in [Gates -> SUBSET Players] /\ \A h \in Gates : index'[h] \subseteq index[h]
  BY DEF pruneGateIndexMember, IndexTypeOK
<1>3. Store'
  BY <1>1, <1>2 DEF IndexTypeOK, Registered
<1>4. ASSUME NEW q \in Players, NEW h \in indexedGate(session[q]), q \in index[h]
      PROVE  q \in index'[h]
  <2>1. h \in Gates /\ indexedGate(session[q]) = {h}
    BY IndexedGateType DEF IndexTypeOK
  <2>2. h # g \/ q # p \/ session[p] # s
    BY <2>1
  <2> QED BY <1>4, <2>1, <2>2 DEF pruneGateIndexMember, IndexTypeOK
<1> QED BY <1>1, <1>3, <1>4 DEF Keeps, Indexed, indexedGate

LEMMA ReleaseKeeps ==
  ASSUME Store, NEW g \in Gates, releaseGateIndexIfEmpty(g), UNCHANGED clusterVars
  PROVE  Store' /\ Keeps
<1>1. UNCHANGED <<session, writes, index, started, dead, etcd>>
  BY DEF releaseGateIndexIfEmpty, clusterVars
<1>2. registry' \subseteq registry /\ \A h \in registry : index[h] # {} => h \in registry'
  BY DEF releaseGateIndexIfEmpty
<1> QED BY <1>1, <1>2 DEF Store, IndexTypeOK, Registered, Keeps, Indexed, indexedGate

\* The repair indexes the session it was given, if that is still there.
LEMMA RepairKeeps ==
  ASSUME Store, NEW p \in Players, NEW s \in Session, indexedGate(s) # {},
         repairGateIndexMember(p, s), UNCHANGED clusterVars
  PROVE  /\ Store' /\ Keeps
         /\ session[p] = s => Indexed(p)'
<1>1. UNCHANGED <<session, writes, started, dead, etcd>>
  BY DEF repairGateIndexMember, clusterVars
<1>2. s.gate \in Gates /\ indexedGate(s) = {s.gate}
  BY IndexedGateType DEF Session
<1>3. /\ index' \in [Gates -> SUBSET Players] /\ registry' \in SUBSET Gates
      /\ \A h \in Gates : index[h] \subseteq index'[h]
      /\ \A h \in Gates : index'[h] # index[h] => h \in registry'
      /\ registry \subseteq registry'
  BY <1>2 DEF repairGateIndexMember, Store, IndexTypeOK
<1>4. Store'
  BY <1>1, <1>3 DEF Store, IndexTypeOK, Registered
<1>5. \A q \in Players : indexedGate(session[q]) \subseteq Gates
  BY IndexedGateType DEF Store, IndexTypeOK
<1>6. Keeps
  BY <1>1, <1>3, <1>5 DEF Keeps, Indexed, indexedGate
<1>7. session[p] = s => Indexed(p)'
  <2> SUFFICES ASSUME session[p] = s PROVE p \in index'[s.gate]
    BY <1>1, <1>2 DEF Indexed, indexedGate
  <2> QED BY <1>2 DEF repairGateIndexMember, Store, IndexTypeOK
<1> QED BY <1>4, <1>6, <1>7

LEMMA StoreSame ==
  ASSUME Store, UNCHANGED indexVars
  PROVE  Store' /\ Keeps
BY DEF indexVars, Store, IndexTypeOK, Registered, Keeps, Indexed, indexedGate

LEMMA StoreStill ==
  ASSUME Store, UNCHANGED storeVars, UNCHANGED clusterVars
  PROVE  Store' /\ Keeps
BY StoreSame DEF storeVars, clusterVars, indexVars

LEMMA LegacyStore ==
  ASSUME Store, NEW p \in Players, LegacyWrite(p), UNCHANGED clusterVars
  PROVE  Store'
<1> USE DEF Store
<1>1. UNCHANGED <<index, registry, started, dead, etcd>>
  BY DEF LegacyWrite, clusterVars
<1>2. writes' \in [Players -> Nat] /\ writes[p] + 1 \in Nat
  BY DEF LegacyWrite, IndexTypeOK
<1>3. session' \in [Players -> Session \cup {NoSession}]
  <2>1. CASE \E g \in started : session' = [session EXCEPT ![p] = Record(p, g, FALSE)]
    BY <1>2, <2>1 DEF Record, Session, IndexTypeOK
  <2>2. CASE /\ indexedGate(session[p]) # {}
             /\ session' = [session EXCEPT ![p].state = "DISCONNECTING",
                                           ![p].ver = writes[p] + 1, ![p].capable = FALSE]
    <3>1. session[p] \in Session
      BY <2>2, IndexedGateType DEF IndexTypeOK
    <3>2. [session[p] EXCEPT !.state = "DISCONNECTING", !.ver = writes[p] + 1,
                             !.capable = FALSE] \in Session
      BY <1>2, <3>1 DEF Session
    <3> QED BY <2>2, <3>1, <3>2 DEF IndexTypeOK, Session
  <2>3. CASE session' = [session EXCEPT ![p] = NoSession]
    BY <2>3 DEF IndexTypeOK
  <2> QED BY <2>1, <2>2, <2>3 DEF LegacyWrite
<1> QED BY <1>1, <1>2, <1>3 DEF IndexTypeOK, Registered

\* The writers of sessions.
LEMMA LocatorStore ==
  ASSUME Store, Locator
  PROVE  Store' /\ (legacy \/ Keeps)
<1>1. UNCHANGED clusterVars
  BY DEF Locator
<1>2. PICK p \in Players :
        \/ \E g \in Gates : SetSession(p, g)
        \/ SetDisconnecting(p)
        \/ DeleteSession(p)
        \/ legacy /\ LegacyWrite(p)
  BY DEF Locator
<1>3. ASSUME NEW g \in Gates, SetSession(p, g)
      PROVE  Store' /\ Keeps
  <2>1. Record(p, g, TRUE) \in Session
    BY DEF Record, Session, Store, IndexTypeOK
  <2> QED BY <1>1, <1>3, <2>1, CapableKeeps DEF SetSession
<1>4. CASE SetDisconnecting(p)
  <2> DEFINE s == [session[p] EXCEPT !.state = "DISCONNECTING", !.ver = writes[p] + 1,
                                     !.capable = TRUE]
  <2>1. session[p] \in Session
    BY <1>4, IndexedGateType DEF SetDisconnecting, Store, IndexTypeOK
  <2>0. writes[p] + 1 \in Nat
    BY DEF Store, IndexTypeOK
  <2>2. s \in Session
    BY <2>0, <2>1 DEF Session
  <2>3. CapableWrite(p, s)
    BY <1>4 DEF SetDisconnecting, transitionToDisconnecting
  <2> QED BY <1>1, <2>2, <2>3, CapableKeeps
<1>5. CASE DeleteSession(p)
  BY <1>1, <1>5, CapableKeeps DEF DeleteSession
<1>6. CASE legacy /\ LegacyWrite(p)
  BY <1>1, <1>6, LegacyStore
<1> QED BY <1>2, <1>3, <1>4, <1>5, <1>6

-----------------------------------------------------------------------------
(* Steps of one leader.                                                    *)

Same(m) ==
  /\ pc'[m] = pc[m] /\ audit'[m] = audit[m] /\ saw'[m] = saw[m]
  /\ scan'[m] = scan[m] /\ key'[m] = key[m] /\ player'[m] = player[m]
  /\ raw'[m] = raw[m] /\ indexed'[m] = indexed[m] /\ skipped'[m] = skipped[m]

\* A step of leader l that neither bumps the generation nor sees a locator
\* come or go.
StepOf(l) ==
  /\ TypeOK' /\ Store' /\ Keeps
  /\ UNCHANGED <<legacy, observed>>
  /\ \A m \in Leaders \ {l} : Same(m) /\ (m \in outdated' <=> m \in outdated)
  /\ HandOf(l)'
  /\ legacy /\ observed => SeenBy(l)'
  /\ ~legacy => PassOf(l)'

\* A leader that does not take the step keeps what its pass has established.
LEMMA Bystander ==
  ASSUME TypeOK, Keeps, NEW m \in Leaders, HandOf(m), Same(m),
         m \in outdated => m \in outdated'
  PROVE  HandOf(m)' /\ (SeenBy(m) => SeenBy(m)') /\ (PassOf(m) => PassOf(m)')
<1>1. HandOf(m)'
  BY DEF HandOf, Same
<1>2. SeenBy(m) => SeenBy(m)'
  BY DEF SeenBy, Same
<1>3. ASSUME PassOf(m), m \notin outdated', pc'[m] \in Passing, ~audit'[m], ~skipped'[m]
      PROVE  /\ \A p \in Players \ scan'[m] : Indexed(p)'
             /\ pc'[m] \in {"check", "write"} =>
                  session'[player'[m]] = raw'[m] \/ Indexed(player[m])'
             /\ pc'[m] = "write" /\ indexed'[m] => Indexed(player[m])'
  <2>1. /\ \A p \in Players \ scan[m] : Indexed(p)
        /\ pc[m] \in {"check", "write"} => session[player[m]] = raw[m] \/ Indexed(player[m])
        /\ pc[m] = "write" /\ indexed[m] => Indexed(player[m])
    BY <1>3 DEF PassOf, Same
  <2>2. \A p \in Players \ scan'[m] : Indexed(p)'
    BY <2>1 DEF Keeps, Same
  <2>3. CASE pc[m] \in {"check", "write"}
    <3>1. PICK q \in Players : q = player[m] /\ q = player'[m]
      BY <2>3 DEF HandOf, Same
    <3>2. /\ session[q] = raw[m] \/ Indexed(q)
          /\ pc[m] = "write" /\ indexed[m] => Indexed(q)
      BY <2>1, <2>3, <3>1
    <3>3. /\ session'[q] = raw'[m] \/ Indexed(q)'
          /\ pc'[m] = "write" /\ indexed'[m] => Indexed(q)'
      BY <3>2 DEF Keeps, Same
    <3>4. Indexed(q)' => Indexed(player[m])'
      BY <3>1 DEF Indexed
    <3> QED BY <2>2, <3>1, <3>3, <3>4
  <2>4. CASE pc[m] \notin {"check", "write"}
    BY <2>2, <2>4 DEF Same
  <2> QED BY <2>3, <2>4
<1> QED BY <1>1, <1>2, <1>3 DEF PassOf

LEMMA LeaderStep ==
  ASSUME IInv, NEW l \in Leaders, StepOf(l),
         ready' => \/ ready
                   \/ ~(legacy /\ observed) /\ (~legacy => \A p \in Players : Indexed(p))
  PROVE  IInv'
<1> USE DEF IInv, StepOf
<1>1. \A m \in Leaders \ {l} : HandOf(m)' /\ (SeenBy(m) => SeenBy(m)') /\ (PassOf(m) => PassOf(m)')
  BY Bystander
<1>2. Noticed'
  BY <1>1 DEF Noticed
<1>3. Visited'
  BY <1>1 DEF Visited
<1>4. ReadyIndexed'
  BY DEF ReadyIndexed, Keeps
<1> QED BY <1>1, <1>2, <1>3, <1>4 DEF Store

\* A bump of the generation leaves no pass that could set the marker.
LEMMA Bump ==
  ASSUME TypeOK', Store', \A l \in Leaders : HandOf(l)', ApplyWriters(TRUE)
  PROVE  IInv'
<1>1. ready' = FALSE /\ outdated' = Leaders
  BY DEF ApplyWriters
<1> QED BY <1>1 DEF IInv, Store, Noticed, SeenBy, Visited, PassOf, ReadyIndexed

\* A step that leaves the passes alone and sets no marker.
LEMMA NoPassStep ==
  ASSUME IInv, TypeOK', Store', Keeps, UNCHANGED <<pc, passVars>>,
         outdated' = outdated, legacy' = legacy, observed' = observed, ready' => ready
  PROVE  IInv'
<1> USE DEF IInv
<1>1. \A m \in Leaders : Same(m)
  BY DEF Same, passVars
<1>2. \A m \in Leaders : HandOf(m)' /\ (SeenBy(m) => SeenBy(m)') /\ (PassOf(m) => PassOf(m)')
  BY <1>1, Bystander
<1>3. Noticed' /\ Visited' /\ ReadyIndexed'
  BY <1>2 DEF Noticed, Visited, ReadyIndexed, Keeps
<1> QED BY <1>2, <1>3 DEF Store
-----------------------------------------------------------------------------
(* The repair loop.                                                        *)

\* A fault within the bound.
LEMMA FaultType ==
  ASSUME TypeOK, Fault
  PROVE  faults' \in 0..MaxFaults
BY DEF TypeOK, Fault

\* The end of a pass, whatever it held.
LEMMA EndPassStep ==
  ASSUME TypeOK, NEW l \in Leaders, EndPass(l)
  PROVE  /\ pc' = [pc EXCEPT ![l] = "wait"]
         /\ audit' \in [Leaders -> BOOLEAN] /\ saw' \in [Leaders -> BOOLEAN]
         /\ scan' \in [Leaders -> SUBSET Players] /\ keys' \in [Leaders -> SUBSET Gates]
         /\ key' \in [Leaders -> Gates \cup {NoGate}] /\ page' \in [Leaders -> SUBSET Players]
         /\ player' \in [Leaders -> Players \cup {NoPlayer}]
         /\ raw' \in [Leaders -> Session \cup {NoSession}]
         /\ indexed' \in [Leaders -> BOOLEAN] /\ skipped' \in [Leaders -> BOOLEAN]
         /\ \A m \in Leaders \ {l} : Same(m)
         /\ pc'[l] = "wait" /\ ~audit'[l]
<1> USE DEF TypeOK, EndPass, Goto
<1>1. /\ audit' \in [Leaders -> BOOLEAN] /\ saw' \in [Leaders -> BOOLEAN]
      /\ scan' \in [Leaders -> SUBSET Players] /\ keys' \in [Leaders -> SUBSET Gates]
      /\ key' \in [Leaders -> Gates \cup {NoGate}] /\ page' \in [Leaders -> SUBSET Players]
      /\ player' \in [Leaders -> Players \cup {NoPlayer}]
      /\ raw' \in [Leaders -> Session \cup {NoSession}]
      /\ indexed' \in [Leaders -> BOOLEAN] /\ skipped' \in [Leaders -> BOOLEAN]
  OBVIOUS
<1>2. \A m \in Leaders \ {l} : Same(m)
  BY DEF Same
<1>3. pc'[l] = "wait" /\ ~audit'[l]
  OBVIOUS
<1> QED BY <1>1, <1>2, <1>3

LEMMA EndPassTyping ==
  ASSUME TypeOK, IndexTypeOK', NEW l \in Leaders, EndPass(l),
         ready' \in BOOLEAN, outdated' \in SUBSET Leaders, faults' \in 0..MaxFaults,
         UNCHANGED <<legacy, arrivals, observed, writers>>
  PROVE  TypeOK'
<1>1. \A m \in Leaders : pc'[m] \in {"check", "write"} => indexedGate(raw'[m]) # {}
  BY EndPassStep DEF TypeOK, Same
<1> QED BY <1>1, EndPassStep DEF TypeOK, indexedGate

\* A pass that has ended promises nothing.
LEMMA EndPassOf ==
  ASSUME IInv, NEW l \in Leaders, EndPass(l), TypeOK', UNCHANGED indexVars,
         outdated' = outdated, UNCHANGED <<legacy, observed>>
  PROVE  StepOf(l)
<1>1. Store' /\ Keeps
  BY StoreSame DEF IInv, TypeOK, Store
<1>2. (\A m \in Leaders \ {l} : Same(m)) /\ pc'[l] = "wait" /\ ~audit'[l]
  BY EndPassStep DEF IInv
<1> QED BY <1>1, <1>2 DEF StepOf, HandOf, SeenBy, PassOf, Passing, Scanning

\* The steps of the loop, in its order: each keeps the store and the other
\* passes, and establishes what its own pass has to know next.
LEMMA ReadGenOf ==
  ASSUME IInv, NEW l \in Leaders, ReadGen(l)
  PROVE  StepOf(l)
<1>1. Store' /\ Keeps
  BY StoreSame DEF ReadGen, IInv, TypeOK, Store
<1>2. TypeOK'
  BY <1>1 DEF ReadGen, Goto, Store, IInv, TypeOK, indexVars, markVars, legacyVars, passVars
<1>3. \A m \in Leaders \ {l} : Same(m) /\ (m \in outdated' <=> m \in outdated)
  BY DEF ReadGen, Goto, IInv, TypeOK, markVars, passVars, Same
<1>4. HandOf(l)'
  BY DEF ReadGen, Goto, IInv, TypeOK, passVars, HandOf, Passing, Scanning
<1>5. legacy /\ observed => SeenBy(l)'
  BY DEF ReadGen, Goto, IInv, TypeOK, passVars, markVars, Noticed, SeenBy
<1>6. ~legacy => PassOf(l)'
  BY DEF ReadGen, Goto, IInv, TypeOK, passVars, PassOf, Passing, Scanning
<1>7. UNCHANGED <<legacy, observed>>
  BY DEF ReadGen, legacyVars, markVars
<1> QED BY <1>1, <1>2, <1>3, <1>4, <1>5, <1>6, <1>7 DEF StepOf

LEMMA PassReadsWritersOf ==
  ASSUME IInv, NEW l \in Leaders, PassReadsWriters(l)
  PROVE  StepOf(l)
<1>1. Store' /\ Keeps
  BY StoreSame DEF PassReadsWriters, IInv, TypeOK, Store
<1>2. TypeOK'
  BY <1>1 DEF PassReadsWriters, Goto, Store, IInv, TypeOK, indexVars, markVars, legacyVars, passVars
<1>3. \A m \in Leaders \ {l} : Same(m) /\ (m \in outdated' <=> m \in outdated)
  BY DEF PassReadsWriters, Goto, IInv, TypeOK, markVars, passVars, Same
<1>4. HandOf(l)'
  BY DEF PassReadsWriters, Goto, IInv, TypeOK, passVars, HandOf, Passing, Scanning
<1>5. legacy /\ observed => SeenBy(l)'
  BY DEF PassReadsWriters, Goto, IInv, TypeOK, passVars, markVars, Noticed, SeenBy
<1>6. ~legacy => PassOf(l)'
  BY DEF PassReadsWriters, Goto, IInv, TypeOK, passVars, PassOf, Passing, Scanning
<1>7. UNCHANGED <<legacy, observed>>
  BY DEF PassReadsWriters, legacyVars, markVars
<1> QED BY <1>1, <1>2, <1>3, <1>4, <1>5, <1>6, <1>7 DEF StepOf

LEMMA RepairStepOf ==
  ASSUME IInv, NEW l \in Leaders, RepairStep(l)
  PROVE  StepOf(l)
<1>1. Store' /\ Keeps
  BY StoreSame DEF RepairStep, IInv, TypeOK, Store
<1>2. TypeOK'
  <2>0. {p \in Players : session[p] # NoSession} \in SUBSET Players
    OBVIOUS
  <2>1. /\ pc' \in [Leaders -> {"wait", "gen", "writers", "apply", "scan", "check", "write",
                              "keys", "page", "guard", "release", "mark"}]
        /\ audit' \in [Leaders -> BOOLEAN] /\ scan' \in [Leaders -> SUBSET Players]
        /\ \A m \in Leaders : pc'[m] \in {"check", "write"} => pc'[m] = pc[m]
    <3>1. CASE ~ready /\ Goto(l, "gen") /\ UNCHANGED <<audit, scan>>
      BY <3>1 DEF Goto, IInv, TypeOK
    <3>2. CASE audit' = [audit EXCEPT ![l] = TRUE] /\ StartScan(l)
      BY <2>0, <3>2 DEF Goto, StartScan, IInv, TypeOK
    <3> QED BY <3>1, <3>2 DEF RepairStep
  <2> QED BY <1>1, <2>1 DEF RepairStep, Store, IInv, TypeOK, indexVars, markVars, legacyVars,
                            indexedGate
<1>3. \A m \in Leaders \ {l} : Same(m) /\ (m \in outdated' <=> m \in outdated)
  BY DEF RepairStep, Goto, StartScan, IInv, TypeOK, markVars, passVars, Same
<1>4. HandOf(l)'
  BY DEF RepairStep, Goto, StartScan, IInv, TypeOK, passVars, HandOf, Passing, Scanning
<1>5. legacy /\ observed => SeenBy(l)'
  BY DEF RepairStep, Goto, StartScan, IInv, TypeOK, passVars, markVars, Noticed, SeenBy
<1>6. ~legacy => PassOf(l)'
  BY DEF RepairStep, Goto, StartScan, IInv, TypeOK, passVars, PassOf, Passing, Scanning
<1>7. UNCHANGED <<legacy, observed>>
  BY DEF RepairStep, legacyVars, markVars
<1> QED BY <1>1, <1>2, <1>3, <1>4, <1>5, <1>6, <1>7 DEF StepOf

LEMMA ReadSessionOf ==
  ASSUME IInv, NEW l \in Leaders, NEW p \in Players, ReadSession(l, p)
  PROVE  StepOf(l)
<1>1. Store' /\ Keeps
  BY StoreSame DEF ReadSession, IInv, TypeOK, Store
<1>2. TypeOK'
  <2>1. session[p] \in Session \cup {NoSession}
    BY DEF IInv, TypeOK, IndexTypeOK
  <2> QED BY <1>1, <2>1 DEF ReadSession, Goto, Candidate, Store, IInv, TypeOK, indexVars,
                            markVars, legacyVars
<1>3. \A m \in Leaders \ {l} : Same(m) /\ (m \in outdated' <=> m \in outdated)
  BY DEF ReadSession, Goto, Candidate, IInv, TypeOK, markVars, passVars, Same
<1>4. HandOf(l)'
  BY DEF ReadSession, Goto, Candidate, IInv, TypeOK, passVars, HandOf, Passing, Scanning
<1>5. legacy /\ observed => SeenBy(l)'
  BY DEF ReadSession, Goto, Candidate, IInv, TypeOK, passVars, markVars, Noticed, SeenBy
<1>6. ~legacy => PassOf(l)'
  <2> SUFFICES ASSUME ~legacy, l \notin outdated', pc'[l] \in Passing, ~audit'[l], ~skipped'[l]
               PROVE  /\ \A q \in Players \ scan'[l] : Indexed(q)'
                      /\ pc'[l] \in {"check", "write"} =>
                           session'[player'[l]] = raw'[l] \/ Indexed(player[l])'
                      /\ pc'[l] = "write" /\ indexed'[l] => Indexed(player[l])'
    BY DEF PassOf
  <2>1. \A q \in Players \ scan[l] : Indexed(q)
    BY DEF ReadSession, Goto, IInv, TypeOK, Visited, PassOf, Passing, Scanning, markVars
  <2>2. CASE Candidate(session[p])
    <3>1. /\ pc'[l] = "check" /\ scan' = scan /\ player'[l] = p /\ raw'[l] = session[p]
          /\ session' = session
      BY <2>2 DEF ReadSession, Goto, IInv, TypeOK, indexVars
    <3> QED BY <1>1, <2>1, <3>1 DEF Keeps
  <2>3. CASE ~Candidate(session[p])
    <3>1. pc'[l] = "scan" /\ scan'[l] = scan[l] \ {p}
      BY <2>3 DEF ReadSession, Goto, IInv, TypeOK
    <3>2. Indexed(p)
      BY <2>3 DEF Candidate, Indexed
    <3> QED BY <1>1, <2>1, <3>1, <3>2 DEF Keeps
  <2> QED BY <2>2, <2>3
<1>7. UNCHANGED <<legacy, observed>>
  BY DEF ReadSession, legacyVars, markVars
<1> QED BY <1>1, <1>2, <1>3, <1>4, <1>5, <1>6, <1>7 DEF StepOf

LEMMA CheckIndexOf ==
  ASSUME IInv, NEW l \in Leaders, CheckIndex(l)
  PROVE  StepOf(l)
<1>1. Store' /\ Keeps
  BY StoreSame DEF CheckIndex, IInv, TypeOK, Store
<1>2. TypeOK'
  BY <1>1 DEF CheckIndex, Goto, Store, IInv, TypeOK, indexVars, markVars, legacyVars, passVars
<1>3. \A m \in Leaders \ {l} : Same(m) /\ (m \in outdated' <=> m \in outdated)
  BY DEF CheckIndex, Goto, IInv, TypeOK, markVars, passVars, Same
<1>4. HandOf(l)'
  BY DEF CheckIndex, Goto, IInv, TypeOK, passVars, HandOf, Passing, Scanning
<1>5. legacy /\ observed => SeenBy(l)'
  BY DEF CheckIndex, Goto, IInv, TypeOK, passVars, markVars, Noticed, SeenBy
<1>6. ~legacy => PassOf(l)'
  <2> SUFFICES ASSUME ~legacy, l \notin outdated', pc'[l] \in Passing, ~audit'[l], ~skipped'[l]
               PROVE  /\ \A p \in Players \ scan'[l] : Indexed(p)'
                      /\ pc'[l] \in {"check", "write"} =>
                           session'[player'[l]] = raw'[l] \/ Indexed(player[l])'
                      /\ pc'[l] = "write" /\ indexed'[l] => Indexed(player[l])'
    BY DEF PassOf
  <2>1. PICK q \in Players : q = player[l] /\ q = player'[l]
    BY DEF CheckIndex, IInv, HandOf
  <2>2. /\ \A p \in Players \ scan[l] : Indexed(p)
        /\ session[q] = raw[l] \/ Indexed(q)
    BY <2>1 DEF CheckIndex, Goto, IInv, TypeOK, Visited, PassOf, Passing, Scanning, markVars
  <2>3. /\ pc'[l] = "write" /\ scan' = scan /\ raw' = raw /\ session' = session
        /\ indexed'[l] = (q \in index[raw[l].gate])
    BY <2>1 DEF CheckIndex, Goto, IInv, TypeOK, indexVars
  <2>4. indexed'[l] /\ session[q] = raw[l] => Indexed(q)
    BY <2>3 DEF Indexed, indexedGate
  <2>5. Indexed(q)' => Indexed(player[l])'
    BY <2>1 DEF Indexed
  <2> QED BY <1>1, <2>1, <2>2, <2>3, <2>4, <2>5 DEF Keeps
<1>7. UNCHANGED <<legacy, observed>>
  BY DEF CheckIndex, legacyVars, markVars
<1> QED BY <1>1, <1>2, <1>3, <1>4, <1>5, <1>6, <1>7 DEF StepOf

\* What BackfillPlayer does to the store: afterwards the player is indexed, if
\* it was so or the session read is still there.
LEMMA BackfillStore ==
  ASSUME IInv, NEW l \in Leaders, BackfillPlayer(l)
  PROVE  /\ Store' /\ Keeps
         /\ player[l] \in Players
         /\ ~indexed[l] /\ session[player[l]] = raw[l] =>
              \A g \in indexedGate(session'[player[l]]) : player[l] \in index'[g]
<1> DEFINE q == player[l]
<1>1. q \in Players /\ raw[l] \in Session /\ indexedGate(raw[l]) # {} /\ Store
  BY DEF BackfillPlayer, IInv, HandOf, TypeOK, Store, indexedGate
<1>2. CASE indexed[l]
  <2>1. raw[l].gate \in Gates
    BY <1>1 DEF Session
  <2>2. registry' = registry \cup {raw[l].gate} /\ UNCHANGED <<session, writes, index, clusterVars>>
    BY <1>2 DEF BackfillPlayer
  <2> QED BY <1>1, <1>2, <2>1, <2>2
          DEF Store, IndexTypeOK, Registered, clusterVars, Keeps, Indexed, indexedGate
<1>3. CASE ~indexed[l]
  <2>1. repairGateIndexMember(q, raw[l]) /\ UNCHANGED clusterVars
    BY <1>3 DEF BackfillPlayer
  <2>2. /\ Store' /\ Keeps
        /\ \A p \in Players : p = q /\ session[p] = raw[l] => Indexed(p)'
    <3> HIDE DEF q
    <3> SUFFICES ASSUME NEW p \in Players, p = q
                 PROVE  Store' /\ Keeps /\ (session[p] = raw[l] => Indexed(p)')
      BY <1>1
    <3> QED BY <1>1, <2>1, RepairKeeps
  <2> QED BY <1>1, <2>2 DEF Indexed
<1> QED BY <1>1, <1>2, <1>3 DEF IInv, TypeOK

LEMMA BackfillPlayerOf ==
  ASSUME IInv, NEW l \in Leaders, BackfillPlayer(l)
  PROVE  StepOf(l)
<1>1. Store' /\ Keeps
  BY BackfillStore
<1>2. TypeOK'
  BY <1>1 DEF BackfillPlayer, VisitDone, Goto, Store, IInv, TypeOK, indexVars, markVars,
              legacyVars, passVars
<1>3. \A m \in Leaders \ {l} : Same(m) /\ (m \in outdated' <=> m \in outdated)
  BY DEF BackfillPlayer, VisitDone, Goto, IInv, TypeOK, markVars, passVars, Same
<1>4. HandOf(l)'
  BY DEF BackfillPlayer, VisitDone, Goto, IInv, TypeOK, passVars, HandOf, Passing, Scanning
<1>5. legacy /\ observed => SeenBy(l)'
  BY DEF BackfillPlayer, VisitDone, Goto, IInv, TypeOK, passVars, markVars, Noticed, SeenBy
<1>6. ~legacy => PassOf(l)'
  <2> SUFFICES ASSUME ~legacy, l \notin outdated', pc'[l] \in Passing, ~audit'[l], ~skipped'[l]
               PROVE  /\ \A p \in Players \ scan'[l] : Indexed(p)'
                      /\ pc'[l] \in {"check", "write"} =>
                           session'[player'[l]] = raw'[l] \/ Indexed(player[l])'
                      /\ pc'[l] = "write" /\ indexed'[l] => Indexed(player[l])'
    BY DEF PassOf
  <2>1. PICK q \in Players : q = player[l]
    BY BackfillStore
  <2>2. /\ \A p \in Players \ scan[l] : Indexed(p)
        /\ session[q] = raw[l] \/ Indexed(q)
        /\ indexed[l] => Indexed(q)
    BY <2>1 DEF BackfillPlayer, VisitDone, Goto, IInv, TypeOK, Visited, PassOf, Passing,
                Scanning, markVars
  <2>3. Indexed(q)'
    BY <1>1, <2>1, <2>2, BackfillStore DEF Keeps, Indexed
  <2>4. pc'[l] = "scan" /\ scan'[l] = scan[l] \ {q}
    BY <2>1 DEF BackfillPlayer, VisitDone, Goto, IInv, TypeOK
  <2> QED BY <1>1, <2>2, <2>3, <2>4 DEF Keeps
<1>7. UNCHANGED <<legacy, observed>>
  BY DEF BackfillPlayer, legacyVars, markVars
<1> QED BY <1>1, <1>2, <1>3, <1>4, <1>5, <1>6, <1>7 DEF StepOf

LEMMA CandidateSkippedOf ==
  ASSUME IInv, NEW l \in Leaders, CandidateSkipped(l)
  PROVE  StepOf(l)
<1>1. Store' /\ Keeps
  BY StoreSame DEF CandidateSkipped, IInv, TypeOK, Store
<1>2. TypeOK'
  BY <1>1, FaultType DEF CandidateSkipped, VisitDone, Goto, Store, IInv, TypeOK, indexVars,
                        markVars, legacyVars
<1>3. \A m \in Leaders \ {l} : Same(m) /\ (m \in outdated' <=> m \in outdated)
  BY DEF CandidateSkipped, VisitDone, Goto, IInv, TypeOK, markVars, passVars, Same
<1>4. HandOf(l)'
  BY DEF CandidateSkipped, VisitDone, Goto, IInv, TypeOK, passVars, HandOf, Passing, Scanning
<1>5. legacy /\ observed => SeenBy(l)'
  BY DEF CandidateSkipped, VisitDone, Goto, IInv, TypeOK, passVars, markVars, Noticed, SeenBy
<1>6. ~legacy => PassOf(l)'
  BY DEF CandidateSkipped, VisitDone, Goto, IInv, TypeOK, passVars, PassOf, Passing, Scanning
<1>7. UNCHANGED <<legacy, observed>>
  BY DEF CandidateSkipped, legacyVars, markVars
<1> QED BY <1>1, <1>2, <1>3, <1>4, <1>5, <1>6, <1>7 DEF StepOf

LEMMA ReadKeysOf ==
  ASSUME IInv, NEW l \in Leaders, ReadKeys(l)
  PROVE  StepOf(l)
<1>1. Store' /\ Keeps
  BY StoreSame DEF ReadKeys, IInv, TypeOK, Store
<1>2. TypeOK'
  <2>1. registry \in SUBSET Gates
    BY DEF IInv, TypeOK, IndexTypeOK
  <2> QED BY <1>1, <2>1 DEF ReadKeys, Goto, Store, IInv, TypeOK, indexVars, markVars, legacyVars
<1>3. \A m \in Leaders \ {l} : Same(m) /\ (m \in outdated' <=> m \in outdated)
  BY DEF ReadKeys, Goto, IInv, TypeOK, markVars, passVars, Same
<1>4. HandOf(l)'
  BY DEF ReadKeys, Goto, IInv, TypeOK, passVars, HandOf, Passing, Scanning
<1>5. legacy /\ observed => SeenBy(l)'
  BY DEF ReadKeys, Goto, IInv, TypeOK, passVars, markVars, Noticed, SeenBy
<1>6. ~legacy => PassOf(l)'
  <2> SUFFICES ASSUME ~legacy, l \notin outdated', pc'[l] \in Passing, ~audit'[l], ~skipped'[l]
               PROVE  /\ \A p \in Players \ scan'[l] : Indexed(p)'
                      /\ pc'[l] \in {"check", "write"} =>
                           session'[player'[l]] = raw'[l] \/ Indexed(player[l])'
                      /\ pc'[l] = "write" /\ indexed'[l] => Indexed(player[l])'
    BY DEF PassOf
  <2>1. \A p \in Players \ scan[l] : Indexed(p)
    BY DEF ReadKeys, Goto, IInv, TypeOK, Visited, PassOf, Passing, Scanning, markVars
  <2>2. scan' = scan /\ pc'[l] \notin {"check", "write"}
    BY DEF ReadKeys, Goto, IInv, TypeOK
  <2> QED BY <1>1, <2>1, <2>2 DEF Keeps
<1>7. UNCHANGED <<legacy, observed>>
  BY DEF ReadKeys, legacyVars, markVars
<1> QED BY <1>1, <1>2, <1>3, <1>4, <1>5, <1>6, <1>7 DEF StepOf

LEMMA ScanKeyOf ==
  ASSUME IInv, NEW l \in Leaders, NEW g \in Gates, ScanKey(l, g)
  PROVE  StepOf(l)
<1>1. Store' /\ Keeps
  BY StoreSame DEF ScanKey, IInv, TypeOK, Store
<1>2. TypeOK'
  <2>1. index[g] \in SUBSET Players
    BY DEF IInv, TypeOK, IndexTypeOK
  <2> QED BY <1>1, <2>1 DEF ScanKey, Goto, Store, IInv, TypeOK, indexVars, markVars, legacyVars
<1>3. \A m \in Leaders \ {l} : Same(m) /\ (m \in outdated' <=> m \in outdated)
  BY DEF ScanKey, Goto, IInv, TypeOK, markVars, passVars, Same
<1>4. HandOf(l)'
  BY DEF ScanKey, Goto, IInv, TypeOK, passVars, HandOf, Passing, Scanning
<1>5. legacy /\ observed => SeenBy(l)'
  BY DEF ScanKey, Goto, IInv, TypeOK, passVars, markVars, Noticed, SeenBy
<1>6. ~legacy => PassOf(l)'
  <2> SUFFICES ASSUME ~legacy, l \notin outdated', pc'[l] \in Passing, ~audit'[l], ~skipped'[l]
               PROVE  /\ \A p \in Players \ scan'[l] : Indexed(p)'
                      /\ pc'[l] \in {"check", "write"} =>
                           session'[player'[l]] = raw'[l] \/ Indexed(player[l])'
                      /\ pc'[l] = "write" /\ indexed'[l] => Indexed(player[l])'
    BY DEF PassOf
  <2>1. \A p \in Players \ scan[l] : Indexed(p)
    BY DEF ScanKey, Goto, IInv, TypeOK, Visited, PassOf, Passing, Scanning, markVars
  <2>2. scan' = scan /\ pc'[l] \notin {"check", "write"}
    BY DEF ScanKey, Goto, IInv, TypeOK
  <2> QED BY <1>1, <2>1, <2>2 DEF Keeps
<1>7. UNCHANGED <<legacy, observed>>
  BY DEF ScanKey, legacyVars, markVars
<1> QED BY <1>1, <1>2, <1>3, <1>4, <1>5, <1>6, <1>7 DEF StepOf

LEMMA ReadMemberOf ==
  ASSUME IInv, NEW l \in Leaders, NEW p \in Players, ReadMember(l, p)
  PROVE  StepOf(l)
<1>1. Store' /\ Keeps
  BY StoreSame DEF ReadMember, IInv, TypeOK, Store
<1>2. TypeOK'
  <2>1. session[p] \in Session \cup {NoSession}
    BY DEF IInv, TypeOK, IndexTypeOK
  <2> QED BY <1>1, <2>1 DEF ReadMember, Goto, Store, IInv, TypeOK, indexVars, markVars, legacyVars
<1>3. \A m \in Leaders \ {l} : Same(m) /\ (m \in outdated' <=> m \in outdated)
  BY DEF ReadMember, Goto, IInv, TypeOK, markVars, passVars, Same
<1>4. HandOf(l)'
  BY DEF ReadMember, Goto, IInv, TypeOK, passVars, HandOf, Passing, Scanning
<1>5. legacy /\ observed => SeenBy(l)'
  BY DEF ReadMember, Goto, IInv, TypeOK, passVars, markVars, Noticed, SeenBy
<1>6. ~legacy => PassOf(l)'
  <2> SUFFICES ASSUME ~legacy, l \notin outdated', pc'[l] \in Passing, ~audit'[l], ~skipped'[l]
               PROVE  /\ \A q \in Players \ scan'[l] : Indexed(q)'
                      /\ pc'[l] \in {"check", "write"} =>
                           session'[player'[l]] = raw'[l] \/ Indexed(player[l])'
                      /\ pc'[l] = "write" /\ indexed'[l] => Indexed(player[l])'
    BY DEF PassOf
  <2>1. \A q \in Players \ scan[l] : Indexed(q)
    BY DEF ReadMember, Goto, IInv, TypeOK, Visited, PassOf, Passing, Scanning, markVars
  <2>2. scan' = scan /\ pc'[l] \notin {"check", "write"}
    BY DEF ReadMember, Goto, IInv, TypeOK
  <2> QED BY <1>1, <2>1, <2>2 DEF Keeps
<1>7. UNCHANGED <<legacy, observed>>
  BY DEF ReadMember, legacyVars, markVars
<1> QED BY <1>1, <1>2, <1>3, <1>4, <1>5, <1>6, <1>7 DEF StepOf

LEMMA PruneMemberOf ==
  ASSUME IInv, NEW l \in Leaders, PruneMember(l)
  PROVE  StepOf(l)
<1>1. Store' /\ Keeps
  <2>1. key[l] \in Gates /\ player[l] \in Players /\ raw[l] \in Session \cup {NoSession} /\ Store
    BY DEF PruneMember, IInv, HandOf, TypeOK, Store
  <2>2. UNCHANGED clusterVars
    BY DEF PruneMember
  <2>3. CASE indexedGate(raw[l]) = {key[l]}
    BY <2>1, <2>2, <2>3, StoreStill DEF PruneMember
  <2>4. CASE indexedGate(raw[l]) # {key[l]}
    BY <2>1, <2>2, <2>4, PruneKeeps DEF PruneMember
  <2> QED BY <2>3, <2>4
<1>2. TypeOK'
  BY <1>1 DEF PruneMember, Goto, Store, IInv, TypeOK, indexVars, markVars, legacyVars, passVars
<1>3. \A m \in Leaders \ {l} : Same(m) /\ (m \in outdated' <=> m \in outdated)
  BY DEF PruneMember, Goto, IInv, TypeOK, markVars, passVars, Same
<1>4. HandOf(l)'
  BY DEF PruneMember, Goto, IInv, TypeOK, passVars, HandOf, Passing, Scanning
<1>5. legacy /\ observed => SeenBy(l)'
  BY DEF PruneMember, Goto, IInv, TypeOK, passVars, markVars, Noticed, SeenBy
<1>6. ~legacy => PassOf(l)'
  <2> SUFFICES ASSUME ~legacy, l \notin outdated', pc'[l] \in Passing, ~audit'[l], ~skipped'[l]
               PROVE  /\ \A p \in Players \ scan'[l] : Indexed(p)'
                      /\ pc'[l] \in {"check", "write"} =>
                           session'[player'[l]] = raw'[l] \/ Indexed(player[l])'
                      /\ pc'[l] = "write" /\ indexed'[l] => Indexed(player[l])'
    BY DEF PassOf
  <2>1. \A p \in Players \ scan[l] : Indexed(p)
    BY DEF PruneMember, Goto, IInv, TypeOK, Visited, PassOf, Passing, Scanning, markVars
  <2>2. scan' = scan /\ pc'[l] \notin {"check", "write"}
    BY DEF PruneMember, Goto, IInv, TypeOK
  <2> QED BY <1>1, <2>1, <2>2 DEF Keeps
<1>7. UNCHANGED <<legacy, observed>>
  BY DEF PruneMember, legacyVars, markVars
<1> QED BY <1>1, <1>2, <1>3, <1>4, <1>5, <1>6, <1>7 DEF StepOf

LEMMA KeyDoneOf ==
  ASSUME IInv, NEW l \in Leaders, KeyDone(l)
  PROVE  StepOf(l)
<1>1. Store' /\ Keeps
  <2>1. key[l] \in Gates /\ Store
    BY DEF KeyDone, IInv, HandOf, TypeOK, Store
  <2>2. UNCHANGED clusterVars
    BY DEF KeyDone
  <2> QED BY <2>1, <2>2, StoreStill, ReleaseKeeps DEF KeyDone
<1>2. TypeOK'
  BY <1>1 DEF KeyDone, Goto, Store, IInv, TypeOK, indexVars, markVars, legacyVars, passVars
<1>3. \A m \in Leaders \ {l} : Same(m) /\ (m \in outdated' <=> m \in outdated)
  BY DEF KeyDone, Goto, IInv, TypeOK, markVars, passVars, Same
<1>4. HandOf(l)'
  BY DEF KeyDone, Goto, IInv, TypeOK, passVars, HandOf, Passing, Scanning
<1>5. legacy /\ observed => SeenBy(l)'
  BY DEF KeyDone, Goto, IInv, TypeOK, passVars, markVars, Noticed, SeenBy
<1>6. ~legacy => PassOf(l)'
  <2> SUFFICES ASSUME ~legacy, l \notin outdated', pc'[l] \in Passing, ~audit'[l], ~skipped'[l]
               PROVE  /\ \A p \in Players \ scan'[l] : Indexed(p)'
                      /\ pc'[l] \in {"check", "write"} =>
                           session'[player'[l]] = raw'[l] \/ Indexed(player[l])'
                      /\ pc'[l] = "write" /\ indexed'[l] => Indexed(player[l])'
    BY DEF PassOf
  <2>1. \A p \in Players \ scan[l] : Indexed(p)
    BY DEF KeyDone, Goto, IInv, TypeOK, Visited, PassOf, Passing, Scanning, markVars
  <2>2. scan' = scan /\ pc'[l] \notin {"check", "write"}
    BY DEF KeyDone, Goto, IInv, TypeOK
  <2> QED BY <1>1, <2>1, <2>2 DEF Keeps
<1>7. UNCHANGED <<legacy, observed>>
  BY DEF KeyDone, legacyVars, markVars
<1> QED BY <1>1, <1>2, <1>3, <1>4, <1>5, <1>6, <1>7 DEF StepOf

LEMMA PassDoneOf ==
  ASSUME IInv, NEW l \in Leaders, PassDone(l)
  PROVE  StepOf(l)
<1>1. CASE audit[l] \/ skipped[l]
  <2>1. EndPass(l) /\ UNCHANGED <<indexVars, markVars, legacyVars, writers, faults>>
    BY <1>1 DEF PassDone
  <2>2. IndexTypeOK'
    BY <2>1 DEF IInv, TypeOK, IndexTypeOK, indexVars
  <2>3. TypeOK'
    BY <2>1, <2>2, EndPassTyping DEF IInv, TypeOK, markVars, legacyVars
  <2> QED BY <2>1, <2>3, EndPassOf DEF markVars, legacyVars
<1>2. CASE ~(audit[l] \/ skipped[l])
  <2>0. /\ pc[l] = "keys" /\ pc' = [pc EXCEPT ![l] = "mark"]
        /\ UNCHANGED <<indexVars, markVars, legacyVars, writers, faults, passVars>>
    BY <1>2 DEF PassDone, Goto
  <2>1. Store' /\ Keeps
    BY <2>0, StoreSame DEF IInv, TypeOK, Store
  <2>2. TypeOK'
    BY <2>0, <2>1 DEF Store, IInv, TypeOK, markVars, legacyVars, passVars
  <2>3. \A m \in Leaders \ {l} : Same(m) /\ (m \in outdated' <=> m \in outdated)
    BY <2>0 DEF IInv, TypeOK, markVars, passVars, Same
  <2>4. HandOf(l)'
    BY <1>2, <2>0 DEF IInv, TypeOK, passVars, HandOf, Passing, Scanning
  <2>5. legacy /\ observed => SeenBy(l)'
    BY <2>0 DEF IInv, TypeOK, passVars, markVars, Noticed, SeenBy
  <2>6. ~legacy => PassOf(l)'
    <3>1. ~legacy /\ l \notin outdated /\ ~audit[l] /\ ~skipped[l] =>
            \A p \in Players \ scan[l] : Indexed(p)
      BY <2>0 DEF IInv, Visited, PassOf, Passing
    <3>2. /\ pc'[l] = "mark" /\ scan' = scan /\ audit' = audit /\ skipped' = skipped
          /\ outdated' = outdated
      BY <2>0 DEF IInv, TypeOK, passVars, markVars
    <3> QED BY <2>1, <3>1, <3>2 DEF PassOf, Keeps
  <2> QED BY <2>0, <2>1, <2>2, <2>3, <2>4, <2>5, <2>6 DEF StepOf, legacyVars, markVars
<1> QED BY <1>1, <1>2

\* The marker is set only by a pass that has indexed every session.
LEMMA SetReadyStep ==
  ASSUME IInv, NEW l \in Leaders, SetReady(l)
  PROVE  IInv'
<1>1. /\ EndPass(l) /\ pc[l] = "mark" /\ ready' = (ready \/ l \notin outdated)
      /\ UNCHANGED <<indexVars, outdated, observed, legacyVars, writers, faults>>
  BY DEF SetReady
<1>2. TypeOK'
  <2>1. IndexTypeOK'
    BY <1>1 DEF IInv, TypeOK, IndexTypeOK, indexVars
  <2> QED BY <1>1, <2>1, EndPassTyping DEF IInv, TypeOK, legacyVars
<1>3. StepOf(l)
  BY <1>1, <1>2, EndPassOf DEF legacyVars
<1>4. ~audit[l] /\ ~skipped[l] /\ scan[l] = {}
  BY <1>1 DEF IInv, HandOf, Passing, Scanning
<1>5. l \notin outdated => ~(legacy /\ observed)
  BY <1>1, <1>4 DEF IInv, Noticed, SeenBy
<1>6. l \notin outdated /\ ~legacy => \A p \in Players : Indexed(p)
  BY <1>1, <1>4 DEF IInv, Visited, PassOf, Passing
<1> QED BY <1>1, <1>3, <1>5, <1>6, LeaderStep DEF IInv, TypeOK

LEMMA PassAbortsOf ==
  ASSUME IInv, NEW l \in Leaders, PassAborts(l)
  PROVE  StepOf(l)
<1>1. EndPass(l) /\ Fault /\ UNCHANGED <<indexVars, markVars, legacyVars, writers>>
  BY DEF PassAborts
<1>2. IndexTypeOK'
  BY <1>1 DEF IInv, TypeOK, IndexTypeOK, indexVars
<1>3. TypeOK'
  BY <1>1, <1>2, FaultType, EndPassTyping DEF IInv, TypeOK, markVars, legacyVars
<1> QED BY <1>1, <1>3, EndPassOf DEF markVars, legacyVars

\* The pass applies what it saw and starts to scan: nothing is visited yet
\* but the players without a session.
LEMMA PassAppliesStep ==
  ASSUME IInv, NEW l \in Leaders, PassAppliesWriters(l)
  PROVE  IInv'
<1>1. Store' /\ Keeps
  BY StoreSame DEF PassAppliesWriters, IInv, TypeOK, Store
<1>2. /\ pc[l] = "apply" /\ pc' = [pc EXCEPT ![l] = "scan"]
      /\ scan' = [scan EXCEPT ![l] = {p \in Players : session[p] # NoSession}]
      /\ UNCHANGED <<indexVars, legacy, arrivals, writers, audit, saw, keys, key, page,
                     player, raw, indexed, skipped, faults>>
  BY DEF PassAppliesWriters, StartScan, Goto, legacyVars
<1>3. ApplyWriters(saw[l]) /\ saw[l] \in BOOLEAN
  BY DEF PassAppliesWriters, IInv, TypeOK
<1>4. TypeOK'
  <2>1. {p \in Players : session[p] # NoSession} \in SUBSET Players
    OBVIOUS
  <2>2. ready' \in BOOLEAN /\ outdated' \in SUBSET Leaders /\ observed' \in BOOLEAN
    BY <1>3 DEF ApplyWriters, IInv, TypeOK, markVars
  <2> QED BY <1>1, <1>2, <2>1, <2>2 DEF Store, IInv, TypeOK
<1>5. \A m \in Leaders \ {l} : Same(m)
  BY <1>2 DEF IInv, TypeOK, Same
<1>6. HandOf(l)'
  BY <1>2 DEF IInv, TypeOK, HandOf, Passing, Scanning
<1>7. CASE saw[l]
  <2>1. \A m \in Leaders : HandOf(m)'
    BY <1>5, <1>6 DEF IInv, HandOf, Same
  <2> QED BY <1>1, <1>3, <1>4, <1>7, <2>1, Bump DEF ApplyWriters
<1>8. CASE ~saw[l]
  <2>1. UNCHANGED markVars
    BY <1>3, <1>8 DEF ApplyWriters
  <2>2. ~audit[l]
    BY <1>2 DEF IInv, HandOf, Passing, Scanning
  <2>3. legacy /\ observed => SeenBy(l)'
    BY <1>2, <1>8, <2>1, <2>2 DEF IInv, Noticed, SeenBy, markVars
  <2>4. PassOf(l)'
    <3>1. pc'[l] = "scan" /\ scan'[l] = {p \in Players : session[p] # NoSession}
      BY <1>2 DEF IInv, TypeOK
    <3>2. \A p \in Players \ scan'[l] : Indexed(p)'
      BY <1>2, <3>1 DEF Indexed, indexedGate, indexVars
    <3> QED BY <3>1, <3>2 DEF PassOf
  <2>5. StepOf(l)
    BY <1>1, <1>2, <1>4, <1>5, <1>6, <2>1, <2>3, <2>4 DEF StepOf, markVars
  <2> QED BY <2>1, <2>5, LeaderStep DEF markVars
<1> QED BY <1>3, <1>7, <1>8

-----------------------------------------------------------------------------
(* The writer rounds, the locators, the whole.                             *)

LEMMA WriterRoundStep ==
  ASSUME IInv, NEW l \in Leaders,
         WriterRoundReads(l) \/ WriterRoundApplies(l) \/ WriterRoundFails(l)
  PROVE  IInv'
<1>1. UNCHANGED <<indexVars, legacyVars, pc, passVars>>
  BY DEF WriterRoundReads, WriterRoundApplies, WriterRoundFails
<1>2. Store' /\ Keeps
  BY <1>1, StoreSame DEF IInv, TypeOK, Store
<1>3. /\ writers' \in [Leaders -> {"unread", "legacy", "clear"}]
      /\ faults' \in 0..MaxFaults
  BY FaultType DEF WriterRoundReads, WriterRoundApplies, WriterRoundFails, IInv, TypeOK
<1>4. UNCHANGED markVars \/ ApplyWriters(TRUE)
  BY DEF WriterRoundReads, WriterRoundApplies, WriterRoundFails, ApplyWriters
<1>5. TypeOK'
  <2>1. ready' \in BOOLEAN /\ outdated' \in SUBSET Leaders /\ observed' \in BOOLEAN
    BY <1>4 DEF ApplyWriters, IInv, TypeOK, markVars
  <2> QED BY <1>1, <1>2, <1>3, <2>1 DEF Store, IInv, TypeOK, legacyVars, passVars
<1>6. CASE UNCHANGED markVars
  BY <1>1, <1>2, <1>5, <1>6, NoPassStep DEF markVars, legacyVars
<1>7. CASE ApplyWriters(TRUE)
  <2>1. \A m \in Leaders : HandOf(m)'
    BY <1>1 DEF IInv, HandOf, passVars
  <2> QED BY <1>2, <1>5, <1>7, <2>1, Bump
<1> QED BY <1>4, <1>6, <1>7

LEMMA ReadyExpiresStep ==
  ASSUME IInv, ReadyExpires
  PROVE  IInv'
<1>1. /\ ready' = FALSE
      /\ UNCHANGED <<indexVars, outdated, observed, legacy, arrivals, writers, pc, passVars,
                     faults>>
  BY DEF ReadyExpires, legacyVars
<1>2. Store' /\ Keeps
  BY <1>1, StoreSame DEF IInv, TypeOK, Store
<1>3. TypeOK'
  BY <1>1, <1>2 DEF Store, IInv, TypeOK, passVars
<1> QED BY <1>1, <1>2, <1>3, NoPassStep

LEMMA LocatorStep ==
  ASSUME IInv, Locator
  PROVE  IInv'
<1>1. UNCHANGED <<clusterVars, markVars, legacy, arrivals, writers, pc, passVars, faults>>
  BY DEF Locator, legacyVars
<1>2. Store' /\ (legacy \/ Keeps)
  BY LocatorStore DEF IInv, TypeOK, Store
<1>3. TypeOK'
  BY <1>1, <1>2 DEF Store, IInv, TypeOK, passVars, markVars
<1>4. CASE Keeps
  BY <1>1, <1>2, <1>3, <1>4, NoPassStep DEF markVars
<1>5. CASE legacy
  <2>1. (\A m \in Leaders : HandOf(m)') /\ Noticed'
    BY <1>1 DEF IInv, HandOf, Noticed, SeenBy, passVars, markVars
  <2>2. Visited' /\ ReadyIndexed'
    BY <1>1, <1>5 DEF Visited, ReadyIndexed
  <2> QED BY <1>2, <1>3, <2>1, <2>2 DEF IInv, Store
<1> QED BY <1>2, <1>4, <1>5

LEMMA GateRegistersStep ==
  ASSUME IInv, GateRegisters
  PROVE  IInv'
<1>1. UNCHANGED <<session, writes, index, registry, markVars, legacy, arrivals, writers, pc,
                  passVars, faults>>
  BY DEF GateRegisters, storeVars, legacyVars
<1>2. IndexTypeOK'
  <2>1. PICK g \in Gates : GateStarts(g)
    BY DEF GateRegisters
  <2> QED BY <1>1, <2>1 DEF GateStarts, IInv, TypeOK, IndexTypeOK
<1>3. Store' /\ Keeps
  BY <1>1, <1>2 DEF Store, IInv, Registered, Keeps, Indexed, indexedGate
<1>4. TypeOK'
  BY <1>1, <1>2 DEF IInv, TypeOK, passVars, markVars
<1> QED BY <1>1, <1>3, <1>4, NoPassStep DEF markVars

\* A locator that appears has not been noticed yet; one that leaves has.
LEMMA LegacyStep ==
  ASSUME IInv, LegacyArrives \/ LegacyLeaves, ~ShortLived
  PROVE  IInv'
<1>1. /\ UNCHANGED <<indexVars, ready, outdated, writers, pc, passVars, faults>>
      /\ \/ legacy' = TRUE /\ observed' = FALSE /\ arrivals < MaxLegacy /\ arrivals' = arrivals + 1
         \/ legacy /\ observed /\ legacy' = FALSE /\ UNCHANGED <<observed, arrivals>>
  BY DEF LegacyArrives, LegacyLeaves, markVars
<1>2. Store' /\ Keeps
  BY <1>1, StoreSame DEF IInv, TypeOK, Store
<1>3. TypeOK'
  <2>1. arrivals' \in 0..MaxLegacy
    BY <1>1 DEF IInv, TypeOK
  <2>2. legacy' \in BOOLEAN /\ observed' \in BOOLEAN
    BY <1>1, Zenon DEF IInv, TypeOK
  <2> QED BY <1>1, <1>2, <2>1, <2>2 DEF Store, IInv, TypeOK, passVars
<1>4. \A m \in Leaders : HandOf(m)'
  BY <1>1 DEF IInv, HandOf, passVars
<1>5. Noticed'
  BY <1>1 DEF Noticed
<1>6. Visited' /\ ReadyIndexed'
  <2>1. CASE legacy' = TRUE
    BY <2>1 DEF Visited, ReadyIndexed
  <2>2. CASE legacy /\ observed
    <3>1. ready' = FALSE /\ \A m \in Leaders : SeenBy(m)
      BY <1>1, <2>2 DEF IInv, TypeOK, Noticed
    <3>2. \A m \in Leaders : PassOf(m)'
      BY <1>1, <3>1 DEF SeenBy, PassOf, Passing, Scanning, passVars
    <3> QED BY <3>1, <3>2 DEF Visited, ReadyIndexed
  <2> QED BY <1>1, <2>1, <2>2
<1> QED BY <1>2, <1>3, <1>4, <1>5, <1>6 DEF IInv, Store

LEMMA InitIInv == Init => IInv
<1> SUFFICES ASSUME Init PROVE IInv
  OBVIOUS
<1>1. TypeOK
  <2>1. IndexTypeOK
    BY DEF Init, IndexInit, IndexTypeOK
  <2>2. arrivals \in 0..MaxLegacy /\ faults \in 0..MaxFaults
    BY DEF Init
  <2>3. ready \in BOOLEAN /\ legacy \in BOOLEAN /\ observed \in BOOLEAN
    BY Zenon DEF Init
  <2> QED BY <2>1, <2>2, <2>3 DEF Init, TypeOK
<1>2. Registered /\ \A l \in Leaders : HandOf(l)
  BY DEF Init, IndexInit, Registered, HandOf, Passing, Scanning
<1>3. Noticed /\ Visited /\ ReadyIndexed
  BY DEF Init, Noticed, Visited, PassOf, Passing, Scanning, ReadyIndexed
<1> QED BY <1>1, <1>2, <1>3 DEF IInv

LEMMA StepIInv ==
  ASSUME IInv, [Next]_vars, ~ShortLived
  PROVE  IInv'
<1>1. ASSUME NEW l \in Leaders, StepOf(l), ready' = ready
      PROVE  IInv'
  BY <1>1, LeaderStep
<1>2. ASSUME NEW l \in Leaders, Repair(l)
      PROVE  IInv'
  <2>1. CASE RepairStep(l)
    BY <1>1, <2>1, RepairStepOf DEF RepairStep, markVars
  <2>2. CASE ReadGen(l)
    BY <1>1, <2>2, ReadGenOf DEF ReadGen
  <2>3. CASE PassReadsWriters(l)
    BY <1>1, <2>3, PassReadsWritersOf DEF PassReadsWriters, markVars
  <2>4. CASE PassAppliesWriters(l)
    BY <2>4, PassAppliesStep
  <2>5. CASE CheckIndex(l)
    BY <1>1, <2>5, CheckIndexOf DEF CheckIndex, markVars
  <2>6. CASE BackfillPlayer(l)
    BY <1>1, <2>6, BackfillPlayerOf DEF BackfillPlayer, markVars
  <2>7. CASE ReadKeys(l)
    BY <1>1, <2>7, ReadKeysOf DEF ReadKeys, markVars
  <2>8. CASE PruneMember(l)
    BY <1>1, <2>8, PruneMemberOf DEF PruneMember, markVars
  <2>9. CASE KeyDone(l)
    BY <1>1, <2>9, KeyDoneOf DEF KeyDone, markVars
  <2>10. CASE PassDone(l)
    BY <1>1, <2>10, PassDoneOf DEF PassDone, markVars
  <2>11. CASE SetReady(l)
    BY <2>11, SetReadyStep
  <2>12. ASSUME NEW p \in Players, ReadSession(l, p) PROVE IInv'
    BY <1>1, <2>12, ReadSessionOf DEF ReadSession, markVars
  <2>13. ASSUME NEW p \in Players, ReadMember(l, p) PROVE IInv'
    BY <1>1, <2>13, ReadMemberOf DEF ReadMember, markVars
  <2>14. ASSUME NEW g \in Gates, ScanKey(l, g) PROVE IInv'
    BY <1>1, <2>14, ScanKeyOf DEF ScanKey, markVars
  <2> QED BY <1>2, <2>1, <2>2, <2>3, <2>4, <2>5, <2>6, <2>7, <2>8, <2>9, <2>10, <2>11,
             <2>12, <2>13, <2>14 DEF Repair
<1>3. ASSUME NEW l \in Leaders, PassAborts(l) PROVE IInv'
  BY <1>1, <1>3, PassAbortsOf DEF PassAborts, markVars
<1>4. ASSUME NEW l \in Leaders, CandidateSkipped(l) PROVE IInv'
  BY <1>1, <1>4, CandidateSkippedOf DEF CandidateSkipped, markVars
<1>5. CASE UNCHANGED vars
  <2>1. UNCHANGED <<indexVars, ready, outdated, legacy, observed, pc, passVars>>
    BY <1>5 DEF vars, indexVars, passVars
  <2>2. TypeOK'
    BY <1>5 DEF vars, IInv, TypeOK, IndexTypeOK, indexedGate
  <2>3. Store' /\ Keeps
    BY <2>1, StoreSame DEF IInv, TypeOK, Store
  <2> QED BY <2>1, <2>2, <2>3, NoPassStep
<1> QED BY <1>2, <1>3, <1>4, <1>5, WriterRoundStep, ReadyExpiresStep, LocatorStep,
           GateRegistersStep, LegacyStep DEF Next

\* The invariant behind the marker, when every legacy locator is noticed
\* before it leaves.
THEOREM Inductive == ASSUME ~ShortLived PROVE Spec => []IInv
<1>1. IInv /\ [Next]_vars => IInv'
  BY StepIInv
<1> QED BY <1>1, InitIInv, PTL DEF Spec

\* While the marker is set and no legacy locator is registered, every ONLINE
\* session is in the index of a registered gate, whichever leaders ran which
\* passes, aborted them or overlapped: the sweep may rely on the marker.
THEOREM ReadySafe == ASSUME ~ShortLived PROVE Spec => []ReadyMeansIndexed
<1>1. IInv => ReadyMeansIndexed
  <2> SUFFICES ASSUME IInv, ready /\ ~legacy, NEW p \in Players,
                      NEW g \in indexedGate(session[p])
               PROVE  p \in index[g] /\ g \in registry
    BY DEF ReadyMeansIndexed
  <2>1. g \in Gates
    BY IndexedGateType DEF IInv, TypeOK, IndexTypeOK
  <2>2. p \in index[g]
    BY DEF IInv, ReadyIndexed, Indexed
  <2> QED BY <2>1, <2>2 DEF IInv, Registered
<1> QED BY <1>1, Inductive, PTL
=============================================================================
