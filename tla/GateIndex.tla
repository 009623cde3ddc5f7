----------------------------- MODULE GateIndex -----------------------------
(***************************************************************************)
(* The index "gate instance -> players ONLINE on it" of one Redis slot,    *)
(* with the scripts that maintain, prune, release and repair it, and the   *)
(* session writers.  Capable locators move the index in the script that    *)
(* writes the session; legacy ones (an older binary during a rollout) do   *)
(* not know it.  PlayerSession has the handlers of the capable writers in  *)
(* detail; here a write is the script that commits it.                     *)
(***************************************************************************)
EXTENDS Naturals, FiniteSets

CONSTANTS
  Players,     \* player ids, all in this slot
  Gates,       \* gate instance ids
  MaxWrites,   \* bound: writes of one player's session
  NoSession

\* ver stands for the bytes that differ between two records of a player;
\* capable is a history bit: the writer moved the index.
Session == [state : {"ONLINE", "DISCONNECTING"}, gate : Gates, ver : Nat, capable : BOOLEAN]

ASSUME IndexAssumption == MaxWrites \in Nat /\ NoSession \notin Session

VARIABLES
  session,     \* player:session:{pid}
  writes,      \* number of writes so far: the next record's ver
  index,       \* per gate: the index key
  registry,    \* the slot's set of gates
  started,     \* gate instances that have registered in etcd at least once
  dead,        \* gate processes that are gone
  etcd         \* gate instances registered now

storeVars == <<session, writes, index, registry>>
clusterVars == <<started, dead, etcd>>
indexVars == <<session, writes, index, registry, started, dead, etcd>>

IndexTypeOK ==
  /\ session \in [Players -> Session \cup {NoSession}]
  /\ writes \in [Players -> Nat]
  /\ index \in [Gates -> SUBSET Players]
  /\ registry \in SUBSET Gates
  /\ started \in SUBSET Gates
  /\ dead \in SUBSET started
  /\ etcd \in SUBSET started

IndexInit ==
  /\ session = [p \in Players |-> NoSession]
  /\ writes = [p \in Players |-> 0]
  /\ index = [g \in Gates |-> {}]
  /\ registry = {}
  /\ started = {}
  /\ dead = {}
  /\ etcd = {}

-----------------------------------------------------------------------------
(* Scripts.                                                                *)

\* The index the session belongs to (invariant I1 of the code).
indexedGate(s) ==
  IF s # NoSession /\ s.state = "ONLINE" THEN {s.gate} ELSE {}

\* The session scripts: SREM of the old gate (and of its registry entry when
\* the key is empty then), SADD of the new one.
MoveIndex(p, s) ==
  LET gone == indexedGate(session[p]) \ indexedGate(s) IN
  /\ index' = [g \in Gates |-> IF g \in gone THEN index[g] \ {p}
                              ELSE index[g] \cup {q \in {p} : g \in indexedGate(s)}]
  /\ registry' = (registry \ {g \in gone : index[g] \ {p} = {}}) \cup indexedGate(s)

CapableWrite(p, s) ==
  /\ session' = [session EXCEPT ![p] = s]
  /\ writes' = [writes EXCEPT ![p] = @ + 1]
  /\ MoveIndex(p, s)

\* pruneGateIndexMemberScript: only if the session is still the one judged.
pruneGateIndexMember(g, p, raw) ==
  /\ index' = IF session[p] = raw THEN [index EXCEPT ![g] = @ \ {p}] ELSE index
  /\ UNCHANGED <<session, writes, registry>>

\* Mutant: the key is released because the scan has left nothing in it.
ReleaseUnguarded(g) ==
  /\ registry' = registry \ {g}
  /\ index' = [index EXCEPT ![g] = {}]
  /\ UNCHANGED <<session, writes>>

\* releaseGateIndexIfEmptyScript.
releaseGateIndexIfEmpty(g) ==
  /\ registry' = IF index[g] = {} THEN registry \ {g} ELSE registry
  /\ UNCHANGED <<session, writes, index>>

\* repairGateIndexMemberScript.
repairGateIndexMember(p, raw) ==
  /\ IF session[p] = raw
     THEN /\ index' = [index EXCEPT ![raw.gate] = @ \cup {p}]
          /\ registry' = registry \cup {raw.gate}
     ELSE UNCHANGED <<index, registry>>
  /\ UNCHANGED <<session, writes>>

\* transitionToDisconnecting: the commit point of SetDisconnecting, a CAS
\* over the whole record.
transitionToDisconnecting(p, raw) ==
  IF session[p] = raw
  THEN CapableWrite(p, [raw EXCEPT !.state = "DISCONNECTING", !.ver = writes[p] + 1,
                                   !.capable = TRUE])
  ELSE UNCHANGED storeVars

-----------------------------------------------------------------------------
(* The writers.                                                            *)

Record(p, g, c) == [state |-> "ONLINE", gate |-> g, ver |-> writes[p] + 1, capable |-> c]

\* login hands out a gate only after it has registered; it may be gone again
\* when the session is written.
SetSession(p, g) ==
  /\ g \in started /\ writes[p] < MaxWrites
  /\ CapableWrite(p, Record(p, g, TRUE))

\* A report of the gate, or the end of the session.
SetDisconnecting(p) ==
  /\ indexedGate(session[p]) # {} /\ writes[p] < MaxWrites
  /\ transitionToDisconnecting(p, session[p])

\* MarkOffline, or the expiry of the disconnect lease.
DeleteSession(p) ==
  /\ session[p] # NoSession /\ writes[p] < MaxWrites
  /\ CapableWrite(p, NoSession)

\* The same writes by a locator that does not know the index.
LegacyWrite(p) ==
  /\ writes[p] < MaxWrites
  /\ \/ \E g \in started : session' = [session EXCEPT ![p] = Record(p, g, FALSE)]
     \/ /\ indexedGate(session[p]) # {}
        /\ session' = [session EXCEPT ![p].state = "DISCONNECTING",
                                     ![p].ver = writes[p] + 1, ![p].capable = FALSE]
     \/ /\ session[p] # NoSession
        /\ session' = [session EXCEPT ![p] = NoSession]
  /\ writes' = [writes EXCEPT ![p] = @ + 1]
  /\ UNCHANGED <<index, registry>>

-----------------------------------------------------------------------------
(* Gates and etcd.                                                         *)

GateStarts(g) ==
  /\ g \notin started
  /\ started' = started \cup {g} /\ etcd' = etcd \cup {g}
  /\ UNCHANGED dead

GateDies(g) ==
  /\ g \in started \ dead
  /\ dead' = dead \cup {g}
  /\ UNCHANGED <<started, etcd>>

\* The etcd lease ends: of a dead gate, or of one that could not renew it.
RegistrationEnds(g) ==
  /\ g \in etcd
  /\ etcd' = etcd \ {g}
  /\ UNCHANGED <<started, dead>>

\* A live gate registers again, with the same uuid.
Reregisters(g) ==
  /\ g \in started \ (dead \cup etcd)
  /\ etcd' = etcd \cup {g}
  /\ UNCHANGED <<started, dead>>

-----------------------------------------------------------------------------
\* No script of the sweep, the repair or another writer takes the index
\* entry of a session that a capable locator wrote: it is a member of its
\* gate's key (I1), and the gates of non-empty keys are registered (I2).
\* Otherwise the session stays ONLINE for ever when its gate dies.
IndexCovers ==
  /\ \A p \in Players : \A g \in indexedGate(session[p]) :
       session[p].capable => p \in index[g]
  /\ \A g \in Gates : index[g] # {} => g \in registry
=============================================================================
