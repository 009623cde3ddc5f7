# Verification of sessions, ownership and asset transfers of a player

TLA+ models, TLC runs and TLAPS proofs for three questions about a player of
this server, each of which is decided by several processes at once:

* *Which connection is he playing on?* `go/player_locator` with its background
  jobs, `go/shared/leader` and `go/shared/liveview` they run under, and the
  steps of `go/login` and `go/scene_manager` in the session life cycle. A
  mistake shows as a kicked player, a ghost in a scene or an account that
  cannot log in.
* *Which scene node holds his character, and is what it plays what is stored?*
  The player store of `go/db`, its client and the player life cycle of the C++
  scene node, the owner epochs and the dead-holder release of
  `go/scene_manager` and `go/data_service`. A mistake is lost progress.
* *Did an asset operation happen?* `go/shared/assetop`, the outbox of
  `go/guild` and the asset operations of the scene node. A mistake is money
  that is paid twice or not at all.

Paths below are relative to the repository. `PL` is
`go/player_locator/internal/logic`, `SC` is
`cpp/libs/services/scene/player/system`.

## 1. Inventory

### 1.1 Components, their state and their operations

| Component | State it keeps | Operations |
|---|---|---|
| **Session authority** (`PL/setsessionlogic.go`, `reconnectlogic.go`, `setdisconnectinglogic.go`, `markofflinelogic.go`, `session_cas.go`) | `player:session:{pid}` (session id, gate instance, login generation, version, ONLINE or DISCONNECTING) in Redis | SetSession, Reconnect, SetDisconnecting, MarkOffline: read, decide, commit by a Lua script that compares the whole record |
| **Lease monitor** (`PL/leasemonitor.go`) | per slot: sorted sets *ready* and *processing*, hashes `claim_tokens` and `claim_payloads` | claim due leases, pin the payload, probe the AFK pass, rearm or commit the expiry, send LeaseExpired to the gate (Kafka), LeaveScene to scene_manager (RPC), acknowledge; renew claims; recover timed-out claims |
| **Gate session index** (`PL/gate_session_index.go`) | per (slot, gate instance) the set of ONLINE players, per slot the registry of gates; ready marker and generation | moved inside the session scripts; prune, release, repair scripts; declare and void readiness |
| **Dead-gate sweep** (`PL/gate_sweep.go`) | per replica: suspects, scan cursors, failure count | round: registry snapshot, etcd view, sanity gate, suspects, page by page transition to DISCONNECTING |
| **Session reconciler** (`PL/session_reconciler.go`) | the ready marker, capable-writer registration | writer rounds, backfill and audit passes |
| **Slot shard** (`PL/slot_shard.go`) | segment leases in Redis | acquire, renew, give back segments |
| **Leader election** (`go/shared/leader`) | one Redis key with TTL; per replica: lock value, lastOK | campaign, heartbeat, fence, resign, Stop |
| **Live view gate** (`go/shared/liveview`) | holding, last missing count, two time stamps | Observe |
| **login**: EnterGame chain, session manager, player lock, session fence | generation counter per player, player lock | mint a generation, choose SetSession or Reconnect, EnterScene, report disconnects and logouts |
| **scene_manager**: placement identity, EnterScene, LeaveScene | `player:{pid}:location` | write or delete the location, decided by identity |
| **Player store** (`go/db/internal/playerstore`) | per player an owner row (epoch, holder, save sequence, released, claim sequence) and the data rows | Save, LoadAndClaim: one transaction each, decided by `decideSave` and `decideClaim` |
| **Player store client and player lifecycle** of a scene node (`SC/player_store_client.cpp`, `player_lifecycle.cpp`, `player_exit_intent.h`, `save_seq.h`) | the entity; per player one request in flight, one queued, the rows believed stored, the rows not known; sequence allocator | enter, load, play, periodic save, exit, reconnect; submit, retry, settle; claim |
| **Release of dead and unqualified holders** (`go/scene_manager/internal/logic/dead_holder_release.go`, `unqualified_holder_revoke.go`, `owner_epoch.go`, `go/data_service/internal/store/player_store_dead_holder.go`) | location and owner epoch of a player | route with a minted epoch; read the row, ask etcd, take the row if unchanged; fence the row below an epoch nobody claimed |
| **Asset channel** (`go/shared/assetop`: `reconcile.go`, `caller.go`, `decide.go`, `abandon.go`, `manual_evidence.go`; `go/guild/cmd/assetopfix`) | nothing of its own: works on the outbox | claim, deliver, verify, finalize, reschedule; abandon; manual repair |
| **Asset outbox** (`go/guild/internal/data/asset_store.go`) | per operation: status, lease, token, last_send | the conditional statements behind these steps |
| **Asset operations of a scene node** (`SC/asset_op_system.cpp`) | a ledger entry per operation, stored with the assets | Decide: apply, reject, abort or answer what was decided before |
| everything else (the rest of the C++ nodes, match, trade, mail, inbox, friend, rank, chat, the rest of guild, data_service and db, router, Java services, robot, tools) | own databases | not modelled, see section 8 |

### 1.2 How they interact

* The gate (C++) reports a lost connection to login, login calls
  SetDisconnecting; a client that leaves leads to MarkOffline. Both calls name
  session id and gate instance, both may arrive late or twice. login also calls
  SetDisconnecting for its own connection when the chain cannot go on after the
  commit, and the sweep for all connections of a gate that is missing in etcd; in both cases the
  connection may still be up, and the gate closes it when the lease expires.
* EnterGame of login reads the session, mints a generation, calls SetSession
  or Reconnect, then EnterScene of scene_manager. The player lock that keeps two chains of
  a player apart has a TTL and may lapse.
* MarkOffline and the lease monitor call LeaveScene; when it fails they hand
  the cleanup to the lease queue, which is the only memory of it.
* A login is refused while a cleanup of the previous session is pending. That
  couples the liveness of logins to the lease monitor.
* The sweep finds dead gates in etcd and turns their sessions DISCONNECTING,
  which feeds the lease monitor. It depends on the index, the index on every
  writer keeping it, and the ready marker says whether that holds.
* The reconciler runs under the leader election; its scripts must nevertheless
  be safe with two leaders, because an election only saves load there.
* scene_manager sends a player to a node with an owner epoch. The node claims
  the owner row with that epoch and gets the data rows in the same
  transaction; from then on every save of an older epoch or another node is
  refused. An exit gives the row back (`released`) with the last save.
* LeaveScene of scene_manager asks data_service to take the row from a holder whose
  registration in etcd has ended. A leave or an enter that finds an epoch nobody has claimed
  fences the row below that epoch, without asking etcd about the holder it still names.
* A worker of the asset channel sends an operation to the scene node that has
  the player, which applies it in memory and stores the outcome with its next save.
  The worker believes only the stored ledger. The abandon job and the repair
  tool conclude from a released row and a quiet outbox row that an operation
  never happened and never will.

### 1.3 What is hard, and what must hold

* *Interleaving*: handlers read, decide and write in separate steps; lease
  monitors of all replicas take over each other's claims. Records only move
  forward; index, record and lease keys agree; an ONLINE player has no lease that could fire.
* *Crash and partial failure*: a replica may die between deleting the record
  and telling the gate and scene_manager. No location may be left behind
  without somebody who will remove it.
* *Late messages*: session ids are reused by gate instances, LeaveScene of an
  old login may arrive after the next one. Neither may hit the new login.
* *Stale views*: etcd may answer with too few gates; suspects, cursors and
  slot ownership are snapshots. A live gate must not be swept, a dead one must be.
* *Time*: a leader cut off from Redis must step down before its key expires,
  and must not step down after one blip.
* *Moving ownership*: a save of the old holder may be in flight, retried or executed
  late when the player is loaded elsewhere, and the clients write only the rows they believe
  to differ. The stored rows must be those of one moment, never older than what the
  holder plays on.
* *Two sides of a transfer*: the service's books and the player's assets
  are in different databases. Whoever delivers, abandons or repairs an operation, and whatever
  crashes in between, both sides must end up agreeing.
* *Liveness*: leases run out, logins are unblocked, leaders re-emerge, dead
  gates are swept, the ready marker returns.

`PROJECT.json` lists these hazards one by one at the line where each bites,
with the properties that would catch it.

## 2. Modules

| Module | Models | Built on |
|---|---|---|
| `PlacementIdentity` | the pure decisions of scene_manager on identities (admit, keep, delete, release) | - |
| `PlayerSession` | session authority, lease monitor, the login and scene steps of the life cycle | `PlacementIdentity` |
| `SessionLifecycle` | what player_locator promises: absent, online, away, cleaning | - |
| `LeaderElection` | `shared/leader` with Redis and its client as environment | - |
| `LiveViewGate`, `LiveView` | the rule of `shared/liveview`; one gate under arbitrary views | - |
| `GateIndex` | the index of a slot, its scripts, capable and legacy writers, gates in etcd | - |
| `GateSweep` | the sweep round of several replicas | `GateIndex` |
| `IndexReady` | writer rounds, backfill and audit passes, ready marker | `GateIndex` |
| `PlayerStore` | player store of go/db, client and life cycle of the scene node, epochs and dead-holder release | - |
| `AssetOp` | one operation of the asset channel, from claim to its end, against scene nodes that load, save and crash | - |
| `AssetTransfer` | what the channel promises: each side settled once, both agree | - |
| `MCPlayerSession`, `MCLeaderElection`, `MCIndexReady`, `MCPlayerStore`, `MCAssetOp` | symmetry sets and connection sets for TLC | the module they name |
| `*_proofs` | theorems | the module they name, TLAPS |
| `PlayerSession_refinement` | theorems: records move forward, the lifecycle is implemented, the location follows the session | `PlayerSession_proofs` |

Operators named `Mutant: ...` in their comment are deliberately wrong versions
of the definition that follows them. They are used by no specification; each
property is shown to fail when one of them takes the place of the original.

### 2.1 PlayerSession

One Redis slot. `session`, `ready`, `processing`, `claimTokens`,
`claimPayloads`, `gateIndex` and `gateRegistry` are the keys of that slot;
`location` is scene_manager's key, `minted` login's counter, `reportable` (a history) the connections that somebody
may report as lost for a player. There are three reasons: the link closed (`CloseConn`); a login
of this player gave up on the connection after its commit (`GiveUp`: the session fence could not be
bound, or the reply of SetSession was lost and a second read found it committed); the gate
dropped out of etcd (`GateLost`), dead or not, and the sweep reports its sessions. Only in the first case is the
connection surely gone. A report carries session id and gate instance and no generation: a late one
may hit a newer login of the same player on the same connection, and the model allows that; a login
may also start after its link was lost, as a request that was already on its way does. A
script is one step, as Redis runs it.

A handler is a record in `rpc` with a program counter. SetSession,
Reconnect, SetDisconnecting and MarkOffline each have a *get* step (read the
record, all refusals and early returns) and a *cas* step (the script;
it does nothing if the record differs from what *get* read). A login chain
continues with EnterScene, MarkOffline with LeaveScene and, if that fails, with the
enqueue script. `Replay` is a repeated request after a lost reply. `Abort` is
a handler that dies; for MarkOffline after the delete only if `HandlerFaults`.

A lease monitor holds at most one claim in `claim` and walks
pin → probe → rearm, or commit → kick → leave → ack. The scripts (pin, rearm,
commit, ack, renew) compare the claim token; the kick and LeaveScene are calls to
other services and are safe for other reasons, which the properties check. `WorkerCrash` may
happen anywhere, `ClaimElapses` and `RecoverClaim` give the lease to another
worker while the first one is still running, `RenewClaim` is the heartbeat.
Deadlines are two-valued (ahead, reached), since the code only compares them with now.

The refinement mapping `phaseOf` reads the record and the claim keys as a
phase of `SessionLifecycle`; `ImplementsLifecycle` states that every step is a
step of the life cycle or invisible. In particular a first login never
overtakes a cleanup, only a session that was disconnected expires, and a
login replaces only an older generation.

### 2.2 LeaderElection

`role` is the position of `Run`, `call`, `reply` and `sent` the Redis call in
flight. A call is sent, executed and answered in separate steps; its answer may be
lost, the client may send it again, and an abandoned request may execute
later (`late`). Clocks are ages (`since` is the age of `lastOK`) or remaining
times (`keyLeft`), so time needs no bound. `MayWait` lets time pass only as
far as the deadlines in the code allow: a renewal returns within its
budget, a timer fires within `Jitter`, the heartbeat runs within `StartDelay`
of the SETNX.

### 2.3 LiveView

`Observe(rule, g, o)` follows the code branch by branch; `rule` is the
recovery rule chosen by the user of the gate. `steady` and `sinceRelease` are
history variables that the properties compare the verdicts with.

### 2.4 GateIndex, GateSweep, IndexReady

`GateIndex` has the scripts as operators. A *capable* locator moves the index
with the record; a *legacy* one, which may run during a rollout, does not.
`capable` in a record is a history bit.

`GateSweep` has one action per step of the round: registry snapshot
(`ReadRegistries`), etcd (`LiveGateInstances`), the sanity check (`ViewHeld` or
`AdvanceSuspects`; how long a drop is held is the subject of `LiveView`, here
it may be held or let through), then per dead gate SSCAN, MGET, one script
per member, the release of an empty key. An SSCAN cursor is the set of members it has
returned. Everything may fail in between (`RoundFails`, `MemberSkipped`,
`KeySkipped`, `Restart`), and the third failure in a row makes the replica
leave the shard.

`IndexReady` has the repair loop of each leader (generation, writers, scan,
check, write, prune, mark) and the writer rounds beside it. The generation
counter is only compared with the value that a pass has read, so it is kept as
`outdated`, the set of leaders for whose pass it has changed.

### 2.5 PlayerStore

One player. The character in memory is a version number; version `v` has two
rows, `bag`, which returns to an earlier value with every second change, and
`log`, which never does. A save that leaves out a row it believes to be stored is
harmless exactly if the belief is right, and this is what the two rows tell apart.

`owner` and `rows` change only in the transactions `Save`, `LoadAndClaim`,
`ReleaseDeadHolder` and `RevokeUnqualifiedHolder`. `node[n]` is all a scene process knows of the player:
entity, client (confirmed rows, uncertain rows, request in flight, queued snapshot),
claim and sequence allocator. The handlers of a node are operators from node
state to node state with the names of the C++ functions; a callback that
calls further (a committed save that finishes an exit that destroys
the entity that releases a waiting claim) is one step, as in the single-threaded
scene process. A request is executed and answered in separate steps;
when no answer comes (`SaveTimesOut`) the request is sent again, and the first copy may
still be executed (`late`) until the next request of that node is. That limit, `Outlived`,
stands for the deadline of the call, which go/db passes to the transaction.

Save sequence numbers are ordered by the clocks of the hosts. A process adopts the number of a row it
loads, unless that number is too far ahead of its clock (`Observe`, `ObserveRefuses`); then
the number becomes the personal floor of the entity. `lastSeq` is the larger of the two, and
`behind` says that the process's own numbers are still below the row's. While the entity lives
`IssueSaveSeq` numbers its saves above the floor; a snapshot still queued when the entity is gone gets the bare number
of the process, written 0 while that is below the row's. `CatchUp` is the process's numbers
passing the row's, by adoption or as time goes by. Such a save is answered `OLDER_SEQ`.
`OlderSeq` has the handler's two branches; `LiveSaveNeverOlder` says that the one for a live entity
is never reached. Its author expects it after "a clock ahead, or a seed missed on load" and the
first of these is in the model; the floor prevents it.

scene_manager mints epochs that grow by one or jump (the clock is their floor),
routes may overtake each other only by replacing the older undelivered one, and a release
round is three steps between which anything may happen. Of
`claim_seq` the model keeps the bit that the release compares. `RevokeUnqualifiedHolder` is the second way in which a
row loses its holder: an epoch of the location that nobody claimed is written into the row. When the code
does so (a grace period, a registration missing under that epoch) is left to choice.

### 2.6 AssetOp

One operation. `row` is its row in the outbox, `worker` the goroutines of the
reconcile loop and of the abandon job, `clerk` the repair tool with what it
has read and decided, `net` requests under way, `ent`, `save` and `st` the
ledger entry of the operation in memory, in a save under way and in the store. The
statements of the store (`ClaimRow`, `Reschedule`, `Finalize`, `Abandon`, `ReleaseLease`,
`ResolveManuallyIfQuiet`) are the conditional UPDATEs of `asset_store.go`.
A worker stops at any step; a request is executed by any node that has
the player, before its lifetime is over. A repeat that fails or brings no outcome leaves the
outcome answered before, which goes on to be verified; one that brings the opposite outcome is an
error (`Flips`). Entities leave, reconnect while they leave,
crash and are deposed, with saves fenced as in `PlayerStore`.

The refinement maps the ledger to the player's side of `AssetTransfer` and the
status to the service's side.

## 3. Runs

All constants not mentioned are model values. "Violation" runs are
disagreements between code and comments, see section 6.

| Run | Checks | Shows |
|---|---|---|
| `session_races` | `TypeOK`, `IndexExact`, `RegistryExact`, `OnlineHasNoLease`, `LeaseKeysAgree`, `OnlyReportedKicked`, `OnlyReportedDisconnects`, `RecordMovesForward`, `ImplementsLifecycle` | two handlers in flight and a lease monitor, with a lapsing player lock, lost replies, dying handlers, failed reads, logins that give up after the commit and gates that drop out of etcd |
| `lease_workers` | `DisconnectingHasLease`, `NoGhostLocation`, `LiveLocationKept`, `PlayerSettles` | two lease monitors that take over each other's claims, crash and lose replies at any step, while the player logs in, loses the connection and logs out: nothing is lost, and the player settles (ONLINE, or gone with no cleanup left) again and again |
| `failed_read` | violation of `NoGhostLocation` | finding 1 |
| `logout_race` | violation of `NoGhostLocation` | finding 2 |
| `leader_election` | `StaleTermEnds`, `LeaderHoldsKey`, `AtMostOneLeader`, `BlipTolerated`, `LeaderEmerges` | two replicas, renewals that fail for ever, a lost or repeated call, a late request, a crash, Stop, and elections as slow as the key's lifetime |
| `leader_stop_race` | violation of `StopEndsRun` | finding 3 |
| `live_view` | `ReleaseWhenSteady`, `DropNeedsRelease`, `EmptyHeld`, `HoldUntilClear`, `DropReleased` | every sequence of views at every pace, both recovery rules |
| `gate_sweep` | `SteadyGateNotSuspected`, `IndexCovers`, `SweepOnlyDead`, `DeadGateSwept` | a replica that cannot read etcd has the slot and must lose it to the other one; capable and legacy writers; gates die, lose and renew their registration; a fault anywhere in a round |
| `index_ready` | `ReadyMeansIndexed` | two overlapping leaders, a legacy locator, a fault |
| `index_repair` | `MissingIndexed`, `ReadyReturns` | backfill and audits against capable and legacy writers, and a legacy locator nobody noticed |
| `player_store` | `ConsistentRows`, `HolderUpToDate`, `PublishedDurable`, `LiveSaveNeverOlder`, `ReleaseSparesReclaimed`, `ExitKeepsProgress` | a player moves between two nodes while saves are retried, executed late or refused, claims time out, a node crashes or loses its registration, the row's number is beyond what the next holder's allocator accepts, and scene_manager takes the row from a holder it believes dead or fences it for an epoch nobody claimed |
| `asset_op` | `RefundedNeverApplied`, `BookedIsStored`, `OutcomeFixed`, `ImplementsTransfer` | two workers, the abandon job, the repair tool and two nodes, with expired leases, late requests, crashes, a reconnect during a release and a deposed holder |

### Bounds

* `PlayerSession`: one player. Handlers of different players share only the
  index and the registry, whose exactness is proved for any number of players.
  Two gate instances hand out the *same* session id, the case
  the stale report check is for. Two calls are enough for every conflict of two
  read-then-commit handlers; two generations for
  "the next login"; two tokens, so that a recovered claim gets a fresh one.
* `LeaderElection`: the smallest TTL with an interval of one tick (TTL 3).
  `StartDelay` is as long as the TTL, so that a term may begin without its key;
  failing renewals are not bounded, so that the fence is reached; one other fault and one late
  request; three values, one more than replicas, for the late one. The proofs leave all durations open.
* `LiveView`: five members with the code's threshold of four, so that
  both sides of the threshold and of "more than half" occur; `Hold` 3 ticks.
* `GateSweep`: two gates with `MinKnown` 2 instead of 4, so that one of two missing is
  no drop and two of two is. Two writes of a session: log in and move, or log in and disconnect.
  `MaxFailures` 2 instead of 3. The run has `Overlap` FALSE (one owner of the slot at a time);
  the theorems cover overlapping replicas.
* `IndexReady`: three writes in `index_repair` (a capable write, a legacy move, a
  capable write back), the shortest sequence in which a stale index entry becomes valid again.
* `PlayerStore`: two nodes; epochs up to 3, so that the player can leave a node and come back
  with an epoch two above the one the entity there has cached; three versions, so that
  a row returns to an earlier value, of which version 3 is too large for the store; five
  operations (routes, changes, saves, exits) and one disturbance. One disturbance is a lost answer, a
  crash, a lapsed registration, a removed location, a revoked holder or a refused entry; what follows from it
  (retries, late executions, the release round) is not counted. The row starts with number 1
  (`FirstSeq`) and `ClocksAhead` is TRUE, so that the first load may be refused its number and a save
  without its entity is answered `OLDER_SEQ`.
* `AssetOp`: the shortest times with all the strict orders of `AssetOpAssumption`: budget
  0, lease 1, life of a request 1, storing 1, gap 2. With time up to 6 a row that was claimed at 1
  and abandoned at 3 can be claimed and delivered again at 5, and is delivered as an abort at 6. Three
  events (claims, repairs, enters, exits, reconnects, lost answers, stops, crashes).
* `MaxFaults`, `MaxLate`, `MaxLegacy`, `MaxWrites`, `MaxGen`, `MaxOps`, `MaxEvents` are bounds in the
  guards of environment actions and of the start of an operation only; no step of an operation
  that has begun is disabled by them.
  With three lock values a campaign of `leader_election` waits while all
  are in use (an orphaned key, a late request and the other replica each with its own),
  until one of them runs out.

Symmetry is used only in runs without liveness, over players, gates,
calls, workers, tokens, leaders and scene nodes that no action tells apart.

Deadlock is checked where the system runs for ever (`leader_*`, `live_view`). In the
other runs logins and writes are bounded, and a system without players has
nothing left to do: they say `CHECK_DEADLOCK FALSE`.

## 4. Fairness

| Specification | Assumed | Because |
|---|---|---|
| `PlayerSession!LiveSpec` | WF of deadlines passing, of a running MarkOffline, of a monitor's round, of claiming a due lease; SF of each step of a worker *that still owns its claim* | the scan loop claims in every tick; crashes, lost replies and claim timeouts may interrupt a round at any step but not every round for ever: the claim timeout is longer than a round and is renewed |
| `LeaderElection!FairSpec` | WF of each running replica and of time | goroutines are scheduled, calls return by their deadline |
| `LiveView!FairSpec` | WF of time and of looking again at the present view | the round ticker |
| `GateSweep!LiveSpec` | WF of the rounds and of the shard cycle of each replica, and of the etcd lease of a dead gate running out | tickers; etcd leases expire |
| `IndexReady!LiveSpec` | WF of the repair loop and of the writer rounds | two goroutines with tickers |

## 5. Proofs

All theorems hold for every value of the constants that satisfies the named
assumptions in the modules; bounds such as `MaxGen` and `MaxFaults` are arbitrary naturals.

**PlayerSession_proofs.** `Inductive` proves `Spec => []IInv` with
`IInv` = `TypeOK`, `CallInv`, `GateKnown`, `IndexExact`, `RegistryExact`,
`OnlineHasNoLease`, `LeaseKeysAgree`, `DisconnectingHasLease`,
`OnlyReportedDisconnects`, `ClaimInv`, `PayloadsReported`. From it follow
`TypeCorrect`, `IndexCorrect`, `RegistryCorrect`, `OnlineSafe`, `LeaseNeverLost`,
`LeaseKeysSafe`, `DisconnectSafe` and `NoWrongKick`. None of the safety properties is inductive alone:

* `IndexExact` needs to know which records are ever written (`CallInv`: what a
  handler carries from read to commit) and that the scripts which do not touch the
  index only meet records that are not ONLINE (`ClaimInv`).
* `DisconnectingHasLease` needs `ClaimInv`: a worker whose token still counts
  and which is about to acknowledge has seen the record deleted or replaced.
* `OnlyReportedKicked` needs `PayloadsReported`: every payload that names a gate
  names a reported connection, also the ones pinned by a worker that died.

The proofs go action by action. `CallWrites`, `SessionWriters` and
`LeaseWriters` first reduce all actions to the few ways a record or a lease can change,
so that each invariant is proved against those. Assumptions:
`ConnsAssumption`, `MaxGenAssumption`, `FaultsAssumption`, `NullAssumption`,
`UnboundSessionAssumption` (the unbound session id is a positive number).

**PlayerSession_refinement.** `RecordsForward` and the refinement
`LifecycleImplemented` need one more invariant, `ForwardInv` (theorem `Forward`):
an update in flight is newer than the record it was checked against, and the
generation of a stored record is positive, so the rule of the script that a
generation of 0 always advances never applies to a stored record. `CallCommits` and
`CommitsRecord` reduce the handlers to their commits; `OthersStay`, `PhaseMoves` and
`LeaseMoves` reduce a step to the phase of the one player it is about.

The second half of the module is about the location in scene_manager. `NoGhost` proves
`NoGhostLocation` for any number of players, handlers and workers, with crashes, takeovers
and lost replies. Its premises are the three situations in which the code does not have the
property: `~ReadFaults` (finding 1), `~HandlerFaults` (a MarkOffline that dies between delete and
enqueue) and `[]Undisturbed`, which says that no login is committed between the deletion
of a logout and its end; finding 2 needs such a login. The inductive invariant is `GhostInv`:

* `LoginsInv`: a generation in use names one connection, is positive and was minted. It
  excludes the "keep, conflict" answer of scene_manager, after which a worker would
  acknowledge its claim with the location still there.
* `PinnedRecord`, `PinnedClaim`, `PayloadsEnded`: the pinned payload is that of the record
  (while there is one) and of the owner of the claim, and it is of an ended session. So a
  commit of an expiry never drops the only snapshot that covers the location.
* `TokensDiffer` and `EndingAlone`: one owner per claim, and a logout that has deleted its
  record has no lease, claim or second logout next to it. `Undisturbed` enters here.
* `Concludes`: an owner rearms only with a record and acknowledges only when the location is
  gone. `~ReadFaults` enters here.

`LiveKept` proves `LiveLocationKept` with every fault allowed and whether or not the
player lock expires, if the handlers of a player do not overlap (`[]OneAtATime`). `LiveInv`
adds `PastInv` to the invariants above: every session that has ended (is DISCONNECTING, pinned or in
a worker's hand) is older than the one that is ONLINE and than every login under way. It
needs the premise, see section 7. `NoGhostAlone` derives `NoGhostLocation` from the same premise, since
handlers that do not overlap leave a logout undisturbed. The lemmas on who changes what
say how a claim, payload, record, location or call may change in one step; each part of the invariant is then
preserved for reasons of its own. `GhostInv` and `LiveInv` were
checked with TLC for two handlers and two workers before they were proved.

**LeaderElection_proofs.** Two independent invariants.
`TimingInv` bounds the age of `lastOK` from the deadlines alone; from it follow
`StaleTermSafe` (needs `Guaranteed`: the call budget is below the interval and
two intervals plus one call fit in the TTL) and `BlipSafe` (needs also
`Jitter + MaxCall < Interval`). `KeyInv` needs no bound on any delay; its core is
that the remaining time of the key plus the age of `lastOK` is at least
`TTL` as long as the key has the term's value, that lock values in use differ, and
that no abandoned release carries the value of a term in progress. From it follow
`LeaderSafe` and `SingleLeader` for every timing: a leader *with a success younger
than TTL* has the key and is the only one. `FencedInTime` puts both
together: under `TimingPremise` (`Guaranteed`,
`2 * Interval + Jitter + MaxCall < TTL`, `StartDelay + MaxCall < TTL`) `IsLeader` alone
implies having the key. The last premise is not enforced by the code: SETNX has no
deadline of its own, and a slower election starts a term without a key, which
`StaleTermSafe` bounds.

**LiveView_proofs.** `ReleaseSafe`, `DropSafe`, `EmptySafe` and `HoldSafe` for every hold
time, threshold, number of members and both recovery rules. `IInv` adds
`ClocksAgree`: the gate's own clock never runs ahead of how long the missing
count has really been steady. `ObserveCases` lists what one observation can do.

**GateSweep_proofs.** `IndexKept`, `SteadyGateKept` and `SweepsOnlyDead` for any
number of players, gates and replicas, with legacy writers and with replicas that sweep the same
slot at once. `IInv` = `TypeOK`, `StoreInv` (index and registry cover the capable
records; both name only gates that have started), `OnlyStarted` (a started gate that is
not in etcd has left it), `ViewTrue` (what a snapshot has and the later view has not, has left
etcd: here the order of the two reads enters), `SteadyGateNotSuspected` and `SweepsDead`
(the key being swept is that of a gate missing twice). The scripts are treated once each
(`CapableWriteSafe`, `TransitionSafe`, ...), then the actions.

**AssetOp_proofs.** `RefundSafe`, `BookedStored`, `OutcomesFixed` and the refinement
`TransferImplemented`, for any number of workers and nodes and all times that
satisfy `AssetOpAssumption`. `IInv` = `TypeOK`, `SceneInv`, `RowInv`, `BookedIsStored`.

* `SceneInv`: epochs never exceed the stored one, at most one entity and save are at the
  stored epoch, what is stored is known to them, requests are within their life and an outcome
  that is not stored is young if the row is released.
* `RowInv` carries the argument of the channel: `SendsRecorded` (whatever can still change the
  store was sent no later than `Budget` after the last claim the row tells of, by its
  lease or by `last_send`), `ClaimsTimed` (a lease tells when its holder claimed, and only the
  holder of the token is within its budget), `ProofsHold` (what was found in the stored
  ledger stays there), `ClerkKnows` (what the repair tool may conclude from the row it
  read, as long as its conditional UPDATE would still match), `RefundsSafe` (whoever is about to
  refund, and whoever has, does so when nothing under way can store "applied" and no worker
  may send).

A step of the service's side leaves the scene alone, one of the scene's side the row:
`RowSideStep` and `SceneSideStep` use this to treat the parts of `RowInv` separately. The lemmas `OldStep`
and `QuietStep` show that time and the scene only make sends older and a quiet scene stays
quiet.

**IndexReady_proofs.** `ReadySafe` (`ReadyMeansIndexed`) for any number of players, gates
and leaders that overlap, abort passes and skip candidates, under the premise
`~ShortLived` (a legacy locator lives until a leader has noticed it; without it the
property is false, which is what audits are for). `IInv` = `TypeOK`, `Registered`
(non-empty keys are registered), `HandOf` (what a pass has in hand at each step), `Noticed`
(after a bump the marker is gone, and a pass with a current generation has yet to check the
writers or has seen the locator: the order "generation, then writers, then scan"
enters here), `Visited` (a backfill whose generation is current has indexed all it has
visited, and the session in hand is indexed or still the one read) and
`ReadyIndexed`. `Keeps` is what every script guarantees: no script takes an
entry that a session needs or writes a session without one.

**PlayerStore_proofs.** Everything for any number of scene nodes.
`ReleaseSafe` (`ReleaseSparesReclaimed`) rests on `ReleaseInv`: a
node that is not registered has lapsed since its claim, and a holder that the
round found missing is still such a node unless it claimed again, which
the round sees in the row. A revocation fences an epoch above the row's and not above the location's, the
second case of the property. Of the clients it needs nothing but their types.

`RowsConsistent`, `HolderCurrent`, `PublishedSafe`, `NeverOlder` and `ExitSafe` follow from
`StoreSafe`, the invariance of `StoreInv` = `StoreTypes`, `ConsistentRows`, `NodesInv` and
`LateInv`. A save writes only the rows its client takes for changed, so
`ConsistentRows` depends on what clients believe:

* `Good(s, o, d)` says what a node in state `s` knows of the store with owner row `o` and data
  rows `d`. `Ordered`: request, queued snapshot and entity are in the order of their versions.
  `Settles`: a claim waits for the client. `Durable`: what a node was told is stored has not been
  taken back. `ClientHolds` and `MemoryHolds` are about the holder of the row only: what it takes
  for stored and is not `uncertain` of is stored, its allocator or floor is not behind the row, and its
  request is `Sound`: either not executed, and then executing it makes the rows exactly those of its
  version and not older ones, or executed already, or numbered 0 and never executed. `Ordered` also says
  that a request numbered 0 has no entity; with `Rests` (only such a request was answered `OLDER_SEQ`)
  this gives `NeverOlder`.
* `LateInv`: a request its sender gave up and that could still commit, of the node that holds the
  row, is `Sound`, is the only one, and is the request that node sends again, or the last one of a process
  that is gone. After a claim the late requests of other nodes are refused, as they do not hold the
  row, and those of the claimer have been executed or lost (the premise `Outlived`, section 7).

The operators of the client are treated first, as functions that map `Good` states to `Good`
states; then the steps of the store (execute, claim, release) change `o` and `d`
under all nodes at once. `Kept` records what an answer does to an exiting entity, for
`ExitSafe`. `StoreInv` was checked with TLC on the instance of `player_store` with epochs up to 4 (3,781,340 distinct
states) before it was proved.

**Only model-checked**: the liveness properties (out of the prover's reach). Every
invariant and action property of the passing runs has a theorem; those about the location of the
player hold under the premises named above, which the runs `failed_read` and `logout_race`
show to be needed.

## 6. Where code and comments disagree

1. **A failed read drops a queued cleanup** (`failed_read`,
   `PL/leasemonitor.go:340`). The comment explains that a claim without a
   session key must not be rearmed since the script would drop it, and goes on to treat a
   failed read as "the key exists". A failed read of a logged-out player
   therefore ends in exactly that rearm, and the scene location stays.
2. **An older logout overwrites the queued cleanup of a newer one**
   (`logout_race`, `PL/session_cas.go:262`). `enqueueOfflineCleanupScript`
   writes the payload unconditionally. A slow MarkOffline of login 1 replaces
   the snapshot of login 2; LeaveScene for generation 1 keeps the location of
   generation 2, and the claim is acknowledged.
3. **Stop between check and cancel** (`leader_stop_race`,
   `go/shared/leader/leader.go:165`). A Stop that arrives while the campaign's SETNX is in
   flight cancels nothing; the campaign wins and the term goes on.

Two more have no run of their own:

* A replica that loses its slots for some rounds skips `advanceSuspects` and keeps its
  counts (`PL/gate_sweep.go:163`; `RoundSkipped` leaves `suspects` alone), while
  `PL/session_reconciler.go:41` promises "two consecutive rounds". A gate may be judged dead
  by one missing round before the loss and one after it, although it was
  registered in between.
* `go/shared/assetop/abandon.go` (line 41) takes a released owner row as proof that no
  entity has the player. A player who reconnects while his entity is being released plays on that
  entity until the save that takes the row back is committed. The gap of the abandon
  job covers this as long as that save is not slower than the gap allows: premise
  `StoredInTime` below.

## 7. Abstractions and premises

* One Redis slot; keys of different slots are never touched by one script.
* The login chain reads the record and mints its generation in one step.
* `late` marks a location written when no session of that generation existed
  any more (an EnterScene delayed past a logout). The code's session fence
  narrows this window without closing it; the properties about ghosts exclude such locations.
* `NoGhostLocation` and `PlayerSettles` are claimed without `HandlerFaults`: the code
  accepts that a MarkOffline that dies between delete and enqueue loses the cleanup.
* `LiveLocationKept` is claimed for handlers of a player that do not overlap (`OneAtATime` in
  `PlayerSession_refinement`; `lease_workers` has one call in flight). A SetSession that
  is sent again after its record was written and deleted finds no session, is accepted and
  brings the same generation back to life, and a LeaveScene still pending for it, of the
  logout or of a slow worker, then removes the location of a session that is ONLINE. The
  lock of login does not exclude this, as lease monitor and MarkOffline do not take it.
* The ready marker is only meaningful if a legacy locator lives until a leader
  has seen it (`ShortLived` FALSE in `index_ready`), the residual risk named in
  `docs/design/player-locator-gate-session-index.md`. `index_repair` shows
  what still holds without it.
* `PlayerStore`: a request its sender gave up executes, if at all, before the next
  different request of that node (`Outlived`). A number of the process that is below the row's
  never equals one the row had (it is clock milliseconds of another time). Saturation of the 64-bit
  numbers is left out.
* `AssetOp`: `AssetOpAssumption` says that a worker's budget is below its lease (enforced at
  `go/shared/assetop/reconcile.go:379`) and that budget, life of a request and time to store
  fit in the safety gap (seconds against ten minutes at least, `abandon.go:85`). `StoredInTime` says that an outcome recorded by
  an entity whose row is released, or is about to be, is stored or lost within `SaveLag`.
* Malformed payloads, wrong key types (except where the sweep skips them),
  metrics, logging and configuration are left out.
* Redis executes scripts atomically and does not lose acknowledged writes.

## 8. Not modelled

* The segment leases of the slot shard, the session fence, the acquisition
  and renewal of the player lock: planned, next section.
* Requests of older login versions without a generation.
* Of LeaveScene: the answers for a scene id or an owner revision that is not the location's
  (`leavescenelogic.go:219-241`); a location is judged by its identity only.
* Of the revocation of an unqualified holder: the grace period, the check of the registration under the
  epoch, and the INCR of the owner epoch in Redis; the action is enabled whenever the location's epoch is above
  the row's.
* Of the player store: releases of a player without entity, claims that are executed
  late, the deferral of rows that ride along with others, commit marks per log, schema generations, cross-zone
  travel and the exit and handoff marks in Redis, the rollback of a failed route.
* Of the asset channel: partial grants and receipts, the window of sequence numbers and the
  eviction of old ledger entries, poison rows, offline parking and back-off times (a delivery may be
  tried at any time), and liveness: an operation for a player who never comes back may
  rightly stay open until an operator resolves it.
* The rest of the C++ nodes: simulation and network code. The gate appears as the environment that
  opens, closes and reports connections.
* match, team, trade, mail, player_inbox, friend, rank, chat, the rest of guild,
  data_service and db, the Java services: request handlers whose
  consistency is delegated to one database transaction; no shared state with what is modelled.
* Generated code, vendored code, tables, tools, the test robot.

## 9. Plan

Done: the modules of section 2 in that order, since each later one depends on the
guarantees of the earlier ones (the sweep on the index, the index on the session
scripts, the reconciler on the election, the asset channel on the fenced player store).

Next, the model:

1. `SlotShard`: segment leases, heartbeat, fair share, leave on Stop. Safety: a
   replica publishes only slots it believes to hold and its segments never
   exceed its share for long; liveness: every slot is owned in the end. The
   race of Stop with a running cycle.
2. The session fence of login and the removal of `late` locations, so that
   `NoGhostLocation` can be stated without the exception.
3. The player lock of login on the heartbeat of `shared/leader`, replacing `LockExpires`.
4. Scene placement for requests without a generation, and dead-node
   reconciliation in scene_manager on top of `LiveViewGate`.

Next, the proofs:

1. Weaken `OneAtATime` in `LiveKept` to the one situation it excludes: a login that commits a
   generation whose record was deleted before. The fence of item 2 above would discharge it.
2. The same for `Undisturbed` once logouts compare the payload they overwrite.
3. Proofs for `SlotShard` as it is modelled.
