# SenseGrid in TLA+

SenseGrid collects sensor readings from a fleet of devices over MQTT, stores
them in TimescaleDB, raises alerts on them, and pushes configuration back to the
devices in staged rollouts. This directory models the parts of it whose
correctness depends on interleavings, crashes and partial failures, checks the
models with TLC on small instances, and proves the main safety properties with
TLAPS for every value of the constants.

`PROJECT.json` lists, machine-readably, the components, the runs, the source
lines of every definition, the hazards and the theorems. Paths below are those
of the repository (`src/` in `PROJECT.json`).

## 1. The system

Four Go services share an MQTT broker (mosquitto), NATS JetStream, PostgreSQL /
TimescaleDB and Redis:

    devices --MQTT--> ingest --JetStream TELEMETRY--> processor --> TimescaleDB
       ^                                                  |
       |                                              ALERTS stream
       |                                                  v
       +--retained desired config-- control <--- operators (HTTP, WebSocket)

| component | state it keeps | operations | talks to |
|---|---|---|---|
| ingest bridge (`cmd/ingest`) | an MQTT session; one goroutine per packet; token buckets | connect/subscribe, `handle`, `publishDLQ` | MQTT broker (QoS 1, manual ack, clean session), TELEMETRY and DLQ streams |
| persistence consumer (`cmd/processor/consumer.go`) | `rows`, `items` under a mutex | `onMessage`, `flush` (from the callback and from a ticker), `insertBatch` | durable JetStream consumer, `readings` table |
| windowed consumer (`cmd/processor/windowed.go`) | window registry, evaluator counters | `processSample`, `sweepSilence`, `applyEvaluation`, `fire`, `resolve` | `alerts` table, ALERTS stream |
| evaluator, detectors (`internal/anomaly`), windows (`internal/window`) | counters per key; ring buffers | `Update`, `Evaluate*`, `Add`, `Sweep` | called by the windowed consumer |
| alert store (`internal/alerts`) | `alerts` table with a partial unique index over open rows | `Open`, `getOpen`, `Resolve`, `ResolveByID`, `Acknowledge`, `Publish` | processor and control |
| rollout engine (`internal/rollout`) | active set in memory under a mutex; `rollouts`, `rollout_targets` tables | `Create`, `tickOne`, `applyStage`, `advanceLocked`, `completeLocked`, `rollbackLocked`, `Pause`, `Resume`, `Abort`, `ResumeAll` | shadow store and publisher, health queries |
| device shadow (`internal/shadow`) | JetStream KV entry per device, audit rows, retained MQTT message | `SetDesired`, `GetDesired`, `PublishDesired`, `PutReported`, reconciler, drift | engine, PUT handler, devices |
| claim flow (`cmd/control/claim.go`, `internal/devicestore`, `internal/devices`, `internal/dynsec`, `internal/provisioning`) | token keys in Redis, `devices` table, broker accounts, pending request map, state file of the agent | `CreateToken`, `ConsumeToken`, `Create`, `do`/`handleResponse`/`CreateClient`, `LoadOrClaim` | Redis, PostgreSQL, mosquitto's dynamic-security plugin |
| shadow reconciler (`internal/shadow`, run by `cmd/control`) | the stored report per device | `onMessage`, `PutReported`, `Drift` | devices (QoS 0 reports), the drift handler |
| host agent (`cmd/hostagent`) | the config it runs, a one-slot channel to its sampling loop | OnConnect, config handler, sampling loop | MQTT broker, claim handler |
| fleet simulator (`cmd/fleet`) | slots with their devices, token pool, state files; per device one connected flag | `Scale`, `startSlot`, `Partition`; `run`, `connect`, `sampleLoop` | MQTT broker, claim handler, HTTP control API |
| migrations (`internal/migrations`) | `schema_migrations`, the schema itself | `Run`, `runInTx`, `runWithoutTx` | PostgreSQL; started by control and processor |
| firmware, web console | a sampling loop, UI | - | as a device or as an operator |
| rules watcher, WebSocket relay, auth, configuration | file mtime; per-client buffer; none | reload; relay; check | - |

### What is hard about it

- **Two acks per reading.** The bridge must not ack MQTT before JetStream has the
  message, and the consumer must not ack JetStream before TimescaleDB has the
  rows, while publishes time out with unknown outcome, acks get lost, AckWait
  expires in the middle of a flush and two goroutines flush at once.
- **Memory and table.** The rollout engine and the evaluator each keep in memory
  what a table also says. Every restart, and every failed write that is only
  logged, is a chance for the two to disagree.
- **Write, then publish.** Shadow writes and alert updates are followed by a
  publish in a separate step, without a lock shared by the writers.
- **Request/response over MQTT.** `dynsec.Client.do` matches responses to a
  pending map, with timeouts, lost sessions and a handler that sends on a
  channel while holding the mutex.
- **Irrevocable first steps.** A claim consumes its token before anything else;
  a rollout pushes a config before it records the snapshot to go back to.
- **Callbacks of a connection that is gone.** Every dial of a simulated device
  makes a fresh MQTT client; the callbacks of all of them run on goroutines of
  their own and store one flag, the only thing the sampling loop looks at.
- **Partial updates and lossy reports.** A device applies each desired entry over
  what it runs and reports without an acknowledgement; control believes the last
  report that arrives.
- **Start-up races.** Two services migrate one database, and a start-up `Scale`
  runs beside the HTTP server that accepts another one.

### What makes each part correct

- ingest and persistence: no ack before durability; no row lost or duplicated;
  everything stored is settled in the end.
- rollouts: ended means ended; a stage reaches exactly its devices; an abort
  restores what was there before, and what it reverts comes back only by another
  rollout's snapshot; memory is what a restart would load; a running rollout ends.
- alerts: at most one open alert per key; M verdicts in a row to open or clear;
  rows follow the documented state machine; events never lead the table; a
  lasting violation ends with an open alert, a lasting clear with none.
- provisioning: a token pays for one device; no account without a row; cached
  credentials authenticate; every claim is answered; the response handler cannot
  deadlock.
- shadow: a device that is not listed as drifted runs what is desired; what is
  retained reaches the device in the end, and its sampling rate takes effect.
- fleet: after scaling, exactly the wanted devices run, each with an identity of
  its own; a device that takes itself for connected is; one that is not comes back.
- migrations: a recorded version is in effect; nobody works on a schema that lacks
  an earlier file; every start-up gets through.

## 2. Modules

| module | models | proofs | runs |
|---|---|---|---|
| `Telemetry` | ingest bridge, TELEMETRY stream, persistence consumer, `readings` | `TelemetryProofs` | `telemetry_*` |
| `AtLeastOnce` | abstract: accept, persist, settle | refinement theorem in `TelemetryProofs` | `telemetry_safety` |
| `Rollout` | rollout engine, its tables, desired shadow, PUT handler, restarts | `RolloutProofs`, `RolloutSafetyProofs` | `rollout_*` |
| `Alerts` | evaluator, windowed consumer, alert store, operator handlers, events | `AlertsProofs` | `alerts_*` |
| `Provisioning` | tokens, claim handler, dynsec client and plugin, agent | `ProvisioningProofs` | `provisioning_*` |
| `ShadowSync` | PUT handler, publisher, config handling of the host agent and of a fleet device, reconciler, drift | `ShadowSyncProofs` | `shadow_sync` |
| `Migrations` | the migration runner, twice, against PostgreSQL | `MigrationsProofs` | `migrations` |
| `VirtualDevice` | a simulated device's connection: dials, callbacks, sampling loop | `FleetProofs` | `fleet` |
| `Fleet` | the fleet manager, composed with the devices it runs | `FleetProofs` | `fleet` |

`MC<module>` instantiates a module for TLC. Definitions whose comment says
"Mutant of X" are plausible bugs of X, used to show that a property can fail;
they are part of no specification.

### Telemetry

A *packet* is one MQTT delivery, a *reading* what it carries; two packets may
carry one reading, when a device resends. `content` is fixed in the initial state,
chosen from the constant `Traffic`, and says which packet carries what:
a good reading, one of an unregistered device (the foreign key on `devices`
rejects it), one whose stored message does not decode, one that flattens to no
rows, or a malformed payload.

`broker[p]` is what mosquitto knows of p. The session is clean, so a connection
loss turns queued and in-flight packets to "lost". `handler[p]` is the program
counter of the goroutine running `handle`: the first step runs to the network
call (validation, rate limiter, time stamp), then publish or dead-letter publish,
then the MQTT ack. A failed `js.Publish` may have stored the message. `delivery[p]`
is p's message as the durable consumer sees it; `AckWaitExpires` makes it pending
again even while a flush holds it. `flush` is split at its network calls: `Swap`
(the critical section), `InsertOK` / `InsertError` (one transaction, which may
commit and lose its reply), then one `AckItem` / `NakItem` per message. Worker
"consume" is the JetStream callback, which flushes when the batch is full;
"ticker" is the timer. Rows are keyed by (reading, sensor, ingest time), the
unique index of `0002_readings.sql`, so an insert is a set union.

Abstracted: payload bytes, topic syntax and reasons of rejection (one constant,
`Malformed`); the rate limiter (a choice); time (a bounded clock used for stamps
only; AckWait and the flush interval may expire at any moment). The constant `Faults`
says which of link, bridge and processor may fail in a run.

### Rollout

The engine's mutex serialises its operations, so one program counter (`pc`, with
`cur`, `todo`, `dev`, `pre`, `rev`) is enough for all of them; but every store or
broker call is a step, and PUT handlers and crashes come between any two. `kv` is
the desired entry per device with its revision and its writer, `retained` the
revision in the retained MQTT message, `rows` and `targets` the two tables, `mem`
the active set. Devices in a stage are those whose bucket is below the stage's
percentage (`StageTargets`); the health verdict is computed by `EvaluateHealth`
from counts that are inputs. `ended` records published terminal events.

What can go wrong is one record, `env`, picked from the constant `Scenario` in
the initial state and never changed: which rollouts are created, which kinds of
calls may fail ("kv", "audit", "target", "list", "state", "resume", "publish",
"mqtt"), how many crashes, how many PUTs. Properties that need a reliable
environment say so by a condition on `env` (`Reliable`, `StateWritesSucceed`),
so one run covers all environments.

`SetDesired` has three outcomes: done; KV put failed; KV put done and audit insert
failed, which the caller takes for a failure.

### Alerts

Per key (device, sensor, rule): `bad[k]`, the detector's present verdict, changed
by the environment; `ev[k]`, the counters of `Evaluator.Update`; and for silence
rules, membership in the window registry. Two goroutines evaluate: the JetStream
callback for sample rules, the sweep for silence rules. An edge of the evaluator
starts `fire` or `resolve`, whose store calls and publish are separate steps.
`row` is the table with its partial unique index (an insert for a key with an open
row conflicts and is followed by `getOpen`), `heard` the last published state per
alert, `requests` the operator handlers between update and publish. A crash
empties registry and counters and keeps the table. `recent` is a history variable,
the last M verdicts, used by `NoFlapping` only.

Abstracted: what a detector computes; counters saturate at M, which is all the
comparison `>= M` can see.

### Provisioning

One step per call of the claim handler (`ConsumeToken`, `CreateDevice`,
`SendCommand`, the select of `do`, `Return`), with `pending`, the one-slot
channels, the mutex held by `handleResponse`, commands the plugin may execute late,
and responses delivered any number of times. The agent loads its cached
credentials, or claims (possibly again, with a fresh device id and the same
token), and saves. The name of a claim stands for its password and its
correlation id, all generated fresh by the code.

A response may stay in `responses` after it was handled, until the session ends,
so it can be handled repeatedly and arbitrarily late.

### ShadowSync

The shadow of one device, end to end. `desired` is the list of entries (its length
the revision), `publishing` the PUTs between store and publish, `retained` the
revision on the config topic. A *patch* is a function from the fields a PUT sets;
`Accepts` and `Resolve` are `applyPartial`: validation over the merge of the entry
and what runs, with the sample rate converted to whole milliseconds
(`IntervalMS`). The device is the host agent or a device of the fleet
simulator (`env.kind`): the same handler code, but the agent keeps one client that
reconnects and nudges its sampling loop through the one-slot `intervalChanged`,
while a fleet device dials a new client and resets its ticker at every tick.

paho runs message handlers in order on one goroutine and OnConnect on another, so
`ConfigHandler` is one step per message, and OnConnect is split at what it shares
with it: subscribe (which gets the retained entry), load the config, report it, and
in a fleet device set `connected`. An OnConnect past its subscription goes on to its
end when the connection is lost. A connect-time report can thus be overtaken by a newer one, or the other way round.
Reports are QoS 0 and may be lost. `OnMessage` stores what arrives; `Drift` is
the comparison of `drift.go`. Whether a stored report is older than `staleAfter`
is a flag that may be raised at any time, on arrival too (the timestamp is the
device's).

A fleet device dials only while `connected` is down (`Connect`, `FleetRedial`); its
ConnectionLost callback lowers it some time after the loss (`lostcbs`), and an
OnConnect of a client that is gone may raise it later still (`storing`). The handler
the old client was in runs on beside the new client's: `late` holds its entry and
the config it loaded, `LateLoad` lets it load later, `LateHandler` stores, and
`ConfigHandler` may overwrite what it stored between the other's load and store;
nothing is locked. The agent's handler is one step, since its only client
reconnects after its handlers have returned. A lost callback of an earlier client
may make a device dial over a connection that is up, whose own callback may do so
again: `failures` bounds these redials too.

History variables: `run` (restarts of the device), `overtaken` (a revision was
published after a later one), `dropped` (a nudge found the channel full),
`overlapped` (config handlers of two connections ran at once). One
device is enough: no state is shared between devices.

### Migrations

Each process runs `Run`: read the recorded versions once, then file by file apply
and record. `Statements` says of each file whether its statements can be repeated
("set") or fail the second time ("create"); files in `NoTx` start with
`-- no-transaction` and take effect statement by statement, the others at their
commit. PostgreSQL is external: creating what another open transaction has created
waits for that transaction, and creating what exists is a duplicate error, at
which `Run` moves on to the next file without recording this one. `Crash` is any
other error and the death of a process; the service is started again.

### VirtualDevice and Fleet

`VirtualDevice` is one run of a simulated device per number. `phase[d]` is where
`run` is; "dial" is inside `connect`, and `why[d]` says what it dials for (start,
healed partition, simulated flaky disconnect, lost connection). `conn[d][c]` is the
state of its c-th MQTT client: a dial that timed out goes on in the background, and
the broker closes the older connection when it accepts a newer one of the same
client id. OnConnect is split at the subscribe call; the ConnectionLost callback runs
at any time after the loss. Client numbers are reused when a client is
down and has no callback to run. `late[d]` records that OnConnect set the flag when
the device's own connection was not up.

`Fleet` adds `Manager.Scale`: the decision under the lock is one step, then the
loop over the slots to stop, then one worker per slot to start, with `startSlot`
split at the state file, the token pool, the claim and the installation of the
device. An identity is named by the token that paid for it. `Partition` picks under
the lock and sends to the one-slot channels afterwards. `Restart` keeps the state
files and what control knows of tokens, and starts the pool at its first token.
`env` again holds what may happen, among it whether calls of `Scale` overlap
(`waits`), whether a broker answers (`broker`) and whether it does so within
`reconnectBackoff` (`prompt`).

Abstracted: signals, batching, metrics, the runtime config; `LoadOrClaim` is the
outcome of a claim (its own steps are in `Provisioning`).

## 3. What the runs check

| run | result | states | shows |
|---|---|---|---|
| `telemetry_safety` | pass | 1.2 M | `AckedIsDurable`, `SettledIsPersisted`, `RedeliveryIsNoOp`, refinement of `AtLeastOnce` |
| `telemetry_live` | pass | 85 k | `StoredIsSettled`: a pending message with rows is acked (or terminated) in the end, unless its batches keep holding a rejected row |
| `rollout_safety` | pass | 1.4 M | `TerminalIsFinal`, `StageNeverRegresses`, `EndedNeverRevived`, `BlastRadius`, `MemoryMatchesRow`, `SnapshotPredatesRollout`, `AbortReverts`, `ReliableCompletion`, `SoleWriterRetained` |
| `rollout_live` | pass | 6 k | `RunningEnds` across two restarts |
| `rollout_crash_complete` | violation | - | a crash makes a rollout skip a stage and complete |
| `alerts_safety` | pass | 1.0 M | `OneOpenPerKey`, `NoFlapping`, `ClearedIsResolved`, `EventsTrailRows`, `RowsFollowMachine` |
| `alerts_live` | pass | 89 k | `ViolationOpensAlert`, `ConditionClears` |
| `provisioning_safety` | pass | 1.9 M | `OneDevicePerToken`, `CredentialedHasRow`, `HandlerNeverBlocks`, `CachedCredentialsWork` |
| `provisioning_live` | pass | 81 k | `ClaimAnswered` |
| `shadow_sync` | pass | 520 k | `InSyncIsSound`, `DesiredIsHandled`, `RateTakesEffect` |
| `migrations` | pass | 118 k | `RecordedIsComplete`, `MovedOnIsApplied`, `RunsReturn`; no deadlock |
| `fleet` | pass | 210 k | `FlagIsHonest`, `FleetMatchesTarget`, `ComesBack` |

`telemetry_safety`, `shadow_sync`, `migrations` and `fleet` also check `TypeOK`; it is
proved of every module (section 4).

`migrations` is checked for deadlock: it can only rest when both services have
started. The other runs use `CHECK_DEADLOCK FALSE`: fault, packet and claim
budgets run out and the modelled services then rest, which is no deadlock of the
program. Where waiting for ever would be an error, a liveness property says so.

### Where code and comments disagree

The violation run states what a comment of the code says and finds it violated by
what the code does; `findings` in `PROJECT.json` quotes both sides.

`CompletedReachesAll`: `advanceLocked` persists the stage and then pushes it.
After a crash in between, `ResumeAll` loads the new stage, the next ticks find
it baked and healthy, and the rollout completes although its devices were
never written.

Conditions in the passing properties mark where the code promises less than one
may think. Dropping them, TLC finds:

- **Telemetry**: a reading whose JetStream publish failed is left unacked "so MQTT
  QoS 1 redelivers it", but nothing resends it on a live connection and a clean
  session forgets it at the end of one. No property claims it. A malformed
  payload whose dead-letter publish fails is acked and gone. A reading of an
  unregistered device is nak'ed and redelivered for ever, and a good one that is
  batched with it each time as well; a message without rows that is alone in its
  batch is forgotten and redelivered for ever (`StoredIsSettled` excludes both).
- **Rollout**: with a failing audit insert, a later stage records the rollout's own
  config as the snapshot (`SnapshotPredatesRollout`); with a crash between push and
  record, an abort leaves a device on the aborted config (`AbortReverts`); a rollout
  that took its snapshot while another's config was on the device puts that config
  back when it is aborted itself, although the other has been aborted and reverted
  meanwhile (`AbortReverts` names the case: nothing else brings an aborted config
  back); with a failing final `UpdateState`, a restart revives a rollout already reported as ended
  (`EndedNeverRevived`); a PUT and the engine publish in the other order, and the
  retained message stays behind the shadow (`SoleWriterRetained`).
- **Alerts**: a failed `Open`, or an operator's resolve while the signal still
  violates, leaves the violation without an alert until the signal has cleared
  (`ViolationOpensAlert`); after a restart the evaluator considers every key clear,
  and an alert opened before whose condition is gone stays open (`ConditionClears`).
- **Provisioning**: a claim that fails after `ConsumeToken` has spent its token.
- **ShadowSync**: a device that restarted since its last report runs its defaults
  and looks in sync until its next report; two PUTs that publish in the other order
  leave an older entry retained; when the config handlers of a fleet device's old and
  new client overlap, the older entry may be stored last (`InSyncIsSound`,
  `DesiredIsHandled`). An agent whose subscription failed stays deaf on that
  connection, and a fleet device whose flag an old OnConnect raised after its
  connection was gone never dials again (`DesiredIsHandled`). Two entries applied
  while the agent's loop collects leave it ticking at the interval of the first,
  since the one-slot channel keeps the older value (`RateTakesEffect`).
- **Migrations**: the comment on racing replicas (`migrations.go:29-35`) holds
  for files with a transaction. Without one, the loser of the race moves on while
  the winner is in the middle of the file; and if a process dies there, every later
  start meets the duplicate of the first statement and skips the rest, for ever
  (`MovedOnIsApplied`).
- **Fleet**: an OnConnect callback that is slow sets the flag after the
  connection was lost and the ConnectionLost callback ran: the device takes itself
  for connected and never dials again (`FlagIsHonest`). A partitioned device may hold
  a raised flag without a connection (its heal dial timed out, was accepted in the
  background and dropped by the next dial, which failed), but goes on dialing whatever
  the flag says: the property speaks of devices that are not partitioned. Two overlapping calls of
  `Scale` start a slot twice, which leaves a device nobody can stop, or leave one
  running above the target (`FleetMatchesTarget`). With a slow broker, redials
  every 3 s (`reconnectBackoff`) cut off subscriptions that may wait 10 s, and a
  device can go round like this for ever (`ComesBack`, condition `prompt`). The
  stronger claim that a device *stays* connected when faults cease fails too: a
  redial does not disconnect the old client, whose late ConnectionLost callback
  clears the flag of the new connection. After a restart, a slot without a state
  file is given tokens that are already spent, and its claim fails.

### Bounds, and why they are enough

- **Telemetry**: two packets. The races are between two deliveries of one message,
  between two messages of one batch and between two flushing goroutines; the five
  choices for the second packet cover each special treatment in a batch with a good
  reading. `BatchSize` 4 with two-row readings lets both callers flush;
  `MaxTime` 1 gives two packets different stamps; one crash or connection loss,
  since recovery is stateless (nothing is remembered of an earlier one). The
  liveness run has the same packets and batches and leaves out what ends before a
  message is in the stream: losses of the link and crashes of the bridge, and stamps
  that differ.
- **Rollout**: two devices in different stages (buckets 5 and 60, stages 10% and
  100%), one of them without a config before; two rollouts where overlap matters;
  up to two crashes, so that a crash during the recovery from another is covered;
  up to two PUTs. Rejection is the only criterion switched on: the others enter the
  same disjunction.
- **Alerts**: one sample key and one silence key, M = 2 (the least that
  distinguishes consecutive from total), three ids (two in the liveness run,
  enough for three signal changes), one crash, one failed store call, one operator
  resolve, four signal changes (three in the liveness run): violate, clear,
  violate again and clear again.
- **Provisioning**: two agents with a token each, two claims, two device ids, one
  crash of control. Two claims are enough for a retry with a spent token, for two
  claims of one id, and for a late response next to a new command. The liveness run
  leaves the faults out: a failing call ends the claim earlier.
- **ShadowSync**: two PUTs, one with a rate above 1000 per second and a batch size,
  one with batched mode and a rate, which is accepted only after the former: each
  order of the two, and each alone, is a different case. Six environments, each
  with one or two kinds of faults: lost connections together with lost reports or
  with a failed subscription, restarts; agent and fleet device. One lost connection
  is enough for a late flag, and with the redial of a failed subscription or of a
  late lost callback for handlers that overlap.
- **Migrations**: control and processor; four files, two of them without a
  transaction, one of those starting with a repeatable statement as in
  `deploy/migrations`; two crashes, so that both processes may die, or one again
  while it makes up for the first.
- **Fleet**: five environments. One slot whose device meets two faults of any kind
  with a prompt broker; the same with one fault and a slow broker (where the
  interleavings of redials and callbacks are the point); a partition with a dial that
  times out and one that fails, the shortest way to a raised flag without a connection;
  two slots and two calls
  that may overlap; two slots and three calls one after the other with a failed claim
  or a restart. Four clients per device are enough for two faults: with five the
  number of states is the same. The third environment makes do with three, which
  leaves out some pile-ups of clients that `FleetProofs` covers. Three tokens for two slots leave one to spare.

Symmetry is used in safety runs only, over alert ids, device ids and claims, and
over the two agents swapped together with their tokens.

### Fairness

- `ConsumerFairness`: goroutines run, the server redelivers after AckWait, and
  inserts and acks succeed now and then (strong fairness of `InsertOK` and, per
  message, of delivery and `AckItem`). The code retries for ever through nak and AckWait; without a database
  that ever works again nothing could be stored. The bridge needs no fairness here:
  the property starts when a message is in the stream.
- `Rollout!Fairness`: the operation holding the mutex proceeds, a dead process is
  restarted and calls `ResumeAll`, and a rollout that is ticked infinitely often is
  eventually acted upon. Strong fairness, since other operations take the mutex in
  between and Go's mutex does not starve a waiter.
- `Alerts!Fairness`: sensors that are not silent send, samples and sweeps keep
  being evaluated, store and publish steps proceed.
- `Provisioning!Fairness`: handlers proceed, timers fire, the two users of
  `Client.mu` are not starved. Nothing is assumed of the plugin, of delivery or of
  the session: the timeout has to be enough.
- `ShadowSync!Fairness`: the agent's client reconnects and a fleet device dials while
  its flag is down, they subscribe, the lost callback and the config handler run,
  tickers tick (weak), and a `select` that finds a nudge waiting again and again
  takes it although ticks compete (strong: Go's `select` chooses at random). Nothing
  is assumed of PUTs, losses, failures and restarts, nor of control: publishes and
  the reconciler have no fairness, and OnConnect none past its subscription.
- `Migrations!FairSpec`: a started process goes on; weak fairness, since a process
  that waits for a lock can go on as soon as it is free and nobody takes it twice.
- `Fleet!Fairness`: goroutines and callbacks run, dials and requests end, timers
  fire; weak only, and nothing of callers and faults.

## 4. What is proved

All for arbitrary constants satisfying the named assumptions of the module
(`TelemetryAssumption` etc.). They give types and keep `None` apart from
everything else (`NoTargetAssumption`: also from the records of the
`rollout_targets` table); `VirtualDeviceAssumption` has each environment stay within
the client numbers there are. TLC evaluates the assumptions in every run. Nothing is
assumed finite that the model does not make finite: that the stream holds finitely
many messages is proved.

| theorem | states |
|---|---|
| `TelemetryProofs!TypeCorrect`, `NoAckBeforeDurable`, `NoAckBeforeCommit` | `TypeOK`, `AckedIsDurable`, `SettledIsPersisted` |
| `TelemetryProofs!NoDuplicateRows` | `RedeliveryIsNoOp` |
| `TelemetryProofs!ImplementsAtLeastOnce` | `Spec => DeliversAtLeastOnce`: the detailed path implements the abstract one |
| `RolloutProofs!TypeCorrect`, `TerminalRowsFinal`, `StageMonotonic` | `TypeOK`, `TerminalIsFinal`, `StageNeverRegresses` |
| `RolloutSafetyProofs!RestartLoadsMemory`, `StagesBoundWrites`, `EndedStaysEnded` | `MemoryMatchesRow`, `BlastRadius`, `EndedNeverRevived` |
| `RolloutSafetyProofs!SnapshotIsOlder`, `AbortedIsReverted`, `CompletedReached`, `RetainedUpToDate` | `SnapshotPredatesRollout`, `AbortReverts`, `ReliableCompletion`, `SoleWriterRetained` |
| `AlertsProofs!TypeCorrect`, `UniqueOpenAlert`, `StoreFollowsMachine`, `EventsNeverLead`, `ClearLeavesNothingOpen` | `TypeOK`, `OneOpenPerKey`, `RowsFollowMachine`, `EventsTrailRows`, `ClearedIsResolved` |
| `AlertsProofs!Hysteresis` | `NoFlapping` |
| `ProvisioningProofs!TypeCorrect`, `TokensAreSingleUse`, `RowBeforeCredential`, `ResponsesNeverBlock`, `CachedCredentialsAuthenticate` | `TypeOK`, `OneDevicePerToken`, `CredentialedHasRow`, `HandlerNeverBlocks`, `CachedCredentialsWork` |
| `MigrationsProofs!TypeCorrect`, `RecordedVersionsComplete`, `SkippingIsHarmless` | `TypeOK`, `RecordedIsComplete`, `MovedOnIsApplied` |
| `ShadowSyncProofs!TypeCorrect`, `InSync` | `TypeOK`, `InSyncIsSound` |
| `FleetProofs!TypeCorrect`, `FlagHonest`, `TargetReached` | `TypeOK`, `FlagIsHonest`, `FleetMatchesTarget` |

Each module proves an inductive invariant `IInv` (theorem `Invariance`):

- **Telemetry.** A goroutine in the ack loop has its whole batch in the table
  (`AckAfterCommit`), batches hold stored messages only, a handler about to ack has
  published (`AckAfterPublish`), and a packet no handler has taken is not in the
  stream (`StampPrecedesStore`): without the last, a time stamp could change under
  a stored message and its rows with it. For the refinement each action is shown to
  be an `Accept`, a `Persist`, a `Settle` or a stutter. For `RedeliveryIsNoOp` a second
  invariant (`RowInv`) says that every row comes from a message of the stream and that
  the stream is finite; the rows of one reading and sensor then are the image of the
  messages that carried it under their time stamp, so there are no more of them.
- **Rollout.** What the engine holds in memory or works on has a live row
  (`ActiveIsLive`), which is why nothing writes an ended row; and the stage in
  memory is never behind the row (`StageAhead`), which is why writing memory's
  stage plus one never takes the row back. Both survive failed writes, since a
  failed write leaves the row behind, never ahead.
- **Rollout, second invariant** (`SafetyInv`). One part per kind of environment, since
  each property needs other calls to succeed. If writes of the `rollouts` table do:
  memory and rows differ for the current rollout at most, and only before `Create` has
  added it (`MemoryAgrees`), and what is written, recorded or on `applyStage`'s list is
  in a stage the row has reached (`StageBounds`). If audit and target inserts do and
  nothing crashes: whatever bears a rollout's name, as config or as writer, was recorded
  by it, but for the device between push and record; a snapshot never names its own
  rollout, and one that names another was recorded by that one (`TouchedIsRecorded`).
  The last clause is what makes overlapping rollouts work: going back to a snapshot may
  put another rollout's config on a device, which that rollout must have recorded too.
  In every environment, a rollout's config is on a device because the rollout wrote it or
  because another one restored it (`WrittenOrRestored`). For aborts and completions: how
  far the list of the current operation has been worked
  off (`AbortProgress`, `StageProgress`). For the retained message: only the device about
  to be published is behind (`OneBehind`).
- **Alerts.** What a goroutine is about to do agrees with the evaluator (`JobInv`);
  what is about to be published was reached (`EventInv`); a key that is clear and
  not being resolved has no open alert (`ClearInv`). Every action changes the table
  by an insert, a resolve by key, or one step of one
  open row (`TableStep`), from which the state machine follows. For `NoFlapping`, the
  last `violations` (`clears`) verdicts of a key's history are all true (false)
  (`CountersInv`); an edge is taken on a counter of M, which is the whole history.
- **Provisioning.** A token's value is in Redis, or with one claim about to insert,
  or in one row (`TokenOnce`); past the insert the device has a row, late commands
  included (`RowFirst`); a full channel has no pending entry (`Channels`); and only
  the claim that inserted a device's row goes on to send a command for it, so
  "Client already exists" can only be its own earlier success (`Owner`).
- **Migrations.** A process has executed what is before its statement (`Prepared`);
  what it moved past was at least begun by somebody (`MovedInv`, which is stable
  because effects stay); and a file begun but not whole has no transaction and
  either was torn by a crash or has a process beyond all its statements in effect
  (`FrontInv`). That process is never the one that meets a duplicate, which is why
  skipping is right.
- **ShadowSync.** The device runs what the entry of its revision names (`RunsOwn`).
  Unless PUTs overtook each other or handlers overlapped (`InOrder`), the revisions on
  their way to it are in order, between its own and the retained one (`OrderInv`), and a
  handler of a connection that is gone is the only one under way, with an entry that is
  not older and a config that still runs (`LateInv`), so its revision never goes back;
  hence every config it loaded or sent in this run, and the one stored of it, is of an
  earlier revision or is what it runs (`ReportInv`). The lemma behind it: applying an
  entry a second time, as every reconnect does, changes nothing (`ResolveIdempotent`).
- **Fleet.** Per device (`LinkInv`): a raised flag in the sampling loop means a
  connection, a loss being reported, a partition, or a flag stored late; a dial after a
  loss or a flaky disconnect starts with the flag down. For the manager (`SlotInv`,
  `TokenInv`): no two slots share a device or an identity, and whoever claims has a
  token. Without overlapping calls (`CallInv`, `IdentityInv`): one call at a time; a slot
  that is not as the target says is about to be stopped or started, or starved; the
  devices alive are those of the slots, under the slots' identities.

Only model-checked: the liveness properties (`StoredIsSettled`, `RunningEnds`,
`ViolationOpensAlert`, `ConditionClears`, `ClaimAnswered`, `DesiredIsHandled`,
`RateTakesEffect`, `RunsReturn`, `ComesBack`), which are out of the prover's reach, like
`ENABLED`. Every safety property of the passing runs is proved.

## 5. Plan

Done: `Telemetry`, `Rollout`, `Alerts` and `Provisioning`, in this order, because
losing a reading, damaging a fleet by a config, missing an alert and handing out
identities are what SenseGrid must not get wrong; then `ShadowSync`, the way of a
config to the device and of the report back, `Migrations` and `Fleet`.

Proved since: every invariant and action property the passing runs check.

Next, by importance:

1. What liveness rests on and can be stated without fairness: that a step which brings
   the goal nearer leaves nothing to be undone (for instance that a claim, once past
   `ConsumeToken`, only moves forward).
2. Shorter proofs: the case splits over actions that leave a part of the state alone are
   the bulk of `RolloutSafetyProofs` and `FleetProofs`, and frame lemmas per group of
   variables would serve several conjuncts at once.

New questions join an existing run of the module where one configuration can
carry them.

## 6. Not modelled, and why

- Login, JWT checks and roles: stateless per request. Configuration, logging,
  tracing, TLS and HTTP set-up: glue and I/O. Web console and sensor client: user
  interface, what they send is an input of the models. The firmware: a device like
  any other. Host metrics, simulated signals, sequence numbers and batching:
  sequential, and seen by no property. Read-only handlers.
- The numbers inside sliding windows, detectors, the rate limiter and cohort hashing:
  floating point or hashing; the models take the verdict, the bucket or the
  limiter's answer as an input, so every value is covered.
- The rules watcher: one goroutine polling a file; that `lastMod` advances before a
  failed load (`watch.go:59`) is visible in three lines.
- The WebSocket relay: a bounded channel per client with a non-blocking send; it
  drops when full, which is all it promises.
- The fleet's runtime config: load, patch and store without a lock
  (`manager.go:275`), so one of two concurrent patches is lost; nothing else
  depends on it.
- Control's own MQTT connection in `ShadowSync` (its reports may be lost anyway),
  and the sharing of one broker identity by a device leaked by overlapping `Scale`
  calls and its successor: the devices of `Fleet` take connections from themselves
  only.
- Go-level data races on values that are only displayed (`Engine.Get` hands out the
  pointer to the active rollout) do not influence the modelled state.
