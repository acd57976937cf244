# Stream-Pipeline: TLA+ verification

TLA+ models of the streaming platform in this repository, TLC runs that check
them on small instances, and TLAPS proofs of the safety properties for every
size. Paths below are relative to the repository root (`src/...` is the
Python source tree). `PROJECT.json` maps every definition to the lines it
models and lists hazards, runs, mutants, findings and theorems.

## The system

A generator simulates a ride-hailing service and writes three Kafka topics
(`rides.events`, `payments.transactions`, `drivers.locations`), deliberately
with duplicates, reordering, lateness and corrupted messages. The sessionizer
folds the events of each ride into one session record, exactly once. Sinks copy
the topics into Postgres and into an Iceberg table; dbt, Flink SQL, data-quality
checks, a lag exporter, dashboards and a UI read the results.

| Component | State | Operations | Talks to | What makes it correct |
|---|---|---|---|---|
| Ride simulator and fleet (`generator/rides.py`, `drivers.py`, `simulate.py`) | active rides with a planned event, drivers, payments queue | tick: fleet, spawn, progress, payments | yields events to the imperfection layer | rides and fleet agree on who drives whom; lifecycles advance on legal edges in event-time order; one payment per completed ride |
| Imperfection layer and transport (`generator/imperfections.py`, `producer.py`, `__main__.py`) | held events, producer queue, delivery reports, manifest | process, release_due, send, delivery callback, close | librdkafka, broker | nothing dropped while running; exclusive buckets; the manifest claims only what the broker holds, and all of it after a clean close |
| Sessionizer (`processors/ride_sessionizer.py`, `state_store.py`, `session_builder.py`) | SQLite journal and closes, accumulators and watermarks in memory, an open Kafka transaction, committed offsets | on_assign, on_revoke, process_batch, _transact | broker, transaction coordinator, SQLite | every ride one complete session; outputs match committed offsets; the two stores agree after every crash |
| pg-sink (`processors/pg_sink.py`) | Postgres tables and `serving.consumer_offsets`, a batch, an open transaction | on_assign, process_batch | broker, Postgres, dead-letter producer | tables are always what the stored offsets stand for; nothing regresses; every record accounted for |
| Dead-letter producer (`dlq/envelope.py`) | producer queue | handle, flush | broker | no poison message vanishes |
| Iceberg sink (`sinks/iceberg_sink.py`) | buffer, loaded table, offsets | ingest, flush (evolve, append, commit) | broker, catalog | no record below the committed offset is missing; promo codes survive |
| Compaction (`scripts/compact_iceberg.py`) | loaded table | scan, overwrite per partition, verify | catalog | rewrites change files, never rows |
| DLQ replay (`scripts/replay_dlq.py`) | envelopes read, producer queue | drain, filter, repair, produce, flush | dead-letter topic, source topic | an undisturbed, repairing run restores every event it drained; what it repaired never comes back as a dead letter |
| Lag exporter (`observability/lag_exporter.py`) | ends, samples and gauges of a cycle | probe, ask broker, ask Postgres, publish | broker, Postgres, Prometheus | no invented lag; gauges settle when the platform is at rest |
| Quality runner (`quality/runner.py`, `suites.py`) | recorded row counts (`serving.dq_results`), bounds of a run | read history, validate, judge, persist, exit | Postgres, Great Expectations | a loss is reported, a false alarm is not; the gate's exit code is right |
| Platform reset (`scripts/reset_platform.py`) | groups left to delete, attempts, deadlines | reset groups, topics, Postgres, state | broker, Postgres, file system | a reset that succeeds leaves a blank slate; every wait ends |

The hard behaviours: SQLite commits before Kafka does, so recovery has to erase
what Kafka never confirmed; a commit may complete, or be refused, after the
process that asked for it is gone; batches span partitions; Postgres workers
overlap during a handover; the sink and the compaction job race for the
catalog; dead letters and events are delivered behind the caller's back; the
operational tools read several sources one after the other while these change.

## Modules

| Module | Models |
|---|---|
| `RideEvents` | event types, terminal states, legal edges (`state_machine.py`) |
| `RideSessions` | a ride's events, the fold into a session, the timeout (`session_builder.py`), and what a prefix of the log stands for |
| `SessionsExactlyOnce` | abstract specification: consuming a stretch of the log and publishing what it closes is one step |
| `Sessionizer` | the sessionizer, its SQLite store, the transaction coordinator |
| `SessionizerInduction` | the inductive invariant `IInv` |
| `SessionizerProofs`, `SessionizerSafetyProofs`, `SessionizerTheorems` | proofs: types; `IInv`; the properties and the refinement |
| `SessionizerStateLoss` | the runbook's deletion of the state file, on top of `Sessionizer` |
| `SessionizerZombie` | a fenced predecessor that still writes to the state file, on top of `Sessionizer` |
| `TablesExactlyOnce` | abstract specification: taking records into the tables, once and in order, and moving the position is one step |
| `PgSink` | workers, Postgres at READ COMMITTED with row locks, dead letters |
| `PgSinkInduction`, `PgSinkProofs` | its inductive invariant `SinkInv`; proofs |
| `IcebergSink` | the sink, the catalog and the compaction job |
| `IcebergSinkInduction`, `IcebergSinkProofs` | its inductive invariant `ArchiveInv`; proofs |
| `RideSimulator` | tick loop, ride lifecycles, fleet, payments, pings |
| `RideSimulatorInduction`, `RideSimulatorProofs` | its inductive invariant `SimulatorInv`; proofs |
| `EventFeed` | imperfection layer, transport, manifest |
| `EventFeedInduction`, `EventFeedProofs` | its inductive invariant `FeedInv`; proofs |
| `QualityRunner` | suites, row-count baseline, exit codes |
| `LagExporter` | lag cycles against a changing platform |
| `PlatformReset` | the reset script, the broker and the processors around it |
| `DlqReplay` | the dead-letter cycle: groups that dead-letter, drain, repair, produce, consume |
| `DlqReplayInduction` | its inductive invariant `ReplayInv` |
| `Operations` | the four tools above in one specification |
| `OperationsInduction` | the inductive invariants of the other three, all together `OpsInv` |
| `OperationsProofs` | proofs about the four tools |
| `MC*` | instances for TLC |

Operators named `X_Something` marked as mutants change `X` as a plausible bug
would; no specification uses them. Each property is shown to fail when the
mutant `PROJECT.json` names takes the place of `X`.

### Sessionizer

State: the partitions of `rides.events` and the offsets committed for the
group; the three output topics as a read-committed consumer sees them; the
transaction at its coordinator (`txn`); the SQLite tables (`journal`, `closes`);
and the process: `accs`, `watermark`, `position`, the locals of `process_batch`
(`batch`) and what a recovery still has to do (`pending`). A journal row is a
(partition, offset) pair, its value the message there; a session is the set of
lifecycle slots it saw and its terminal state.

Actions: `Start`, `OnAssignRollback` and `OnAssignRebuild` (the two SQLite
transactions of `on_assign` are separate steps), `OnRevoke`, `Consume` (one
message; poison or event), `CollectCloses`, `AppendBatch`, `ProduceOutputs`,
`SendOffsets`, `EndTxn`, `PostCommit`, `AbortBatch` through `TransactFails` or
`TransactRefused`, `RollbackAborted` (one partition at a time), and `Crash`
anywhere. The coordinator may complete a commit after the process died
(`CompleteCommit`), or time a transaction out (`TxnTimeout`). An exception from
`abort_transaction`, `committed` or `begin_transaction` ends the process and is
`Crash`; a failing `produce` is `TransactFails`. Duplicates carry identical
content, and the key partitioner is fixed: a ride lives on one partition. There
is one sessionizer, as `docker-compose.yml` deploys it. `SessionizerStateLoss`
adds the deletion of the state file while the process is down.
`SessionizerZombie` adds a second process: `Stall` takes the running one out
with a batch it is about to append, and `ZombieAppends` lets it write that batch
to SQLite once a successor runs. Its transaction then fails, so does
`abort_transaction`, and it dies without rolling back.

### PgSink

Each worker has a connection and a batch. The rows of a batch are written topic
by topic in the order of `SINK_TOPICS`, then the offset rows in the order in
which their partitions came up. Upserts take row locks and wait for the holder; a COMMIT is sent, then served, then returns, so it can be served
after its worker died and its successor read the offsets. Mutual exclusion
between owners of a partition is not assumed. Postgres' deadlock detector is an
action. Envelopes of poison messages are delivered in the background, and lost
with the process. A row remembers the record that inserted it and the one that
last updated it, which is all the conflict clauses distinguish.

### IcebergSink

The catalog (PyIceberg, external) compares and swaps the snapshot a writer has
loaded. A row is the place in the log it was read from, its append and index there, and
whether it has the promo column; the rows of a partition are a set of those. The sink may flush after any message, a superset of its size and age
triggers. The compaction job scans, overwrites one partition at a time and
verifies. `MaxFaults` bounds crashes, rebalances and compaction jobs together.
The sink stays idle when there is nothing to read, so deadlock is not checked.

### RideSimulator

One action per event type fired, in the order of `_progress`: rides by creation,
each until nothing is due. Random draws are choices. The nearest idle driver is
any idle driver, and the spawn rate any number of rides per tick. The fleet is
one driver and one spare per ride, because a ride spawns at most one. An illegal
edge would stop the program, and would show up as a deadlock.

### EventFeed

One action per outcome of `Imperfector.process`. `send` enqueues and serves all
waiting reports (`poll(0)`); a message counts against the queue limit until its
report is served. A delivery may fail although the record was appended, and
requests on the wire outlive the process. The manifest is the set of ids
written; a kill may lose any of them, which includes losing the buffered ones. The process stops in the end, so deadlock is not checked.

### The operational tools

`QualityRunner`: the table is its number of rows, which builds of dbt raise and
a loss lowers. A run reads the history, validates the raw suite (any outcome),
counts `fct_rides`, judges the count by the bounds of the history it has read,
and persists. A loop and a gate run beside each other. `_persist` is one short
transaction, and rows are ordered by their commit; counts older than
`HistoryLimit` are never read again and are dropped. The ceiling, a maximum of
two numbers, is the comparison of the count with both. Of the `fct_rides` suite
only the row-count expectation, the one with memory, is modelled; metrics are
left out.

`LagExporter`: a cycle is the sequence of its requests: ends of the partitions
one by one, the broker's groups one by one, Postgres, publish. In between
producers append (a transaction adds a marker and may abort), consumers commit,
and the platform may be reset. The end of a partition is the last stable
offset, as a read-committed probe is told.

`PlatformReset`: one action per turn of a loop, `MaxPolls` turns before a
deadline, against a broker that deletes, elects and auto-creates at any moment,
members that are live, killed or expired, and processors that write or start
late. `excuses` records what the script does not handle (a failed listing, a
deletion slower than its deadline, a processor that starts during the reset),
so that `ResetIsBlank` says exactly what holds without and with each.

`DlqReplay`: a payload is its first byte, the one `corrupt_payload` overwrites and
`--repair-magic-byte` restores; the topic is framed Avro or plain JSON. All
groups of the source topic write to one dead-letter topic: the sessionizer in
the transaction that moves its offsets (`Transact`), pg-sink and the Iceberg sink
by queueing an envelope (`Handle`) that is delivered in the background
(`DeliverEnvelope`), while the offset is committed elsewhere (`Finish`).
`Restart` goes back to the committed offset and drops what is still queued, so
that an envelope may be lost, or written again after a redelivery. An envelope
carries the offset it was read from; who wrote it and when is left out. Payments
have the group pg-sink alone.

The script's producer and consumer are its own, so all that another process can
see of a run is what it produces: `DrainAndReplay` takes a prefix of the topic
(five empty polls end the drain wherever it is) and hands what the filter selects
to the producer, repaired or not, or nothing in a dry run. The queue is delivered
in order, and the run ends when it is empty, or is cut short. A function given
with `--transform` is the operator's and left out.

`Operations` puts these four into one specification. They share no state, so
one of them runs at a time, chosen at the start. The processes may come to an
end, so deadlock is not checked.

## Runs

| Run | States | Shows |
|---|---|---|
| `sessionizer_shared` | 188,893 | two rides on one partition, one ended by a terminal event and one by the timeout: exactly-once properties, `IInv` in every state, refinement of `SessionsExactlyOnce`, and consumption and closing once failures cease |
| `sessionizer_overdue` | violation | the watermark goes back on a restart |
| `sessionizer_state_loss` | violation | deleting the state file loses events |
| `sessionizer_zombie` | violation | a fenced predecessor loses a session through the shared file |
| `pg_sink` | 200,919 | two workers on a partition of a `DO NOTHING` topic and one of the session topic: late COMMITs, handovers, lock waits and deadlocks, with `SinkInv`; refinement of `TablesExactlyOnce`; every record stored or skipped as poison in the end |
| `pg_sink_dlq` | violation | a dead letter lost after its offset was stored |
| `pg_sink_merge` | violation | a merged session row that is neither close |
| `iceberg_sink` | 452,759 | sink against compaction, with `ArchiveInv`; schema evolution; archiving after refused appends |
| `ride_simulator` | 3,342,872 | two rides, a fleet of one, with `SimulatorInv` |
| `ride_simulator_pings` | violation | the offline marker is never stored |
| `event_feed` | 3,988,098 | four events through every bucket and failure, with `FeedInv` |
| `operations` | 567,995 | the four tools: alarms and gates; honest and settling lag; blank and ending resets; lost and repeated envelopes of two groups, replays that stop anywhere, what they repaired not dead-lettered again and what they drained stored in the end; `OpsInv` |

**Bounds.** Sessionizer: two rides are the least that lets one ride's event make
another overdue and lets a batch close two rides; four records make a duplicate,
a poison message and a late event fit with more than one batch (`BatchMax` 2).
One partition is enough for these cases; that batches over several partitions
keep them apart is what the proofs, for any number of partitions, establish.
PgSink: two workers are a handover; a partition each of a `DO NOTHING` topic and
of the session topic in one batch let two workers lock rows in opposite orders,
and two records of one key are a first and a richer close. IcebergSink: two
cells (day and city) are the least for compaction to touch the wrong one; three
records are a flush before, during and after a compaction. RideSimulator: two
rides contend for a driver; six ticks of 2 ms see a ride through to its payment.
EventFeed: a queue of two fills with four events. Operations: a history of two
with counts up to two has rising, falling and forgotten floors, with slack 0 so
that the ceiling bites; a transactional partition of four offsets holds a
committed and an aborted transaction; two topics, two groups and two attempts
let one be ready while the other is not; of the dead-letter cycle, a transactional
and a queueing group, two events, three messages and two envelopes (an event can
be dead-lettered by both groups, or by one of them twice, and come back), a
restart for a loss or a repetition, and two runs, one of them disturbed, so that
a second run repeats the first. More groups, events and runs are the proofs'
concern. Symmetry is used for the ride
events of EventFeed, which is checked for invariants only.

**Fairness.** Weak fairness of the steps of a running process, of restarts
(`restart: unless-stopped` in `docker-compose.yml`), of the coordinator
completing a commit it has prepared, of Postgres serving COMMITs and breaking
deadlocks. In `Operations`: of the looping runner, the exporter (its loop
survives every exception) and the consumers, and of the reset script, each of
whose waits has a deadline; of pg-sink reading a source topic and committing, as
its batches are bounded. Nothing is assumed of an operator's replays, or of
deliveries. Failures are never fair, and liveness is claimed only if they cease
(`FailuresCease`), or, for the Iceberg sink, up to `MaxFaults`: a process that
is killed for ever makes no progress. For pg-sink that covers any finite number
of deadlocks; that two workers do not choose a victim in every round for ever is
assumed, not shown.

## Disagreements between code and documentation

1. `NoOverdueOpenRide`: the docstring of `ride_sessionizer.py` (25-27) defines
   the watermark as the largest `event_ts` seen; `on_assign` rebuilds it from a
   journal it has just purged.
2. `RebuiltFromCommittedOffsets`: `docs/runbook.md` (84-86) calls deleting
   `state/sessionizer.db` safe; the sessionizer resumes at the committed
   offsets and never reads the earlier events of open rides again.
3. `PoisonDeadLettered`: a malformed message "must end up in the dead-letter
   queue" (`imperfections.py` 10-11); pg-sink stores its offset while the
   envelope is only queued.
4. `RowIsTheRicherClose`: `pg_sink.py` (15-16) says the richer close is kept;
   the update list leaves several columns of the first.
5. `OfflineMarkersAreStored`: `drivers.py` (140-143) sends the offline marker
   with the key of the ping before it, and `ON CONFLICT DO NOTHING` drops it;
   `int_drivers__shifts.sql` splits shifts at offline markers.
6. `FencingKeepsSessions`: `docs/runbook.md` (81-82) says of two instances that
   "the fencing is the system working"; fencing protects Kafka, while
   `append_batch` of the fenced process still reaches the SQLite file that its
   successor uses, which then takes the ride for closed and never publishes it.

Where the code falls short of a promise and a property has to say what is left of
it, the property names the exemption. It then says nothing of that case, and
without the exemption TLC finds a counterexample:

- `suites.py` (90-91) calls the floor "the highest count ever observed";
  `rowcount_history` reads the last ten, and a run that reports a loss records
  the low count as well, so that ten runs later the shrunken table is the
  baseline and a gate passes. `GatePassesNoLoss` and `LossIsReported` stop at a
  loss that was reported.
- `reset_platform.py` (1) promises a blank slate of "topics, consumer groups,
  Postgres, state"; `reset_groups` (107-111) takes a failed listing of the
  groups for "no groups" and succeeds with their offsets in place.
  `ResetIsBlank` exempts it (`excuses`).
- `reset_platform.py` (36) says "wait until they are really gone"; at the
  deadline the script goes on, the creation skips a topic that is still listed,
  and the reset succeeds although the topic is about to disappear.
  `ResetIsBlank` exempts that, too.

Smaller things that the operational models make explicit, named in the comment
of a property:

- A count that failed as too high is the next run's floor.
- `--repair-magic-byte` cannot repair payments, which are plain JSON; what a
  replay does not mend is dead-lettered again by every group, and each further
  run produces it once per envelope (`RepairDoesNotFeedBack`).
- On topics written by transactions the lag of pg-sink rests at the number of
  markers and aborted records at the end, not at zero (`GaugesSettle`). Gauges
  of partitions that a reset took away keep their last value.
- A reset does not touch the group `iceberg-sink`.

## Proofs

Every invariant that a passing run checks, the two refinements and the two
action properties are theorems: they hold for every finite or infinite choice of
the constants that satisfies the modules' named assumptions. One of them,
`GatesCatchTheFirstLoss`, has a hypothesis of its own, explained below. The
assumptions say what the code takes for granted and no more: a partition has one
topic, and rides, keys and subscriptions have their partitions (`PartitionAssumption`,
`KeyAssumption`, `SubscriptionAssumption`); bounds, event times and limits are
natural numbers, and positive where a zero would switch the loop off
(`BoundAssumption`, `TimeAssumption`, `FeedAssumption`, `HistoryAssumption`,
`ResetAssumption`); a poison message is not an event; the cities and days of the
Iceberg table are finitely many (`CellsAssumption`); a driver is offline for two
ticks or more; and an event that the generator may corrupt is produced once
(`SourceAssumption`: `Imperfector` never duplicates what it corrupts, which is
part of `BucketsAreExclusive`, and intact copies are decoded).

Each argument has the same shape. A property of a component speaks of what it
publishes, and is not inductive: a step in the middle of a batch says nothing of
what the batch holds. A module `XInduction` adds what every step relies on, TLC
checks that invariant (types included) in the component's run, and `XProofs` shows that the
initial states satisfy it and that each action, one lemma each, preserves it.

### Sessionizer

- `TypeCorrect` (`TypeOK`) and `Invariant` (`IInv`).
- `SessionsAreOnceAndComplete`, `ConsumedInputKeepsItsSession`,
  `OutputsAreExact`, `StoresAgree`: the four safety properties of the runs.
- `SessionizerKeepsPromise`: the refinement of `SessionsExactlyOnce`, with the
  log, the committed offsets and the topics as the mapping. Every step but
  `Produce` and `CompleteCommit` is a stutter.

`IInv` says, by phase of the process: what is in the log and the topics
(`LogInv`, `TopicInv`); that the store below the committed offset is right
whatever lies above it (`StoreInv`), so a crash is harmless; which partitions a
recovery has rolled back and rebuilt (`AssignInv`); that memory and batch are
exact for the offsets read (`PollInv`, `BatchInv`); that an open transaction
holds exactly the outputs of the stretch of log its offsets cover (`TxnInv`),
also after its process died; and that after the commit the store has caught up
(`CommittedInv`). The commit (`CompleteCommitInv`) is where the batch's exactness
becomes that of the topics.

### PgSink

- `SinkInvariant` (`SinkInv`), `SinkTypeOK`.
- `SinkTablesMatchOffsets`: the tables are what the stored offsets stand for,
  with any number of workers on the same partitions.
- `SinkNothingRegresses`: the action property.
- `SinkKeepsPromise`: the refinement of `TablesExactlyOnce`, with the tables and
  the stored offset plus one as the mapping. Every step but `Produce` and
  `ServerCommit` is a stutter.

A COMMIT can be served after its worker died and its successor has read on, so
the invariant has to say of every transaction in flight that it may be applied
now. `SinkInv` describes tables by the set of offsets they show (`IsRow`,
`TablesOK`), and for each worker which records of its batch are pending, which
are executed, and what the rows it has locked are in terms of both (`ExecuteOK`);
once COMMIT is sent, the locked rows are those up to the new offset (`SentOK`).
Locks exclude each other (`Disjoint`), which keeps two such descriptions true at
the same time; where a worker holds no lock, its executed records were behind
the stored offset or ignored by `DO NOTHING`. That a replay of old records is
harmless is then arithmetic on sets of offsets.

`TablesExactlyOnce` says more than that the tables match the offsets: its step
computes a new row from the old row and the records in between alone
(`TakeIn`), so nothing is read twice. `TakeInRow` shows it: a row that the
records `S` leave and one that `S` and later records `D` leave differ by `TakeIn`
of `D`, because only the first of the richest counts.

### IcebergSink

- `ArchiveInvariant` (`ArchiveInv`), `ArchiveTypeOK`.
- `ArchiveNeverLosesData`, `ArchiveKeepsPromo`: the safety properties.
- `CompactionPreservesRows`: the action property.

`ArchiveInv` follows an event from the position through the buffer to the table
(`ConsumedOK`, `AppendedOK`, `CommittedOK`), and says of the compaction job that
as long as the snapshot is the one it loaded, so are the rows (`JobOK`): that is
why a swap the catalog accepts rewrites the current rows. `ColumnOK` and
`EvolvedOK` tie rows with a promo code to the schema.

### RideSimulator

- `SimulatorInvariant` (`SimulatorInv`), `SimulatorTypeOK`.
- `RidesAndFleetAlwaysAgree`, `LifecycleAlwaysAdvances`,
  `CompletedRidesAreCharged`: the safety properties.

`SimulatorInv` adds when a ride has a driver (`DriversOK`), that no ride in
progress has completed (`HistoryOK`), and that the fleet has at most one driver
more than rides that were served (`FleetSizeOK`), a counting argument without
which the driver that `assign` spawns might not exist.

### EventFeed

- `FeedInvariant` (`FeedInv`), `FeedTypeOK`.
- `BucketsAreAlwaysExclusive`, `LoopNeverDrops`, `ManifestIsAlwaysHonest`,
  `CleanCloseIsAlwaysComplete`: the safety properties.

`FeedInv` adds that acknowledged messages are in the log (`ReportsOK`), that an
intact message in the log is in the manifest, failed, or has a report to come
(`ServedOK`), and what an empty queue at the end means (`ClosedOK`). The proof
counts copies of an event over the batch, the held set, the queue and the log;
most of its lemmas are about such counts.

### Operational tools

- `OpsInvariant` (`OpsInv`), `OpsAlwaysTyped`.
- `AlarmsAreAlwaysReal`: `CountsOK` says that until rows are lost nothing counted,
  recorded or read back exceeds the table, whichever runs are behind.
- `GatesCatchTheFirstLoss` (`GatePassesNoLoss`): a gate that begins after the
  first loss of rows and passes has seen the table restored, or an earlier run
  has reported the loss. Hypothesis: there are no more runners than the history
  has rows (`FewRunners`; the deployment has a loop and a gate, and ten rows).
- `SamplesAreAlwaysHonest`: `ProbesOK` says that every end asked for so far bounds
  the lag at that moment; positions only advance after that.
- `ResetIsAlwaysBlank`: `GroupsOK`, `TopicsOK` and `StoresOK` say what each step of
  the script has achieved that no broker or late writer undoes.
- `RepairNeverFeedsBack` (`RepairDoesNotFeedBack`): `OriginalsOnce` says that
  on a framed topic without a futile run an undecodable message is an original
  one, produced once, and that every envelope, queued or delivered, wraps the
  message at its offset (`Wraps`). Two envelopes of an event, of two groups or of
  a batch read twice, therefore have the same offset, and are copies. Messages
  are only ever appended, so what an envelope wraps does not change.

The gate's argument (`GateInv`) is about runs that overlap the loss. A run that
read the history before the highest count was recorded does not notice that it
sees less (`Unaware`), records the low count and pushes the high one towards the
end of the window. `FloorKept` counts: the rows behind the high count and the
runs still unaware are together fewer than the runners. A run that records its
low count moves from the second number to the first, a run that begins now has
the high count in its history, and one that sees as much puts it last. So the
high count is never further back than the history is long, every gate that
begins after the loss reads it (`GatesAware`), and passes only if it counts as
much.

### Model-checked only

- Liveness: `EventuallyConsumed`, `EventuallyClosed`, `EventuallyStored`,
  `EventuallyArchived`, `LossIsReported`, `GaugesSettle`, `ResetEnds`,
  `PromisedAreStored`. The prover handles neither fairness nor ENABLED.
- The six disagreements, which are counterexamples.

Both conditions of `GatesCatchTheFirstLoss` are needed. With two loops and a gate
on a history of one, TLC finds the gate passing after the first loss: the loop
that read the empty history records the low count over the high one. With
enough rows for the runners it finds a gate that passes after a second loss:
rows recorded since the first, whose alarm was raised and is over, have left the
floor at the end of the window, where one unaware run pushes it out.

## Not modelled

- The numbers in a session (durations, distance, fare), the layout of
  envelopes, metrics, logging, schema registration, geometry, demand curve,
  command line.
- Expectations on the values of columns, which Great Expectations evaluates; a
  function given to the replay with `--transform`; the end-to-end script.
- Flink SQL, dbt, UI, dashboards, deployment: declarative, or read only.
- A record that cannot be serialised, or an unknown event type, fails the same
  way on every restart; no input of the generator does that.
- Behaviour that is modelled and that nothing promises to be otherwise, so no
  property speaks of it: on a quiet partition event time stands still and an
  abandoned ride stays open; events still held when the generator's run ends are
  dropped; within a tick rides fire in the order of creation, so that event
  times of different rides may overlap on a driver; the Iceberg sink does not
  commit a tail of poison messages and dead-letters it again after a restart.

## Plan

1. Done: the sessionizer, state loss and zombie, pg-sink, Iceberg sink and
   compaction, simulator, event feed and the operational tools, each with its
   safety properties proved as listed above.
2. Left: the fold of `session_builder.py` against a reference definition; the
   composition of sessionizer and pg-sink through `rides.sessions`, for which
   `SessionsExactlyOnce` and `TablesExactlyOnce` can stand in for the two; action
   properties of the simulator and the feed (a driver changes hands only when its
   ride ends; the manifest only grows) beside the invariants.
