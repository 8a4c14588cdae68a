# Verification of the ClickHouse sink connector

The connector copies the change log of a source database (MySQL, PostgreSQL,
MongoDB) into ClickHouse. This directory holds TLA+ models of its core, the TLC
configurations that check them on small instances, and proofs, checked by TLAPS,
of the properties that matter most, for every value of the constants.

`SC/` stands for `src/sink-connector/src/main/java/com/altinity/clickhouse/sink/connector/`
(the *sink*, also the library of the other one), and `LW/` for
`src/sink-connector-lightweight/src/main/java/com/altinity/clickhouse/debezium/embedded/`
(the *lightweight* connector, which runs the Debezium engine in its own process).
`PY/` stands for `src/sink-connector/python/ch_sink_tools/`, the tools that load and
compare PostgreSQL databases. `PROJECT.json` gives the lines of the code that every
definition stands for.

1. [The system](#1-the-system)
2. [The modules](#2-the-modules)
3. [The runs](#3-the-runs)
4. [Fairness](#4-fairness)
5. [The proofs](#5-the-proofs)
6. [Disagreements with the code's own words](#6-disagreements-with-the-codes-own-words)
7. [What is not modelled](#7-what-is-not-modelled)
8. [Plan](#8-plan)

## 1. The system

### 1.1 How the parts work together

                                   lightweight connector

    source --> Debezium engine --> handleChangeEventBatch --> records --> workers --> ClickHouse
    database   (one thread)         |  |                    (bounded    (pool of      tables
                  ^                 |  |                      queue)     runnables)      ^
                  |                 |  +-- DDL: drain, pause, apply, resume -------------+
                  |                 +----- versions of the rows             |
                  |                                                         |
                  +-- replica_source_info <-- RecordCommitter <-- DebeziumOffsetManagement
                      (stored offset)         (stage, flush)      (static maps, a counter)

    Kafka --> Kafka Connect --> ClickHouseSinkTask.put --> records --> worker --> ClickHouse
                     ^            (deduplicator, convert)                |         tables
                     +---- preCommit <---- durablyInsertedOffsets <------+

                                   around the lightweight connector

    main, REST API, monitor --> the static capture: stop, start, restart
    postgres_dumper: position --> copies of the tables --> stored offset --> the connector
    top_level_postgres_checksum: pause the standby, pin a snapshot, wait for the offset,
                                 compare, resume the standby

### 1.2 Components

| Component | Code | State | Operations | What makes it correct |
|---|---|---|---|---|
| Change event capture | `LW/cdc/DebeziumChangeEventCapture` | position of the engine, retries, the sequence number and its anchor (static), the batch under construction | `handleChangeEventBatch`, `appendToRecords`, `commitControlRecordOffset`, `drainBeforeDDL`, `performDDLOperation`, completion callback, `setup`, `stop` | nothing read is lost; DDLs and rows keep their order; the offset never passes what is unwritten; versions order the rows of a key |
| Offset management | `SC/executor/DebeziumOffsetManagement` | `inFlightBatches`, `completedBatches` (static, keyed by the timestamp range of a batch), `outstandingBatches` | `addToBatchTimestamps`, `checkIfBatchCanBeCommitted`, `acknowledgeRecords`, `hasUnwrittenBatches` | at-least-once; no offset before its rows; the counter returns to zero |
| Batch worker | `SC/executor/ClickHouseBatchRunnable` | `currentBatch`, cached writers, its schedule | `run`, `runLegacyMode`, `processBatch`, `processRecordsByTopic`, `handleException` | a batch is retried until it is written, parked or fatally dropped; never acknowledged early |
| Batch executor | `SC/executor/ClickHouseBatchExecutor` | `isPaused`, `activeBatches` | `pause`, `resume`, `beforeExecute`, `afterExecute`, `awaitQuiescent` | nobody writes while a DDL is applied; the pause ends |
| Cache invalidation | `SC/db/CacheInvalidationManager` | a version for each `database.table` | `invalidateTable`, `getVersion` | no writer keeps columns from before a DDL that marked its table |
| Row versions | `handleChangeEventBatch`, `SC/model/ClickHouseStruct` | sequence number, anchor | one step for each record | the last change of a key outranks the others, also after redelivery |
| DDL application | `LW/cdc/DebeziumChangeEventCapture.performDDLOperation` | retries | parse, execute, invalidate, acknowledge | applied once, at its place in the log |
| DDL translation | `LW/ddl/parser/` | none between statements | a listener over a generated grammar | the translated statement makes the same change |
| Record parsing, conversion | `LW/parser/`, `SC/converters/`, `SC/metadata/` | none | conversions | values are kept |
| Grouping and batch insert | `SC/db/batch/` | the lists of a batch | `groupQueryWithRecords`, `addToPreparedStatementBatch`, `executePreparedStatement` | after a batch the table shows what the source has |
| Single threaded writer | `SC/executor/ClickHouseBatchWriter` | its writers | `persistRecords` | as the worker, without a queue |
| Kafka sink task | `SC/ClickHouseSinkTask` | queue, watermarks, schedule | `start`, `open`, `close`, `put`, `preCommit`, `stop` | the committed offset never passes a row that is not inserted |
| Deduplication | `SC/deduplicator/DeDuplicator` | pool of topics, queue of keys | `isNew` | drops only what was delivered before |
| Table metadata and writers | `SC/db/DbWriter`, `SC/db/DBMetadata` | columns of a table | constructor, `wasTableMetaDataRetrieved` | a writer has the columns of the table |
| Connection pool | `SC/db/HikariDbSource` | a pool for each database | `getInstance`, `close` | one pool for each database |
| Offset and schema history storage | `LW/cdc/DebeziumOffsetStorage`, `LW/cdc/DebeziumJdbcStorageOperations` | rows of `replica_source_info` | read, update, delete | an edit takes effect |
| Lifecycle, REST API, monitor | `LW/ClickHouseDebeziumEmbeddedApplication`, `LW/api/` | the static capture, a timer, the flag that replication is running | start, stop, restart | one engine at a time; a stopped capture stays stopped; a start ends with an engine; nothing is lost on the way |
| Replication history | `SC/history/BinLogHistory` | history tables | insert of a batch | best effort |
| Error classification | `SC/common/ClickHouseErrorClassifier` | none | code to category | fatal errors stop, others are retried |
| Keyless table preflight | `LW/cdc/KeylessTablePreflight` | none | a report at start | reports only |
| Go client | `src/sink-connector-client` | none | REST calls | passes the call on |
| PostgreSQL dump and load | `PY/db_dump/postgres_dumper` | position, load jobs, the stored offset | capture, prepare, plan, copy, store | copy and replay together give the table of the source |
| Comparison with PostgreSQL | `PY/db_compare/top_level_postgres_checksum` | what it has paused, snapshot, position | pause, pin, wait, read, resume | no false alarm; what it pauses is resumed |
| Other Python tools | `src/sink-connector/python` | files | counts, checksums and dumps of MySQL | offline |
| Deployment | `src/deploy`, `src/Dockerfile` | configuration | none | none |

### 1.3 What is hard here

- **Interleavings.** The Debezium thread, up to `thread.pool.size` workers (10 by
  default), the REST server and a monitor share static maps, a counter, a queue and
  a pause flag. Some of it is under the monitor of a class, some under no lock: a
  batch is polled and registered in two steps, the pipeline is found quiescent and
  an offset committed in two steps, a worker looks at the pause flag and counts
  itself in two steps, a table's version and its columns are read in two steps.
- **Order.** Workers finish batches out of order; the lists of a batch are executed
  in the order of a hash map; a row may be delivered again after its successor.
- **Failure and restart.** A chunk, a batch, a DDL statement, a flush or the engine
  may fail; a failed batch stays with its worker; a fatal error ends the schedule of
  one worker. After a crash everything resumes from the committed offset.
- **Retries and deadlines.** A parked batch is written again and may be acknowledged
  twice; the drain before a DDL has a deadline; a DDL whose offset cannot be flushed
  runs again; Kafka Connect puts again what `put` refused.
- **Hand-offs.** A table is copied in parts while it changes, and replay begins at one
  position; a capture is stopped while its workers write, and the next one shares their
  maps; a comparison pauses a standby that others use too.
- **Progress.** A counter that is not given back, a pause that is not ended, a batch
  parked behind one that will never be written: each stops replication in silence.

`PROJECT.json` lists each of these hazards at its line, with the properties that
would catch it going wrong.

## 2. The modules

| Module | Models | Extended by |
|---|---|---|
| `AtLeastOnceDelivery` | the promise about offsets, abstractly | instanced by `BatchPipeline` and `KafkaSinkTask` |
| `BatchPipeline` | hand-over, workers, offset management, restarts of the engine, crashes | `MCBatchPipeline`, `BatchPipelineProofs` |
| `DdlBarrier` | DDLs among rows: drain, pause, apply, stale writers, resume | `MCDdlBarrier`, `DdlBarrierProofs` |
| `VersionSequence` | the `_version` of rows, through restarts and redelivery | `MCVersionSequence`, `VersionSequenceProofs` |
| `TableReplica` | how a batch becomes rows of a ReplacingMergeTree | `MCTableReplica`, `TableReplicaProofs` |
| `KafkaSinkTask` | tasks of Kafka Connect, their workers, what may be committed | `MCKafkaSinkTask`, `KafkaSinkTaskProofs` |
| `CaptureLifecycle` | stops, starts and restarts of captures in one process, with the state they share | `MCCaptureLifecycle`, `CaptureLifecycleProofs` |
| `SnapshotHandOff` | copies of live PostgreSQL tables, and the connector that takes over | `MCSnapshotHandOff`, `SnapshotHandOffProofs` |
| `ChecksumSnapshot` | comparisons that pause the standby and read two databases that change | `MCChecksumSnapshot`, `ChecksumSnapshotProofs` |

The `MC` modules only add values of constants and symmetry sets.

### 2.1 BatchPipeline

A batch is its position in the source log and the range of the timestamps of its
records, which is all that the offset management looks at. The rows of a batch are
one unit: a write that fails half way has not written the batch (`TableReplica` looks
inside).

| State | In the code |
|---|---|
| `nRead`, `resumed`, `clock` | the position of the Debezium engine, where it started, the time of its last record |
| `staged`, `committed` | offset in Debezium's `OffsetStorageWriter`, and in `replica_source_info` |
| `producer`, `numRetries` | where the Debezium thread is; restarts by the completion callback |
| `records`, `outstandingBatches` | the `LinkedBlockingQueue`, and the counter of `DebeziumOffsetManagement` |
| `inFlightBatches`, `completedBatches` | the static maps; `put` and `remove` are those of a map whose key is the range |
| `pc`, `currentBatch`, `toVisit` | a `ClickHouseBatchRunnable`; `toVisit` is what `completedBatches.forEach` has yet to visit |
| `written` | ClickHouse |
| `acked`, `discarded`, `crashes`, `resumed` | remembered by an observer |

`HandOff` is `handleChangeEventBatch` with `appendToRecords`; `CheckQuiescent` and
`CommitControlRecord` are the two halves of `commitControlRecordOffset`, between which
no lock is held. `EngineFails` is the completion callback; it leaves the queue, the
workers and the maps alone. A worker goes through `Poll`/`Retry`, `Register`
(`addToBatchTimestamps`, after the history rows), `WriteBatch`, then `Park` or
`Commit` (the two outcomes of `checkIfBatchCanBeCommitted`), `Visit` for each parked
batch, `Finish`. `Fail`, `FailFatally` and `FlushFails` are its errors. The steps from
`Commit` to `Finish` hold the monitor of the class (`Unlocked`); `Register` does not
take it. `Crash` keeps only `committed` and `written`.

`AtLeastOnceDelivery` is what the connectors promise of a log: records first reach
ClickHouse in the order of the log, records without a row aside, and a commit covers
what is written only. An offset may move back: that replays records.
`INSTANCE AtLeastOnceDelivery WITH ...` takes the batches of the pipeline for the records
and `written` and `committed` for the variables of the same name; `ImplementsDelivery`
says that the pipeline implements it.

The stream has no DDLs. The offset of a DDL is acknowledged by the Debezium thread,
without looking at the maps: acknowledged while a batch that failed waits for its next
run, it commits past that batch, even with one worker (section 6).

### 2.2 DdlBarrier

A position of the log is a row or a DDL of one table, a batch the set of the positions
of its rows.

| State | In the code |
|---|---|
| `producer`, `nRead`, `ddls`, `batch`, `numRetries` | the Debezium thread: reading, or where it is with a DDL |
| `records`, `isPaused`, `activeBatches` | the queue and `ClickHouseBatchExecutor` |
| `pc`, `currentBatch`, `seen`, `cached` | a worker: inside a task body or not, the writer it has cached, the version it has read for a writer under construction |
| `schema`, `tableVersions` | the table in ClickHouse, and the version of every `database.table` in `CacheInvalidationManager` |
| `applied`, `acked`, `written` | DDLs executed, DDLs whose offset is acknowledged, rows in ClickHouse |
| `failed`, `discarded`, `late`, `overdue`, `marked`, `halfDone`, `threw` | remembered by an observer |

`ReadRow`, `EndOfList` and `ReadDDL` are the loop over a list of Debezium;
`PauseWriters` and `AwaitQuiescent` the steps of `drainBeforeDDL`, each with its
deadline; `IgnoreDDL`, `ParseFails`, `ExecuteDDL`, `DDLFails`, `InvalidateTable`
`performDDLOperation` with its retries; `Resume` the call after it, which an exception
skips (`Throw`). A worker goes through `BeforeExecute`, `EnterBody`, `Poll`,
`LookUpWriter`, `BuildWriter`, `Flush`, `LeaveBody`; looking at `isPaused` and counting
itself in `activeBatches` are two steps, and so are reading the version of the table
and its columns. The constructor of a `DbWriter` swallows an error, and the writer is cached
without columns (`NotRetrieved`): it has them read before it inserts (`RefreshColumns`), or
the batch is left for another attempt (`Fail`). What the offset management does with a
batch only decides whether a worker keeps the batch that it has written.

There are two ways to the key of a table. A worker asks for the version of its own
(`WriterKey`): the database of its rows, or that of the replication history, after the
override, and the table of the topic. A DDL marks the tables that it is found to name
(`MarkedKeys`), in the database that it names, after the override; that may be no table,
also because an exception on the way is swallowed. `DdlDatabases` and `NamedTables` are
what may be found. The two need not be the same: `marked` remembers the schema at which a
DDL last marked the key of the workers, and `FreshWriter` speaks of the time when that is the
current one. Then no writer at the current version has old columns, and no worker inserts with
a writer of an earlier version. The comment of the code takes the keys to be the same, which
would do without `marked`; it is mistaken (section 6).

### 2.3 VersionSequence

A row is ranked by `_version = recordTs * 1000000 + sequenceNumber`. The sequence
number starts at the worth of half a second with the first record of a process, and
at the worth of a second when the time of the records is more than a second past the
anchor. The module follows the changes of one key: `Tick` and `Change` are the source;
`ReadSnapshotRow`, `ReadChange`, `ReadHeartbeat`, `ReadTombstone` are one round of
`handleChangeEventBatch` with the time that `getSourceTsFromChangeEvent` finds for the
record; `Write` writes what was read in any order; `Commit` takes the promise of
`AtLeastOnceDelivery` as given; `RestartEngine` keeps the static sequence,
`RestartProcess` does not.

Half a second, a second and a million are constants (`HalfSecond`, `Multiplier`), with
the relations between them as `VersionAssumption`. `MaxRun < Multiplier`: fewer than a
million records follow one start of the sequence.

### 2.4 TableReplica

One worker and one table with a key and one column that may be null. `Insert`,
`Update` (which may change the key), `Delete`, `Truncate` happen at the source and are
captured with consecutive versions, as the records of one second are. `Poll` takes what was
captured as a batch; `groupQueryWithRecords` sorts it into lists, one for each INSERT
statement, by the columns that are not null; `WriteChunk` executes the next chunk of
the list that the hash map yields next (`order`, chosen once: the hash of a statement
does not change), `FailChunk` fails it, its rows in the table or not, and sends the
batch back to its first record; `FinishBatch` ends it. An update that moves its row
leaves a tombstone one version below (`updateRelocatesSortingKey`). A chunk is one block
of rows, and `Merge` is ReplacingMergeTree with FINAL after it: the highest version of a
key stays, and of equal ones the row inserted last.

`OrderMatters` names the batches for which the order of the lists decides the result.
They are excepted from `ReplicaMatches` and `NeverInvented`; section 6 has the first two.
None can be spared: without any one of the three, TLC finds a batch that goes wrong.

### 2.5 KafkaSinkTask

A *task* is one start of a task; a task that is restarted is another one, with its own
queue, watermarks and worker. Kafka Connect starts and stops tasks, gives each
partition to one task at a time, reads it from the committed offset (`Assign`) and
takes it away (`Revoke`). `Put` is `put` with the deduplicator and `convert`;
`PutFails` the exception after which Kafka Connect puts the same records again;
`PreCommit` the offsets that `preCommit` returns. The worker goes through `Poll`,
`InsertTopic` (for each topic, with the merge into `durablyInsertedOffsets`),
`FinishBatch`, or `Fail`, `FailFatally`. `Stop` leaves a worker in the middle of its
queue at work (`shutdown` does not interrupt it), next to the task that takes over;
`Die` is the end of the process or of the last run.

`Accepted` is `isNew`: with a policy other than `off` only the first record of a topic
is new. The queue of keys is never filled, so that the key of a record plays no part.
Rows are dropped this way that were never delivered, but the committed offset never
passes them.

Each partition is a log of `AtLeastOnceDelivery`: `Delivery(p)` instances it with the
records of the partition that have been inserted (and the tombstones and dropped
duplicates, which have no row to insert) and its committed offset; `ImplementsDelivery`
says that every step of the tasks is a step of each partition's promise, or leaves it
alone.

### 2.6 CaptureLifecycle

A *capture* is a `DebeziumChangeEventCapture`: an engine with its executor, a queue, a
worker. `Ask` is a request of the REST API or the timer; `Stop`, `AwaitWorkers`, `Close`,
`Closed` are `stop()`, a step for each wait, and each wait may end because its minute is
over; `Create`, `SetUpWorkers`, `SubmitEngine` are `start()` with `setup`. `EngineStarts`,
`HandOff`, `CommitControlRecord`, `EngineFails`, `RetryEngine`, `EngineEnds` are the engine
and its completion callback. The worker is that of `BatchPipeline` in fewer steps: the
write of a batch belongs to `Park` and `Commit`, the look at the maps and the commit of a
control record are one step, the end of a run belongs to `Finish`, and `Fail` and
`VisitFails` also stand for failing flushes. `inFlightBatches`, `completedBatches`,
`outstandingBatches` and `isReplicationRunning` are static in the code and shared by the
captures here. `recounted` remembers that a parked batch was acknowledged: the worker that
parked it releases it as well, so that the counter misses a batch from then on (section 6).

One assumption: an engine that was submitted begins to run within the minute in which
`stop()` waits for it. What an ended engine counted and read is reset, since nothing
looks at it again.

### 2.7 SnapshotHandOff

The source is a log of changes; the value of a row is the position of the change that
wrote it. `StartRun` captures the position (`get_standby_lsn`), `PrepareTable` drops or
truncates, `PlanTable` skips tables with data or cuts them into load jobs, `StartCopy`
begins a COPY, which reads the state committed at that moment, `FinishCopy` and
`BreakCopy` end it, `EndLoad` is the summary, `write_lsn_offset` stores the position. The
connector is external: it replays from the stored offset (`Replay`), stores offsets of its
own (`FlushOffset`), stops and is started again. Rows of the copy have version 0, replayed
ones a version that grows with their position, as in `VersionSequence`. The model takes
the connector to be stopped while a run loads, which is how the tools are used.

### 2.8 ChecksumSnapshot

A change is a position of the WAL; the standby, ClickHouse and the offset table each stand
at one. A run goes through the steps that `run_config` numbers: `CheckWal`, `PauseWal`,
`NoteWalPaused` (0), `BeginSnapshot` (1), `ReadLsn` (2), `CaughtUp` or `ProceedAnyway` (4),
`FlushFails` (4b), `ReadTable` by threads in any order (5), `Compare` (6, 7), `ResumeWal`
(8). `Raise` is an exception, an exit or a signal, all of which end in step 8, and `Kill`
an end without it. Two runs may overlap.

The standby is looked at, then paused, and then `wal_was_paused_by_us` set, which are three
steps. What ends a run between the last two leaves the standby paused: `forgotten`
remembers it. `/flush` and `/resume`, which a run that is told to hold the connector
requests of it, are endpoints that the REST API of the connector does not have: the request is
always refused, the run goes on, and there is nothing to resume (9). The connector applies
changes at any time.

## 3. The runs

| Run | Shows | Instance | Distinct states |
|---|---|---|---|
| `single_worker` | With one worker the pipeline implements `AtLeastOnceDelivery` through failures of every kind, a restart of the engine and a crash; whatever was delivered is acknowledged, and the pipeline comes to rest | 1 worker, 3 batches, 2 instants, queue of 2, 1 restart of the engine, 1 crash | 74 thousand |
| `worker_pool` | With two workers no offset is acknowledged before its rows, no batch falls out, the counter does not leak, no acknowledgement overtakes a registered older batch, workers that hold each other's batches back still get done, and the pipeline comes to rest | 2 workers, 2 batches, 2 instants, queue of 1 | 24 thousand |
| `pool_at_least_once` | Section 6: two workers are not at-least-once | 2 workers, 2 batches | (violation) |
| `pool_control_commit` | Section 6: the pipeline reads as quiescent while a batch is unwritten | 2 workers, 3 batches, 2 instants, queue of 2 | (violation) |
| `ddl_barrier` | A DDL lands after its rows, and once it has marked the table of the workers nobody inserts with the columns before it; the pause ends unless the DDL throws | 2 workers, 3 positions with a DDL anywhere, which names the table or does not, queue of 1, 2 attempts, a database that is overridden | 3.02 million |
| `versions` | A late or repeated delivery never ranks above a row half a second newer; without restarts of the process, heartbeats and snapshots the last change survives | 3 changes, a clock of 5 half seconds, 4 versions in a tick, 1 restart | 1.55 million |
| `replica` | After every batch ClickHouse shows the table of the source, and in between never a row that the source did not have | 2 keys, 2 values and null, 4 changes, chunks of 2, 1 error | 471 thousand |
| `kafka_task` | What Kafka is told to commit is in ClickHouse, every partition gets `AtLeastOnceDelivery`, and a commit goes back only where a partition has returned to a task | 2 tasks, 2 partitions of two topics with 3 records and 1, a tombstone, queue of 1, 3 assignments, with and without deduplication | 1.27 million |
| `lifecycle` | Restarts lose nothing through the state that captures share, a stopped capture stays stopped, there is one engine and the flag tells of it, a start ends with an engine, and the pipelines come to rest | 2 captures of one worker, the main thread and one request, 2 records, queue of 1, 1 fault | 112 thousand |
| `snapshot_handoff` | No change falls between the copies and the replay, none of the copies outranks a change, and the table becomes that of the source, also after a run is repeated | 1 table of 2 rows in up to 2 segments, 2 threads, 2 changes, 2 runs, 1 stop of the connector, 2 offsets of a process | 539 thousand |
| `load_masked` | Section 6 | 1 table of 2 rows, 1 change, 1 run | (violation) |
| `checksum` | A replay that a run has paused is resumed, however runs end and overlap; a run that saw the offset reach its snapshot finds nothing missing | 2 runs, 2 tables, 1 change, 2 faults | 237 thousand |

**Why the bounds are enough for what they show.** Every action and every disjunct of
every next-state relation fires in a passing run. Two batches and two workers park one
behind the other, and two instants make ranges that are equal, overlap or are apart; the
safety properties of `worker_pool` are proved for any pool, and were also checked with three
workers and three batches (1.57 million states), where one registers while a second visits
the parked batches and a third is parked. A queue of one or two fills. Three
positions put rows before and after a DDL, two workers one inside a task body while the
other spins; one DDL that names the table or does not marks the key of the workers or leaves it. A clock of five half seconds passes the reset of the sequence (more than
one whole second) with changes on both sides, and a million versions per millisecond
are scaled down to four per tick with at most three records on a seed, which keeps the
order of the terms: `VersionAssumption` is all that the proof uses. Four changes put a
row at a key, move it, and put another row where it was, in one batch or two; chunks of
two split a list. Two tasks and three assignments let a partition go away and come back
with the watermark of the first stay. Two captures and one request put the workers of a stopped capture
next to those of its successor; the safety properties of `lifecycle` were also checked with
two faults (605 thousand states), with two requests (2.6 million), and with three captures
and two threads whose requests overlap. With two records the exception of its `AtLeastOnce`
does not decide anything; the theorem is about any number of them. Two rows make two segments with a bound between
them, two changes one before and one after a copy, or both during it. In `checksum` one
change is enough to tell the positions apart, two tables to read at two moments, two runs
to pause for and resume under each other.

**Deadlock** is not checked: in every module the source may fall silent, a fatal
error really ends the schedule of a worker, and runs and requests end.

**Mutants.** Every property of a passing run is violated when a definition of the code
is changed the way a plausible bug would; the changed definitions stand next to the
ones they change, marked *Mutant*.

## 4. Fairness

- `BatchPipeline.FairSpec`: the Debezium thread and the runnables are scheduled at a
  fixed rate (`scheduleAtFixedRate`), so their unconditional steps are weakly fair. A
  write, a history row and a flush may fail, and then the worker is back at the start
  of the batch and the step is enabled again and again but not always: errors that are
  not fatal are not permanent, which is strong fairness of `Register`, `WriteBatch`,
  `Park \/ Commit` and `Visit`. Failures, crashes and restarts have no fairness, and
  what follows a fatal error is excepted from the properties (`discarded`).
- `DdlBarrier.FairSpec`: only the barrier of the Debezium thread is fair. The pause must
  end whatever the workers do, hung ones included: that is what the deadlines are for.
- `CaptureLifecycle.FairSpec`: the threads of requests, the engines and the workers are
  scheduled; the worker as in `BatchPipeline`. Nobody has to ask for anything, and engines
  need not deliver.
- `SnapshotHandOff.FairSpec`: a run that has begun goes on, or dies; the connector is started
  after a run that ended well and replays. Nobody has to begin a run.
- `ChecksumSnapshot.FairSpec`: a run that has begun goes on, since each of its waits has a
  deadline. The source, the standby and the connector have no fairness.
- `VersionSequence`, `TableReplica` and `KafkaSinkTask` state safety only. After a fatal
  error a Kafka task goes on putting until its queue is full and then waits for ever;
  there is no progress property to state of it.

## 5. The proofs

TLAPS checks every proof to the last leaf, for every value of the constants, from the
named assumptions of the modules only: `PipelineAssumption` and `NoBatchAssumption`
(bounds are numbers, the queue holds a batch, the pool is finite, null is no batch),
`BarrierAssumption` (the same of the barrier, and databases and tables are among the names),
`VersionAssumption` (the seeds are worth a second and half a second, and fewer records
follow a seed than a unit of time has versions), `SinkTaskAssumption` (null is neither an
offset nor a batch), `LifecycleAssumption` and the `NoBatchAssumption` of its module (bounds
are numbers, the queue holds a batch, the main thread is one of the threads, null is no
batch), `ReplicaAssumption` and `NoRowAssumption` (bounds are numbers, a chunk is not empty,
null is no value, no image is no row), `HandOffAssumption` and `NothingAssumption` (keys are
integers, bounds are numbers, no row is not a number, `Nothing` is neither a version nor an
offset), `ChecksumAssumption` (bounds are numbers, `Unread` is no position). TLC evaluates them
in every run of their module.

| Theorem | States | Strengthening and argument |
|---|---|---|
| `BatchPipelineProofs!TypeCorrect` | `Spec => []TypeOK` | with `HoldsBatch`: a worker in the middle of a batch has one |
| `BatchPipelineProofs!OnlyWrittenIsAcknowledged` | `Spec => []AckedWritten`, any pool | `AckInv`: what a worker past its writes holds, what is parked and what a `forEach` has yet to visit is written |
| `BatchPipelineProofs!NoBatchIsForgotten` | `Spec => []NoBatchUntracked`, any pool | inductive with `AckInv`: a worker that finishes has acknowledged its batch |
| `BatchPipelineProofs!CounterIsBounded` | `Spec => []CounterNeverLeaks`, any pool | `CounterInv`: what is given back was counted, and a worker lets go of a batch only where it gives it back, or parks it and keeps it |
| `BatchPipelineProofs!NoneOvertakes` | `Spec => NoOvertaking`, any pool | `OrderInv`: while the first engine runs, positions and timestamps of what is queued, held and parked are ordered alike, so that an older batch in flight is one that `checkIfThereAreInflightRequests` finds, or has the same range; `VisitInv`: what a `forEach` has yet to visit is parked or was |
| `BatchPipelineProofs!OneWorkerIsAtLeastOnce` | one worker: `Spec => []AtLeastOnce` | `SoloInv`: batches stand in line between the acknowledged and the read ones, in the order of the source; nothing is ever parked; the counter is exact; so a quiescent pipeline has written what was read |
| `BatchPipelineProofs!OneWorkerImplementsDelivery` | one worker: `Spec => ImplementsDelivery` | from `SoloInv`, each step maps to a `Write`, a `Commit` or a stutter of `AtLeastOnceDelivery` |
| `DdlBarrierProofs!TypeCorrect` | `Spec => []TypeOK` | with the meaning of the counter: `activeBatches` is the number of workers inside a task body |
| `DdlBarrierProofs!DdlsLandInPlace` | `Spec => []DdlAfterItsRows` | `DrainInv`: a row that was read is queued, held, written, failed or dropped (`Placed`), and outside a task body a worker holds at most a batch that has failed (`OutOfBody`); so an empty queue and a counter at zero leave no other row behind |
| `DdlBarrierProofs!AlwaysFresh` | `Spec => []FreshWriter`, any names and keys | `FreshInv`: columns change before the version, and the version is read before the columns, so no writer is ahead of the table (`NotAhead`), and the step that raises the version leaves none current; while a DDL is applied without a timeout no worker inserts a batch that has not failed (`Quiet`), so that every worker that inserts afterwards has looked its writer up since (`LookedUp`) |
| `VersionSequenceProofs!TypeCorrect` | `Spec => []TypeOK` | the sequence number stays between the lower seed and a run past the higher one |
| `VersionSequenceProofs!NeverOutranked` | `Spec => []OlderNeverOutranks` | `DatedInv`: a version tells the time of its row up to half a second, whichever process gave it |
| `VersionSequenceProofs!LastChangeWins` | `Spec => []LatestSurvives` | `LatestInv`: commit times follow the log, the sequence number grows between two resets of its anchor, and a reset is worth more than a run of records, so that of two rows the one read last for the latest change ranks first (`Recent`, `Beaten`, `Beatable`) |
| `TableReplicaProofs!TypeCorrect` | `Spec => []TypeOK` | with `BatchInv`: the records of a batch are the last ones captured, in the order of their versions, with the images of their operation |
| `TableReplicaProofs!NothingInvented` | `Spec => []NeverInvented` | `TableInv`, `HeldInv`: a row of the table is from an earlier batch, or is what a record of this one stages in whichever of its lists, and a live one shows an image that the source has had |
| `TableReplicaProofs!ReplicaIsFaithful` | `Spec => []ReplicaMatches` | `DoneInv`, below |
| `KafkaSinkTaskProofs!TypeCorrect` | `Spec => []TypeOK` | with `WriterHasBatch` |
| `KafkaSinkTaskProofs!NothingIsSkipped` | `Spec => []CommittedIsInserted` | `LandedInv`, below |
| `KafkaSinkTaskProofs!CommitsAdvance` | `Spec => CommitAdvances` | `AdvanceInv`: a partition has one owner, what is with a task has a watermark, and the next commit of an owner is not behind the last, unless the partition came back |
| `KafkaSinkTaskProofs!SinkTaskImplementsDelivery` | `Spec => ImplementsDelivery` | from `LandedInv`, for every partition each step maps to a `Write`, a `Commit` or a stutter of `AtLeastOnceDelivery` |
| `CaptureLifecycleProofs!TypeCorrect` | `Spec => []TypeOK` | with `InHands`: a thread in the middle of a request has a capture, a worker in the middle of a batch has it |
| `CaptureLifecycleProofs!StopsForGood` | `Spec => []StoppedForGood` | `StopInv`: a stop shuts the thread of the engine down before it waits, and asks the engine to end only when none is submitted; every later submission is rejected |
| `CaptureLifecycleProofs!OneEngineReads` | `Spec => []OneEngine` | with `StopInv`, `OneInv`: without an overlap one thread is at a request, with the current capture, and every older capture is done before the next is made |
| `CaptureLifecycleProofs!FlagIsTrue` | `Spec => []FlagTells` | from `OneInv`: the flag follows the engine of the current capture, which alone can read |
| `CaptureLifecycleProofs!RestartsLoseNothing` | `Spec => []AtLeastOnce` | `LossInv`: every batch of every capture is accounted for by the maps and the counter that they share, and what is acknowledged has only written records before it, until a parked batch is released twice |
| `SnapshotHandOffProofs!TypeCorrect` | `Spec => []TypeOK` | with `Shape`: a stored offset is one of the log, a run that ended well has stored one, the connector runs after such a run only, and a COPY runs only while a load does |
| `SnapshotHandOffProofs!NothingIsMissed` | `Spec => []NeverBehind` | `OffsetInv`: the stored offset is that of the run, or the connector has moved it on; `VersionInv`: the rows of copies rank below those of the replay; `RowInv`, `LoadInv`: a row shows the value at its copy, or at the last change replayed, and the segments cover the keys (`SegmentsCover`) |
| `ChecksumSnapshotProofs!TypeCorrect` | `Spec => []TypeOK` | inductive as it stands |
| `ChecksumSnapshotProofs!WaitedSeesSnapshot` | `Spec => []NoFalseAlarm` | `WaitedInv`: ClickHouse is read only past the waits, the position waited for is not before the snapshot, and the stored offset only grows |
| `ChecksumSnapshotProofs!EverythingIsResumed` | `Spec => []NothingLeftPaused` | `PausedInv`: a paused replay has a run that has noted it, or is about to, or is in `forgotten` |

`CommittedIsInserted` is the end of a chain, and is not inductive without it: the
committed offset comes from a watermark (`WatermarkLanded`) or, before the first record, from
the position (`StartLanded`); a watermark is raised to a record of the batch in the hands of
the worker, before which nothing is missing but in its own batch (`HandInOrder`), and
what is in the same batch and partition is of the same topic and goes in with the same
insert; the batch comes from the queue, before which nothing is missing but ahead of it
(`QueueInOrder`); and what is put is the next record (`PositionInOrder`), or, with the
deduplicator on, the first of a topic of which nothing was dropped yet. A batch may
be let go because its done topics are in (`DoneTopics`), and a dead worker never polls again.
TLC has checked each of these invariants on the instance of `kafka_task`, and on one topic
over both partitions, before the proof.

`ReplicaMatches` speaks of the end of a batch, and says nothing half way, when some lists
are done and others are not. `DoneInv` does, key by key: once the last record at a key
has left its final list (the one of its after-image, or of its before-image when it leaves the
key), the table has its row there. A chunk with that record writes the row, and no other
row outlives it: the others are of older records, which stand before it in the list
(`InLists`), and the tombstone one version below its record is still no lower than theirs
(`LastIsWritten`). A chunk without it can only bring rows of older records. The one that
could be as high as a tombstone is of the record right before, which found and left the
row that moves (`Chained`), so that it belongs to the same list and has left it first
(`Closed`), or it emptied the row, which `OrderMatters` excepts (`LastStays`). A key that the
batch does not touch shows what it did (`UntouchedInv`), and the source has what the last
record at a key says (`SourceTells`). So `FinishBatch` finds the two tables equal. The order
of the hash map, the size of a chunk and the number of errors are arbitrary. TLC has
checked every conjunct on the instance of `replica` before the proof. The lists of a batch are
a recursive function, whose rounds the proof follows by the well-foundedness of the numbers
(`EveryNumber`, `GroupedRounds`).

What stays with TLC:

- Liveness: `EventuallyAcked` and `EventuallyQuiescent` of `BatchPipeline`, `PauseEnds` of
  `DdlBarrier`, `EngineComes` and `EventuallyQuiescent` of `CaptureLifecycle`, `PausesEnd` of
  `ChecksumSnapshot`, `EventuallyExact` of `SnapshotHandOff`. They rest on fairness, hence on
  ENABLED, which TLAPS does not expand here.
- The violations of section 6, which are behaviours, not theorems.

Every safety property that a run expects to hold, the action properties and the two
refinements of `AtLeastOnceDelivery` included, is a theorem, for every value of the
constants: `AtLeastOnce` and `ImplementsDelivery` of `BatchPipeline` with one worker, as in their
run, because with more they are false (section 6).

## 6. Disagreements with the code's own words

Three runs end with a violation of ONE property, which states what a comment of the code
says. `PROJECT.json`, `findings`, quotes the lines.

1. **`pool_at_least_once`**: with more than one worker delivery is not at-least-once. A
   worker polls a batch, writes its history rows and registers it only then; another
   worker that finishes a newer batch in between sees nothing older in flight and commits
   past it. A crash then loses the older batch. `NoOvertaking` shows
   the other side: an older batch that is registered holds newer ones back, equal timestamp
   ranges aside, as long as the engine was not restarted: a new engine delivers older batches
   again, later, with other ranges.
2. **`pool_control_commit`**: the comment of `hasUnwrittenBatches` promises a predicate that "can
   only ever withhold a commit, never permit an unsafe one". A worker that parks its batch
   keeps it and writes it again; in the meantime another worker finds it parked and
   acknowledges it. Both give the counter back, the second time for a batch that another
   worker has polled and not registered: the counter is zero, the maps are empty, and the
   offset of a heartbeat passes a batch that is not written. With one worker nothing is ever
   parked, and `OneWorkerIsAtLeastOnce` covers the control records too. Two captures that
   overlap have two workers: with three records (`MaxPos = 3` in `lifecycle`) TLC finds the
   same there, and the `AtLeastOnce` of `CaptureLifecycle` excepts it (`recounted`).
3. **`load_masked`**: a COPY that breaks off is taken for a complete load. `load_table` sets
   `pipefail` so that a failure of psql becomes the exit code, but the command of
   clickhouse-client ends in `; rm -f`, whose exit code is the one it sees. The run then
   stores its offset, and the missing rows never come.

The passing runs except the following on purpose; without the exception TLC finds each of
them as a violation.

4. `DdlAfterItsRows` excepts the rows of a batch that has failed. `drainBeforeDDL` promises
   that every record read before the DDL is in ClickHouse; a worker whose batch failed has
   left its task body, so the queue is empty and nobody is active, but the batch waits
   for its next run. Such a batch may come back in the middle of a DDL, with a writer from
   before it: `FreshWriter` excepts it too, and a DDL that fails before it marks the table.
5. `FreshWriter` excepts a DDL that does not mark the table of the workers. The comment on the
   invalidation says that "the invalidation key must match the key the batch consumers use".
   With replication history it does not: a worker looks up the database of the history, where
   the DDL is applied too, and the DDL marks the table in the database of the source. A
   cached writer then goes on with the columns before the DDL. Nor does it match when a topic is
   mapped to a table of another name, when `getTableNamesFromDDL` finds no table, and when an
   exception on the way is swallowed. Of the states where the Debezium thread
   is back at reading, no DDL was left half done and no drain timed out, TLC finds one in which
   a worker inserts with the columns before a DDL, with one worker, `NamedTables = {{t}}`
   and `HistoryEnabled = TRUE`; with `FALSE` it finds none.
6. `PauseEnds` excepts a DDL that ends in an exception: `resume()` is outside any `finally`. A
   DDL that the parser refuses, or whose attempts are used up, leaves the executor paused,
   and every batch after it waits, against the comment on the deadline ("Blocking
   replication indefinitely would be worse").
7. `LatestSurvives` excepts heartbeats. A heartbeat carries the time at which it was made.
   When the connector lags it moves the anchor past changes that are still to come, and
   starts the sequence over between two changes of one second: they get the same version, or,
   after more changes, inverted ones, although the comment on the anchor says that they "can
   never receive an identical or inverted" one. TLC finds two equal ones with a clock of 9 half
   seconds and no restart, and none without heartbeats. `OlderNeverOutranks` bounds the
   inversion to half a second.
8. `OrderMatters` of `TableReplica` excepts an update that turns a null into a value: it is
   written by two INSERT statements, one without the column, at the same version. When the
   hash map yields that one last, the value is lost for good. It also excepts a TRUNCATE
   with other rows in its batch, which runs before or after all of them.
9. `OneEngine`, `FlagTells` and `EngineComes` except requests that overlap (`raced`). Nothing
   serialises `/start`, `/restart` and the timer: two of them stop the same capture and start
   one each, both engines read from the same offset, and only one can be stopped again. An
   engine that takes longer to close than `close()` waits has the same effect, and lowers
   the flag of its successor when it ends.
10. `EventuallyQuiescent` of `CaptureLifecycle` excepts batches that a stop has left behind
    (`Forsaken`). The maps and the counter are static and nothing resets them: such a batch
    stays counted for the life of the process, so that no control record is committed any
    more, and an entry in `inFlightBatches` holds back newer batches.
11. `NeverBehind` excepts tables that had data before their load. A repeated run with
    `--skip_existing` keeps such a table and stores a newer position than that of its copy: the
    changes in between are never replayed.
12. `NothingLeftPaused` and `PausesEnd` except a failed resume, a kill, and an end between a pause
    and its note, `NoFalseAlarm` a run that has not seen the offset: the wait proceeds when it
    times out, and with the replay paused the offset is not compared at all.

The comments of the comparison say two things that no run has a property for, because they are
false, as TLC finds with one run and with two. "Connector is paused, so no new
writes arrive during this window": nothing pauses the connector, which has no `/flush`, and a run
that cannot hold it goes on, so that two tables may be read in two states. "WAL replay is still
paused": two comparisons that both look at the standby before either pauses it both take the
pause for theirs, and the first to end resumes the replay under the other.

Noted while modelling, without a run: a deduplication policy other than `off` drops every
record of a topic after the first; the row of a snapshot gets the time at which it was read
and may rank above an update committed before that, within half a second; the difference
of a tombstone's time (0) to the anchor overflows an `int` in 2038; more than a million
records on one start of the sequence carry it into the next millisecond; a fatal error
leaves the entry of its batch in `inFlightBatches`, behind which other workers park their
batches for ever; a `put` that is interrupted drops its batch, and only because nothing but the
close of the engine interrupts it does no later offset commit past it;
in single threaded mode there is no executor to pause, so that a DDL is never applied; the
monitor reads the stored timestamp and keeps it only if it is -1, so that it restarts on its
first tick, and its exception ends the timer; `POST /lsn` does not look at the flag that
`POST /binlog` heeds; the offset row of the dumper has sequence 1 and loses to a row with
a higher one that an earlier connector has left; the strategies `psql-copy` and `pgdump` call
their helpers with keyword arguments that these do not have.

## 7. What is not modelled

- In `BatchPipeline`: DDLs in the stream, the single threaded mode, `runWithHashRouting`
  (dead code), the contents of the history tables.
- In `DdlBarrier`: the rows of more than one table, and what the DDL does (the translation). The
  keys of other tables are there, for a DDL to mark.
- In `VersionSequence`: a restart in the middle of a snapshot, more than a million records
  on one start of the sequence, the `int` cast in 2038.
- In `TableReplica`: CollapsingMergeTree, the replication history mode, schema evolution,
  the conversion of values; records of one second only.
- In `KafkaSinkTask`: which records of one topic over two partitions the deduplicator
  takes first is in the model and not in the run (each topic has one partition there);
  `new` and `old` behave alike.
- In `CaptureLifecycle`: DDLs, the edits of a stored offset (`/binlog`, `/lsn`, `/offsets`), the
  condition under which the monitor restarts, a crash (`BatchPipeline` has it).
- In `SnapshotHandOff`: a slot that is behind the standby from which the position is read, COPY
  processes that outlive a killed run, the strategies other than streaming.
- In `ChecksumSnapshot`: a connector with endpoints that this repository does not have, the
  legacy mode, and what is compared (counts, checksums).
- **DDL translation, record parsing and type conversion**: text to text without state.
  They are candidates for pure operators over bounded inputs.
- **Single threaded writer, connection pool, edits of the stored offset**: in the plan.
- **Preflight report, Go client, the other Python tools, deployment**: no part of
  replication. The parsers under `db_load/mysql_parser` and `db_load/postgres_parser` are
  generated by ANTLR and make up more than nine tenths of the lines of Python; they are
  tables of a parser and have nothing to model. Nearly all of the definitions here stand for
  Java, and those of `SnapshotHandOff` and `ChecksumSnapshot` for the Python that has
  control flow of its own.

## 8. Plan

Done, in this order: `BatchPipeline` with `AtLeastOnceDelivery` (the behaviour the
system is for), `DdlBarrier`, `VersionSequence`, `TableReplica`, `KafkaSinkTask`;
`CaptureLifecycle`, `SnapshotHandOff`, `ChecksumSnapshot`; the second use of
`AtLeastOnceDelivery`; their runs; the proofs of section 5.

Next modules:

1. `BatchPipeline` with DDLs: composition of the barrier and the offset management, for
   the offset that a DDL commits past a failed batch.
2. `SingleThreadedWriter`: `ClickHouseBatchWriter.persistRecords`, as another
   implementation of `AtLeastOnceDelivery`.
3. Operator edits of the stored offset, in `CaptureLifecycle`.
4. Pure operators: precision of temporal types and DDL translation of column types,
   against reference definitions.

Next proofs: no safety property of a run is left without one. What is worth adding
comes with the modules above (that the single threaded writer implements
`AtLeastOnceDelivery`), and with weaker assumptions: `LastChangeWins` across a heartbeat, and
the replica with records of more than one second.
