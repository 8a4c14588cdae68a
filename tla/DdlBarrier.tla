------------------------------ MODULE DdlBarrier -------------------------------
(******************************************************************************)
(* How a schema change is ordered with the rows around it.                    *)
(*                                                                            *)
(*   - The Debezium thread (cdc/DebeziumChangeEventCapture) reads the log of  *)
(*     the source, hands the rows before a DDL over to the workers, drains    *)
(*     them (drainBeforeDDL), applies the DDL (performDDLOperation), marks    *)
(*     the cached writers stale and lets the workers go on.                   *)
(*   - executor/ClickHouseBatchExecutor holds the workers back while paused,  *)
(*     and counts the ones inside a task body.                                *)
(*   - A worker (executor/ClickHouseBatchRunnable) writes its batch with the  *)
(*     columns of a cached DbWriter, which it rebuilds when the version in    *)
(*     db/CacheInvalidationManager is not the one it was built at.            *)
(*                                                                            *)
(* A position of the log is a row or a DDL of one table.  A batch is the set  *)
(* of the positions of its rows.  What the offset management does with a      *)
(* batch is in BatchPipeline; here it only decides whether a worker keeps the *)
(* batch it has written.                                                      *)
(******************************************************************************)
EXTENDS Integers, Sequences, FiniteSets

CONSTANTS
    Workers,            \* the runnables scheduled on the pool
    MaxPos,             \* bound: positions in the log of the source
    MaxDDLs,            \* bound: DDLs among them
    MaxQueueSize,       \* sink.connector.max.queue.size
    MAX_RETRIES,        \* errors.max.retries: attempts at a DDL
    RetryDDL,           \* ddl.retry
    \* Names, under which DDLs and workers know the table
    Databases,
    Tables,
    SourceDatabase,     \* the database of its rows: ClickHouseStruct.getDatabase
    TopicTable,         \* getTableFromTopic
    DdlDatabases,       \* what getDatabaseName may find in a DDL
    NamedTables,        \* what getTableNamesFromDDL may find in a DDL
    OverrideMap,        \* clickhouse.database.override.map
    HistoryEnabled,     \* replication.history.enable
    HistoryDatabase     \* replication.history.database.name

\* The queue holds a batch at least; the bounds are numbers, the names are names.
ASSUME BarrierAssumption ==
    /\ IsFiniteSet(Workers)
    /\ MaxPos \in Nat
    /\ MaxDDLs \in Nat
    /\ MaxQueueSize \in Nat \ {0}
    /\ MAX_RETRIES \in Nat
    /\ RetryDDL \in BOOLEAN
    /\ {SourceDatabase, HistoryDatabase} \cup DdlDatabases \subseteq Databases
    /\ TopicTable \in Tables
    /\ NamedTables \subseteq SUBSET Tables
    /\ \A db \in DOMAIN OverrideMap : OverrideMap[db] \in Databases
    /\ HistoryEnabled \in BOOLEAN

VARIABLES
    \* The Debezium thread
    producer,       \* "reading", or where it is with the DDL at nRead
    nRead,          \* last position read
    ddls,           \* positions read that are DDLs
    batch,          \* rows read and not handed over yet
    numRetries,     \* failed attempts at this DDL
    \* ClickHouseBatchExecutor, and the queue
    records,
    isPaused,
    activeBatches,
    \* ClickHouseBatchRunnable
    pc,
    currentBatch,   \* {} when it has none
    seen,           \* table version read for the writer in construction, or 0
    cached,         \* its DbWriter: version and columns, NoWriter at first
    \* ClickHouse and CacheInvalidationManager
    schema,         \* schema changes executed
    tableVersions,  \* a version for each database and table
    written,        \* rows in ClickHouse
    applied,        \* DDLs executed with success
    acked,          \* DDLs whose offset is acknowledged
    \* What an observer remembers
    failed,         \* rows of a batch that failed once
    discarded,      \* rows of a batch dropped with a fatal error
    late,           \* <<p, d>>: row p was first written after DDL d, which follows it
    overdue,        \* DDLs whose drain timed out
    marked,         \* the schema when a DDL last marked the table of the workers
    halfDone,       \* a DDL failed after some of its statements
    threw           \* a DDL ended in an exception

producerVars == <<nRead, ddls, batch>>
workerVars   == <<pc, currentBatch, seen, cached>>
tableVars    == <<schema, tableVersions, marked, applied, acked>>
rowVars      == <<written, failed, discarded, late>>
vars == <<producer, producerVars, numRetries, records, isPaused, activeBatches,
          workerVars, tableVars, rowVars, overdue, halfDone, threw>>

\* The columns of a writer whose metadata could not be retrieved.
NotRetrieved == -1

NoWriter == [version |-> -1, columns |-> NotRetrieved]
DbWriter == [version : Nat, columns : Nat \cup {NotRetrieved}]

Override(db) == IF db \in DOMAIN OverrideMap THEN OverrideMap[db] ELSE db

\* The "database.table" that a worker asks CacheInvalidationManager for.
WriterKey == <<Override(IF HistoryEnabled THEN HistoryDatabase ELSE SourceDatabase), TopicTable>>

\* getVersion, for the table of the workers.
TableVersion == tableVersions[WriterKey]

Init ==
    /\ producer = "reading"
    /\ nRead = 0
    /\ ddls = {}
    /\ batch = {}
    /\ numRetries = 0
    /\ records = <<>>
    /\ isPaused = FALSE
    /\ activeBatches = 0
    /\ pc = [w \in Workers |-> "due"]
    /\ currentBatch = [w \in Workers |-> {}]
    /\ seen = [w \in Workers |-> 0]
    /\ cached = [w \in Workers |-> NoWriter]
    /\ schema = 0
    /\ tableVersions = [key \in Databases \X Tables |-> 0]
    /\ marked = 0
    /\ written = {}
    /\ applied = {}
    /\ acked = {}
    /\ failed = {}
    /\ discarded = {}
    /\ late = {}
    /\ overdue = {}
    /\ halfDone = FALSE
    /\ threw = FALSE

--------------------------------------------------------------------------------
(* The Debezium thread: handleChangeEventBatch                                *)

ReadRow ==
    /\ producer = "reading"
    /\ nRead < MaxPos
    /\ nRead' = nRead + 1
    /\ batch' = batch \cup {nRead + 1}
    /\ UNCHANGED <<producer, ddls, numRetries, records, isPaused, activeBatches,
                   workerVars, tableVars, rowVars, overdue, halfDone, threw>>

\* appendToRecords; put blocks while the queue is full.
HandOver ==
    IF batch = {}
    THEN UNCHANGED <<records, batch>>
    ELSE /\ Len(records) < MaxQueueSize
         /\ records' = Append(records, batch)
         /\ batch' = {}

\* The end of the list that Debezium delivered.
EndOfList ==
    /\ producer = "reading"
    /\ batch # {}
    /\ HandOver
    /\ UNCHANGED <<producer, nRead, ddls, numRetries, isPaused, activeBatches,
                   workerVars, tableVars, rowVars, overdue, halfDone, threw>>

\* A DDL in the middle of the list: the rows before it are handed over first.
ReadDDL ==
    /\ producer = "reading"
    /\ nRead < MaxPos
    /\ Cardinality(ddls) < MaxDDLs
    /\ HandOver
    /\ nRead' = nRead + 1
    /\ ddls' = ddls \cup {nRead + 1}
    /\ producer' = "draining"
    /\ UNCHANGED <<numRetries, isPaused, activeBatches, workerVars, tableVars, rowVars,
                   overdue, halfDone, threw>>

--------------------------------------------------------------------------------
(* drainBeforeDDL                                                             *)

\* Steps 1 and 2: wait for the pool to empty the queue, at most until the
\* deadline, and pause the executor.
PauseWriters ==
    /\ producer = "draining"
    /\ overdue' = IF records = <<>> THEN overdue ELSE overdue \cup {nRead}
    /\ isPaused' = TRUE
    /\ producer' = "quiescing"
    /\ UNCHANGED <<producerVars, numRetries, records, activeBatches, workerVars,
                   tableVars, rowVars, halfDone, threw>>

\* Mutant: batches already inside a task body are not waited for.
NotAwaited ==
    /\ producer = "quiescing"
    /\ producer' = "applying"
    /\ UNCHANGED <<producerVars, numRetries, records, isPaused, activeBatches, workerVars,
                   tableVars, rowVars, overdue, halfDone, threw>>

\* Mutant: no deadline.
AwaitForever ==
    /\ producer = "quiescing"
    /\ activeBatches = 0
    /\ producer' = "applying"
    /\ UNCHANGED <<producerVars, numRetries, records, isPaused, activeBatches, workerVars,
                   tableVars, rowVars, overdue, halfDone, threw>>

\* Step 3, awaitQuiescent: no task body is running, or the deadline has passed.
AwaitQuiescent ==
    /\ producer = "quiescing"
    /\ overdue' = IF activeBatches = 0 THEN overdue ELSE overdue \cup {nRead}
    /\ producer' = "applying"
    /\ UNCHANGED <<producerVars, numRetries, records, isPaused, activeBatches, workerVars,
                   tableVars, rowVars, halfDone, threw>>

--------------------------------------------------------------------------------
(* performDDLOperation                                                        *)

\* The DDL is one to ignore (checkIfDDLNeedsToBeIgnored), or no attempt is
\* allowed.  Its offset is not acknowledged.
IgnoreDDL ==
    /\ producer = "applying"
    /\ numRetries = 0
    /\ producer' = "resuming"
    /\ UNCHANGED <<producerVars, numRetries, records, isPaused, activeBatches,
                   workerVars, tableVars, rowVars, overdue, halfDone, threw>>

\* The exception ends in the catch of processEveryChangeRecord, which goes on
\* with the next record: resume is not called.
Throw ==
    /\ producer' = "reading"
    /\ numRetries' = 0
    /\ threw' = TRUE

\* parseSql: the parser throws on a statement it does not know.
ParseFails ==
    /\ producer = "applying"
    /\ numRetries = 0
    /\ Throw
    /\ UNCHANGED <<producerVars, records, isPaused, activeBatches,
                   workerVars, tableVars, rowVars, overdue, halfDone>>

ExecuteDDL ==
    /\ producer = "applying"
    /\ numRetries < MAX_RETRIES
    /\ schema' = schema + 1
    /\ applied' = applied \cup {nRead}
    /\ producer' = "invalidating"
    /\ UNCHANGED <<producerVars, numRetries, records, isPaused, activeBatches, workerVars,
                   tableVersions, marked, acked, rowVars, overdue, halfDone, threw>>

\* The catch of the attempt: the DDL is given up, or tried again ten seconds later.
AttemptFails ==
    IF ~RetryDDL
    THEN /\ producer' = "resuming"
         /\ UNCHANGED <<numRetries, threw>>
    ELSE IF numRetries + 1 >= MAX_RETRIES
    THEN Throw
    ELSE /\ producer' = "applying"
         /\ numRetries' = numRetries + 1
         /\ UNCHANGED threw

\* One of the statements fails.  Those before it have changed the table, and no
\* cached writer is marked stale.
DDLFails ==
    /\ producer = "applying"
    /\ numRetries < MAX_RETRIES
    /\ \/ UNCHANGED <<schema, halfDone>>
       \/ /\ ~halfDone
          /\ schema' = schema + 1
          /\ halfDone' = TRUE
    /\ AttemptFails
    /\ UNCHANGED <<producerVars, records, isPaused, activeBatches, workerVars,
                   tableVersions, marked, applied, acked, rowVars, overdue>>

\* The "database.table" keys that a DDL marks as changed: the tables it is found to
\* name, in the database of the source after the override.  That is none if it
\* names none or if an exception is caught on the way, and it need not be the key
\* of the workers, whose database may be that of the replication history and whose
\* table is named after the topic.
MarkedKeys(db, named) == {Override(db)} \X named

\* invalidateTable for each key, and acknowledgeRecords for the record of the DDL.
\* An offset that cannot be flushed counts as a failure of the DDL, which runs again.
InvalidateTable ==
    /\ producer = "invalidating"
    /\ \E db \in DdlDatabases, named \in NamedTables :
          /\ tableVersions' = [key \in Databases \X Tables |->
                IF key \in MarkedKeys(db, named) THEN tableVersions[key] + 1
                                                 ELSE tableVersions[key]]
          /\ marked' = IF WriterKey \in MarkedKeys(db, named) THEN schema ELSE marked
    /\ \/ /\ acked' = acked \cup {nRead}
          /\ producer' = "resuming"
          /\ numRetries' = 0
          /\ UNCHANGED threw
       \/ /\ AttemptFails
          /\ UNCHANGED acked
    /\ UNCHANGED <<producerVars, records, isPaused, activeBatches, workerVars, schema,
                   applied, rowVars, overdue, halfDone>>

Resume ==
    /\ producer = "resuming"
    /\ isPaused' = FALSE
    /\ producer' = "reading"
    /\ UNCHANGED <<producerVars, numRetries, records, activeBatches, workerVars,
                   tableVars, rowVars, overdue, halfDone, threw>>

--------------------------------------------------------------------------------
(* A worker: beforeExecute, the loop of runLegacyMode, and a write.           *)
(*                                                                            *)
(*   due       scheduled; spins in beforeExecute while the executor is paused *)
(*   gate      has seen isPaused = FALSE and not counted itself yet           *)
(*   body      at the head of the loop, counted in activeBatches              *)
(*   lookup    has a batch, about to look for its DbWriter                    *)
(*   building  constructs a DbWriter, which reads the columns of the table    *)
(*   flushing  has a writer, inserts the rows                                 *)
(*   dead      the schedule is cancelled                                      *)

DebeziumThread == <<producer, producerVars, numRetries, isPaused, tableVars, overdue,
                    halfDone, threw>>

BeforeExecute(w) ==
    /\ pc[w] = "due"
    /\ ~isPaused
    /\ pc' = [pc EXCEPT ![w] = "gate"]
    /\ UNCHANGED <<DebeziumThread, records, activeBatches, currentBatch, seen, cached,
                   rowVars>>

EnterBody(w) ==
    /\ pc[w] = "gate"
    /\ activeBatches' = activeBatches + 1
    /\ pc' = [pc EXCEPT ![w] = "body"]
    /\ UNCHANGED <<DebeziumThread, records, currentBatch, seen, cached, rowVars>>

\* Takes a batch, or tries the one it has kept again.
Poll(w) ==
    /\ pc[w] = "body"
    /\ IF currentBatch[w] # {}
       THEN UNCHANGED <<records, currentBatch>>
       ELSE /\ records # <<>>
            /\ currentBatch' = [currentBatch EXCEPT ![w] = Head(records)]
            /\ records' = Tail(records)
    /\ pc' = [pc EXCEPT ![w] = "lookup"]
    /\ UNCHANGED <<DebeziumThread, activeBatches, seen, cached, rowVars>>

\* Nothing left to do: the task ends and is scheduled again.
LeaveBody(w) ==
    /\ pc[w] = "body"
    /\ currentBatch[w] = {}
    /\ records = <<>>
    /\ activeBatches' = activeBatches - 1
    /\ pc' = [pc EXCEPT ![w] = "due"]
    /\ UNCHANGED <<DebeziumThread, records, currentBatch, seen, cached, rowVars>>

\* Mutant: the version of a cached writer is not looked at.
TrustCache(w) ==
    /\ pc[w] = "lookup"
    /\ IF cached[w] # NoWriter
       THEN /\ pc' = [pc EXCEPT ![w] = "flushing"]
            /\ UNCHANGED seen
       ELSE /\ pc' = [pc EXCEPT ![w] = "building"]
            /\ seen' = [seen EXCEPT ![w] = TableVersion]
    /\ UNCHANGED <<DebeziumThread, records, activeBatches, currentBatch, cached, rowVars>>

\* getDbWriterForTable: the version is read before the columns.
LookUpWriter(w) ==
    /\ pc[w] = "lookup"
    /\ IF cached[w].version = TableVersion
       THEN /\ pc' = [pc EXCEPT ![w] = "flushing"]
            /\ UNCHANGED seen
       ELSE /\ pc' = [pc EXCEPT ![w] = "building"]
            /\ seen' = [seen EXCEPT ![w] = TableVersion]
    /\ UNCHANGED <<DebeziumThread, records, activeBatches, currentBatch, cached, rowVars>>

\* The constructor of DbWriter reads the columns.  An error is logged there, and
\* the writer is cached without them.
BuildWriter(w) ==
    /\ pc[w] = "building"
    /\ \E columns \in {schema, NotRetrieved} :
          cached' = [cached EXCEPT ![w] = [version |-> seen[w], columns |-> columns]]
    /\ seen' = [seen EXCEPT ![w] = 0]
    /\ pc' = [pc EXCEPT ![w] = "flushing"]
    /\ UNCHANGED <<DebeziumThread, records, activeBatches, currentBatch, rowVars>>

wasTableMetaDataRetrieved(w) == cached[w].columns # NotRetrieved

\* updateColumnNameToDataTypeMap, for a writer without metadata: the columns are
\* read now, the version of the writer stays.
RefreshColumns(w) ==
    /\ pc[w] = "flushing"
    /\ ~wasTableMetaDataRetrieved(w)
    /\ cached' = [cached EXCEPT ![w] = [version |-> cached[w].version, columns |-> schema]]
    /\ UNCHANGED <<DebeziumThread, records, activeBatches, pc, currentBatch, seen, rowVars>>

\* Another batch is in flight: one that a worker has in hand, has failed and
\* will try again, or has dropped after a fatal error.
OthersInFlight(w) ==
    \/ discarded # {}
    \/ \E v \in Workers \ {w} : currentBatch[v] # {}

\* The rows are in ClickHouse.  With an older batch in flight the batch is
\* parked: the worker keeps it and writes it again, without leaving the body.
Flush(w) ==
    /\ pc[w] = "flushing"
    /\ wasTableMetaDataRetrieved(w)
    /\ written' = written \cup currentBatch[w]
    /\ late' = late \cup {x \in (currentBatch[w] \ written) \X applied : x[1] < x[2]}
    /\ \/ currentBatch' = [currentBatch EXCEPT ![w] = {}]
       \/ /\ OthersInFlight(w)
          /\ UNCHANGED currentBatch
    /\ pc' = [pc EXCEPT ![w] = "body"]
    /\ UNCHANGED <<DebeziumThread, records, activeBatches, seen, cached, failed, discarded>>

Writing(w) == pc[w] \in {"lookup", "building", "flushing"}

\* Mutant: a task that ends with an exception is still counted.
StaysActive(w) ==
    /\ Writing(w)
    /\ failed' = failed \cup currentBatch[w]
    /\ seen' = [seen EXCEPT ![w] = 0]
    /\ pc' = [pc EXCEPT ![w] = "due"]
    /\ UNCHANGED <<DebeziumThread, records, activeBatches, currentBatch, cached, written,
                   discarded, late>>

\* The write fails.  With an exception the task ends, and the batch waits for its
\* next run; with the metadata of the table missing the loop goes on.
Fail(w) ==
    /\ Writing(w)
    /\ failed' = failed \cup currentBatch[w]
    /\ seen' = [seen EXCEPT ![w] = 0]
    /\ \/ /\ pc' = [pc EXCEPT ![w] = "due"]
          /\ activeBatches' = activeBatches - 1
       \/ /\ pc' = [pc EXCEPT ![w] = "body"]
          /\ UNCHANGED activeBatches
    /\ UNCHANGED <<DebeziumThread, records, currentBatch, cached, written, discarded, late>>

FailFatally(w) ==
    /\ Writing(w)
    /\ discarded' = discarded \cup currentBatch[w]
    /\ currentBatch' = [currentBatch EXCEPT ![w] = {}]
    /\ seen' = [seen EXCEPT ![w] = 0]
    /\ activeBatches' = activeBatches - 1
    /\ pc' = [pc EXCEPT ![w] = "dead"]
    /\ UNCHANGED <<DebeziumThread, records, cached, written, failed, late>>

--------------------------------------------------------------------------------

Barrier ==
    \/ PauseWriters \/ AwaitQuiescent
    \/ IgnoreDDL \/ ParseFails \/ ExecuteDDL \/ DDLFails
    \/ InvalidateTable \/ Resume

Work(w) ==
    \/ BeforeExecute(w) \/ EnterBody(w) \/ Poll(w) \/ LeaveBody(w)
    \/ LookUpWriter(w) \/ BuildWriter(w) \/ RefreshColumns(w) \/ Flush(w)

Next ==
    \/ ReadRow \/ EndOfList \/ ReadDDL
    \/ Barrier
    \/ \E w \in Workers : Work(w) \/ Fail(w) \/ FailFatally(w)

Spec == Init /\ [][Next]_vars

(* The Debezium thread is scheduled.  Nothing is asked of the workers: the     *)
(* source may fall silent, and a worker may hang in a write.                   *)
Fairness == WF_vars(Barrier)

FairSpec == Spec /\ Fairness

--------------------------------------------------------------------------------
(* Properties                                                                 *)

\* Every variable has its type.
TypeOK ==
    /\ producer \in {"reading", "draining", "quiescing", "applying", "invalidating",
                     "resuming"}
    /\ nRead \in 0 .. MaxPos
    /\ ddls \subseteq 1 .. MaxPos
    /\ batch \subseteq 1 .. MaxPos
    /\ numRetries \in 0 .. MAX_RETRIES
    /\ records \in Seq(SUBSET (1 .. MaxPos))
    /\ Len(records) <= MaxQueueSize
    /\ isPaused \in BOOLEAN
    /\ activeBatches \in 0 .. Cardinality(Workers)
    /\ pc \in [Workers -> {"due", "gate", "body", "lookup", "building", "flushing", "dead"}]
    /\ currentBatch \in [Workers -> SUBSET (1 .. MaxPos)]
    /\ seen \in [Workers -> Nat]
    /\ cached \in [Workers -> DbWriter \cup {NoWriter}]
    /\ schema \in Nat
    /\ tableVersions \in [Databases \X Tables -> Nat]
    /\ marked \in 0 .. schema
    /\ written \subseteq 1 .. MaxPos
    /\ applied \subseteq ddls
    /\ acked \subseteq applied
    /\ failed \subseteq 1 .. MaxPos
    /\ discarded \subseteq 1 .. MaxPos
    /\ late \subseteq written \X applied
    /\ overdue \subseteq ddls
    /\ halfDone \in BOOLEAN
    /\ threw \in BOOLEAN

RowsBefore(d) == 1 .. d - 1 \ ddls

\* A DDL lands at its place in the log: the rows before it reach ClickHouse
\* before it does.  The exceptions are the rows of a batch that has failed, which
\* the drain takes for done while it waits for its next run, and a drain that
\* timed out, which the code reports.
DdlAfterItsRows ==
    \A d \in applied \ overdue :
        \A p \in RowsBefore(d) \ (failed \cup discarded) :
            p \in written /\ <<p, d>> \notin late

\* A worker has looked its writer up and may insert its batch, which has not
\* failed before.
Inserting(w) == pc[w] = "flushing" /\ ~(currentBatch[w] \subseteq failed)

\* Once a DDL has marked the table of the workers, no row is inserted with the
\* columns before it.  A writer at the current version of the table has the
\* current columns, however its construction and the DDL interleave; and nobody
\* inserts with a writer of an earlier version: the drain leaves no batch in the
\* middle, unless it times out.  A batch that has failed may come back in the
\* middle of a DDL, and a DDL that marks nothing, or another table, or that fails
\* before it gets there, leaves the writers as they are.
FreshWriter ==
    marked = schema =>
        \A w \in Workers :
            /\ cached[w].version = TableVersion => cached[w].columns \in {schema, NotRetrieved}
            /\ overdue = {} /\ Inserting(w) => cached[w].version = TableVersion

\* The pause ends, unless the DDL ends in an exception: whatever the workers do,
\* the barrier does not wait for ever for one that writes, or for one that keeps
\* a parked batch while the batch that it waits for cannot be retried.
PauseEnds == isPaused ~> (~isPaused \/ threw)
================================================================================
