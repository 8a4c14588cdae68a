---------------------------- MODULE DdlBarrierProofs ---------------------------
(******************************************************************************)
(* Theorems about DdlBarrier, for any pool, any log and any number of         *)
(* attempts.                                                                  *)
(*                                                                            *)
(* The rows before a DDL reach ClickHouse before it (DdlsLandInPlace): the    *)
(* counter of active batches is the number of workers inside a task body      *)
(* (TypeInv), a row that was read is always somewhere (Placed), and a worker  *)
(* outside a body holds at most a batch that has failed (OutOfBody).  So once *)
(* the queue is empty and the counter at zero, what is before the DDL is      *)
(* written, failed or dropped (DrainInv).                                     *)
(*                                                                            *)
(* After a DDL that marks the table of the workers no row is inserted with    *)
(* the columns before it (AlwaysFresh), for two reasons.  A worker reads the  *)
(* version of the table before its columns, and the Debezium thread changes   *)
(* the columns before the version: a writer is never ahead of the table       *)
(* (NotAhead), and the step that moves the version on leaves no writer at the *)
(* current one (UpToDate).  And the same drain leaves no worker between the   *)
(* look-up of its writer and the insert (Quiet, LookedUp).                    *)
(******************************************************************************)
EXTENDS DdlBarrier, FiniteSetTheorems, TLAPS

--------------------------------------------------------------------------------
(* Writers                                                                    *)

\* The types of what decides which writer is used.
WriterTypes ==
    /\ schema \in Nat
    /\ marked \in 0 .. schema
    /\ tableVersions \in [Databases \X Tables -> Nat]
    /\ seen \in [Workers -> Nat]
    /\ cached \in [Workers -> [version : Nat \cup {-1}, columns : Nat \cup {-1}]]

\* No worker knows a version that the table has not had.
NotAhead ==
    \A w \in Workers : seen[w] <= TableVersion /\ cached[w].version <= TableVersion

\* A writer at the current version of the table has its columns, once a DDL has
\* marked the table.
UpToDate ==
    marked = schema =>
        \A w \in Workers :
            cached[w].version = TableVersion => cached[w].columns \in {schema, NotRetrieved}

FreshInv == WriterTypes /\ NotAhead /\ UpToDate

\* The variables that FreshInv depends on.
freshVars == <<schema, tableVersions, marked, seen, cached>>

\* The table of the workers is one that has a version.
LEMMA KeyIsOfATable == WriterKey \in Databases \X Tables
BY BarrierAssumption DEF BarrierAssumption, WriterKey, Override

LEMMA VersionIsNatural == WriterTypes => TableVersion \in Nat
BY KeyIsOfATable DEF WriterTypes, TableVersion

LEMMA SameVersion == UNCHANGED tableVersions => TableVersion' = TableVersion
BY DEF TableVersion, WriterKey, Override

\* The version and the columns of a writer are numbers.
LEMMA WriterIsOfNumbers ==
    ASSUME WriterTypes, NEW w \in Workers
    PROVE  cached[w].version \in Int /\ cached[w].columns \in Int /\ seen[w] \in Nat
BY DEF WriterTypes

\* A step that leaves those variables alone keeps it.
LEMMA FreshStutter == FreshInv /\ UNCHANGED freshVars => FreshInv'
BY SameVersion DEF FreshInv, WriterTypes, NotAhead, UpToDate, freshVars

\* A change of the schema leaves the table unmarked.
LEMMA FreshChange ==
    ASSUME FreshInv, schema' = schema + 1, UNCHANGED <<tableVersions, marked, seen, cached>>
    PROVE  FreshInv'
<1>1. schema \in Nat /\ marked \in 0 .. schema
  BY DEF FreshInv, WriterTypes
<1>2. schema' \in Nat /\ marked' \in 0 .. schema' /\ marked' # schema'
  BY <1>1
<1>3. WriterTypes' /\ NotAhead'
  BY <1>2, SameVersion DEF FreshInv, WriterTypes, NotAhead
<1>4. UpToDate'
  BY <1>2 DEF UpToDate
<1> QED
  BY <1>3, <1>4 DEF FreshInv

\* A DDL moves the version of the table of the workers on and marks it, or does
\* neither.
LEMMA VersionMoves ==
    ASSUME WriterTypes, InvalidateTable
    PROVE  /\ tableVersions' \in [Databases \X Tables -> Nat]
           /\ \/ TableVersion' = TableVersion + 1 /\ marked' = schema
              \/ TableVersion' = TableVersion /\ marked' = marked
<1>1. PICK db \in DdlDatabases, named \in NamedTables :
          /\ tableVersions' = [key \in Databases \X Tables |->
                IF key \in MarkedKeys(db, named) THEN tableVersions[key] + 1
                                                 ELSE tableVersions[key]]
          /\ marked' = IF WriterKey \in MarkedKeys(db, named) THEN schema ELSE marked
  BY DEF InvalidateTable
<1>2. \A key \in Databases \X Tables : tableVersions[key] \in Nat
  BY DEF WriterTypes
<1>3. tableVersions' \in [Databases \X Tables -> Nat]
  BY <1>1, <1>2
<1>4. TableVersion' = IF WriterKey \in MarkedKeys(db, named) THEN TableVersion + 1
                                                               ELSE TableVersion
  <2>1. TableVersion' = tableVersions'[WriterKey]
    BY DEF TableVersion, WriterKey, Override
  <2> QED
    BY <1>1, <2>1, KeyIsOfATable DEF TableVersion
<1> QED
  BY <1>1, <1>3, <1>4

\* There is no writer when the connector starts.
LEMMA FreshInit == Init => FreshInv
<1> SUFFICES ASSUME Init
             PROVE  FreshInv
  OBVIOUS
<1>1. WriterTypes
  BY DEF Init, WriterTypes, NoWriter, NotRetrieved
<1>2. TableVersion = 0
  BY KeyIsOfATable DEF Init, TableVersion
<1>3. NotAhead /\ UpToDate
  BY <1>2 DEF Init, NotAhead, UpToDate, NoWriter, NotRetrieved
<1> QED
  BY <1>1, <1>3 DEF FreshInv

\* The Debezium thread: the columns change first, then the version.
LEMMA FreshProducer ==
    ASSUME FreshInv,
           ReadRow \/ EndOfList \/ ReadDDL \/ Barrier
    PROVE  FreshInv'
<1> USE DEF producerVars, workerVars, tableVars, rowVars
<1>1. CASE ReadRow \/ EndOfList \/ ReadDDL
  BY <1>1, FreshStutter DEF ReadRow, EndOfList, ReadDDL, freshVars
<1>2. CASE PauseWriters \/ AwaitQuiescent \/ IgnoreDDL \/ ParseFails \/ Resume
  BY <1>2, FreshStutter
     DEF PauseWriters, AwaitQuiescent, IgnoreDDL, ParseFails, Resume, freshVars
<1>3. CASE ExecuteDDL
  BY <1>3, FreshChange DEF ExecuteDDL
<1>4. CASE DDLFails
  <2>1. UNCHANGED <<tableVersions, marked, seen, cached>>
    BY <1>4 DEF DDLFails
  <2>2. schema' = schema \/ schema' = schema + 1
    BY <1>4 DEF DDLFails
  <2> QED
    BY <2>1, <2>2, FreshStutter, FreshChange DEF freshVars
<1>5. CASE InvalidateTable
  <2>1. UNCHANGED <<schema, seen, cached>>
    BY <1>5 DEF InvalidateTable
  <2>2. WriterTypes /\ schema \in Nat /\ TableVersion \in Nat
    BY VersionIsNatural DEF FreshInv, WriterTypes
  <2>3. CASE TableVersion' = TableVersion + 1 /\ marked' = schema
    <3>1. \A w \in Workers : cached[w].version < TableVersion' /\ seen[w] < TableVersion'
      BY <2>2, <2>3, WriterIsOfNumbers DEF FreshInv, NotAhead
    <3>2. WriterTypes'
      BY <1>5, <2>1, <2>2, <2>3, VersionMoves DEF WriterTypes
    <3>3. NotAhead' /\ UpToDate'
      BY <2>1, <2>2, <3>1, <2>3, WriterIsOfNumbers DEF NotAhead, UpToDate
    <3> QED
      BY <3>2, <3>3 DEF FreshInv
  <2>4. CASE TableVersion' = TableVersion /\ marked' = marked
    BY <1>5, <2>1, <2>4, VersionMoves DEF FreshInv, WriterTypes, NotAhead, UpToDate
  <2> QED
    BY <1>5, <2>2, <2>3, <2>4, VersionMoves
<1> QED
  BY <1>1, <1>2, <1>3, <1>4, <1>5 DEF Barrier

\* A worker: the version is read first, then the columns.
LEMMA FreshWorker ==
    ASSUME FreshInv, NEW w \in Workers,
           Work(w) \/ Fail(w) \/ FailFatally(w)
    PROVE  FreshInv'
<1> USE DEF DebeziumThread, producerVars, tableVars
<1>0. /\ UNCHANGED <<schema, tableVersions, marked>> /\ TableVersion' = TableVersion
      /\ TableVersion \in Nat /\ schema \in Nat
  <2>1. UNCHANGED <<schema, tableVersions, marked>>
    BY DEF Work, Fail, FailFatally, BeforeExecute, EnterBody, Poll, LeaveBody,
           LookUpWriter, BuildWriter, RefreshColumns, Flush
  <2> QED
    BY <2>1, SameVersion, VersionIsNatural DEF FreshInv, WriterTypes
<1>1. CASE BeforeExecute(w) \/ EnterBody(w) \/ Poll(w) \/ LeaveBody(w) \/ Flush(w)
  BY <1>1, FreshStutter DEF BeforeExecute, EnterBody, Poll, LeaveBody, Flush, freshVars
<1>2. CASE LookUpWriter(w)
  <2>1. cached' = cached /\ (seen' = seen \/ seen' = [seen EXCEPT ![w] = TableVersion])
    BY <1>2 DEF LookUpWriter
  <2> QED
    BY <1>0, <2>1 DEF FreshInv, WriterTypes, NotAhead, UpToDate
<1>3. CASE BuildWriter(w)
  <2>1. PICK columns \in {schema, NotRetrieved} :
            cached' = [cached EXCEPT ![w] = [version |-> seen[w], columns |-> columns]]
    BY <1>3 DEF BuildWriter
  <2>2. seen' = [seen EXCEPT ![w] = 0]
    BY <1>3 DEF BuildWriter
  <2>3. [version |-> seen[w], columns |-> columns]
            \in [version : Nat \cup {-1}, columns : Nat \cup {-1}]
    BY <1>0, WriterIsOfNumbers DEF FreshInv, NotRetrieved
  <2>4. WriterTypes'
    BY <1>0, <2>1, <2>2, <2>3 DEF FreshInv, WriterTypes
  <2>5. /\ cached'[w].version = seen[w] /\ cached'[w].columns = columns
        /\ seen'[w] = 0
        /\ \A v \in Workers \ {w} : cached'[v] = cached[v] /\ seen'[v] = seen[v]
    BY <2>1, <2>2 DEF FreshInv, WriterTypes
  <2>6. NotAhead'
    BY <1>0, <2>5 DEF FreshInv, NotAhead, WriterTypes
  <2>7. UpToDate'
    BY <1>0, <2>5 DEF FreshInv, UpToDate
  <2> QED
    BY <2>4, <2>6, <2>7 DEF FreshInv
<1>4. CASE RefreshColumns(w)
  <2>1. /\ cached' = [cached EXCEPT ![w] = [version |-> cached[w].version, columns |-> schema]]
        /\ seen' = seen
    BY <1>4 DEF RefreshColumns
  <2>2. [version |-> cached[w].version, columns |-> schema]
            \in [version : Nat \cup {-1}, columns : Nat \cup {-1}]
    BY <1>0 DEF FreshInv, WriterTypes
  <2>3. WriterTypes'
    BY <1>0, <2>1, <2>2 DEF FreshInv, WriterTypes
  <2>4. /\ cached'[w].version = cached[w].version /\ cached'[w].columns = schema
        /\ \A v \in Workers \ {w} : cached'[v] = cached[v]
    BY <2>1 DEF FreshInv, WriterTypes
  <2>5. NotAhead' /\ UpToDate'
    BY <1>0, <2>1, <2>4 DEF FreshInv, NotAhead, UpToDate
  <2> QED
    BY <2>3, <2>5 DEF FreshInv
<1>5. CASE Fail(w) \/ FailFatally(w)
  <2>1. cached' = cached /\ seen' = [seen EXCEPT ![w] = 0]
    BY <1>5 DEF Fail, FailFatally
  <2> QED
    BY <1>0, <2>1 DEF FreshInv, WriterTypes, NotAhead, UpToDate
<1> QED
  BY <1>1, <1>2, <1>3, <1>4, <1>5 DEF Work

LEMMA FreshNext ==
    ASSUME FreshInv, [Next]_vars
    PROVE  FreshInv'
<1>1. CASE UNCHANGED vars
  BY <1>1, FreshStutter DEF vars, freshVars, workerVars, tableVars
<1> QED
  BY <1>1, FreshProducer, FreshWorker DEF Next

--------------------------------------------------------------------------------
(* Types                                                                      *)

BodySteps == {"body", "lookup", "building", "flushing"}

\* The workers inside a task body.
Active == {w \in Workers : pc[w] \in BodySteps}

\* The counter of the executor is the number of workers inside a body.
Counted == activeBatches = Cardinality(Active)

\* From the moment it is read until the thread goes on, a DDL is at nRead, and the
\* rows before it have been handed over.
AtDdl ==
    /\ ddls \subseteq 1 .. nRead
    /\ batch \subseteq 1 .. nRead
    /\ producer # "reading" => nRead \in ddls /\ batch = {}
    /\ producer = "invalidating" => nRead \in applied

\* A worker about to insert has a writer.
HasWriter == \A w \in Workers : pc[w] = "flushing" => cached[w] \in DbWriter

TypeInv == TypeOK /\ Counted /\ AtDdl /\ HasWriter

LEMMA ActiveFinite ==
    IsFiniteSet(Active) /\ Cardinality(Active) \in 0 .. Cardinality(Workers)
<1>1. Active \subseteq Workers /\ IsFiniteSet(Workers)
  BY BarrierAssumption DEF BarrierAssumption, Active
<1>2. IsFiniteSet(Active) /\ Cardinality(Active) <= Cardinality(Workers)
  BY <1>1, FS_Subset
<1> QED
  BY <1>1, <1>2, FS_CardinalityType

LEMMA TypeInit == Init => TypeInv
<1> SUFFICES ASSUME Init PROVE TypeInv
  OBVIOUS
<1> USE BarrierAssumption DEF BarrierAssumption
<1>1. Active = {}
  BY DEF Init, Active, BodySteps
<1>2. Counted /\ activeBatches \in 0 .. Cardinality(Workers)
  BY <1>1, FS_EmptySet, FS_CardinalityType DEF Init, Counted
<1>3. /\ nRead \in 0 .. MaxPos /\ numRetries \in 0 .. MAX_RETRIES
      /\ records \in Seq(SUBSET (1 .. MaxPos)) /\ Len(records) <= MaxQueueSize
  BY DEF Init
<1>4. /\ currentBatch \in [Workers -> SUBSET (1 .. MaxPos)] /\ seen \in [Workers -> Nat]
      /\ cached \in [Workers -> DbWriter \cup {NoWriter}]
      /\ pc \in [Workers -> {"due", "gate", "body", "lookup", "building", "flushing", "dead"}]
      /\ tableVersions \in [Databases \X Tables -> Nat] /\ marked \in 0 .. schema
  BY DEF Init
<1>5. TypeOK
  BY <1>2, <1>3, <1>4 DEF Init, TypeOK
<1>6. AtDdl /\ HasWriter
  BY DEF Init, AtDdl, HasWriter
<1> QED
  BY <1>2, <1>5, <1>6 DEF TypeInv

\* The workers are all where they were.
LEMMA SameActive == UNCHANGED pc => Active' = Active
  BY DEF Active

\* A list of rows is handed over, or there is none.
LEMMA HandOverTypes ==
    ASSUME TypeInv, HandOver
    PROVE  /\ records' \in Seq(SUBSET (1 .. MaxPos)) /\ Len(records') <= MaxQueueSize
           /\ batch' = {}
<1>1. /\ records \in Seq(SUBSET (1 .. MaxPos)) /\ Len(records) <= MaxQueueSize
      /\ batch \subseteq 1 .. MaxPos /\ MaxQueueSize \in Nat
  BY BarrierAssumption DEF BarrierAssumption, TypeInv, TypeOK
<1>2. CASE batch = {}
  BY <1>1, <1>2 DEF HandOver
<1>3. CASE batch # {}
  <2>1. batch \in SUBSET (1 .. MaxPos)
    BY <1>1
  <2>2. Len(records) < MaxQueueSize /\ records' = Append(records, batch) /\ batch' = {}
    BY <1>3 DEF HandOver
  <2>3. Append(records, batch) \in Seq(SUBSET (1 .. MaxPos)) /\ Len(Append(records, batch)) = Len(records) + 1
    BY <1>1, <2>1
  <2> QED
    BY <1>1, <2>2, <2>3
<1> QED
  BY <1>2, <1>3

LEMMA TypeProducer ==
    ASSUME TypeInv, ReadRow \/ EndOfList \/ ReadDDL \/ Barrier
    PROVE  TypeInv'
<1> USE BarrierAssumption DEF BarrierAssumption, producerVars, workerVars, tableVars, rowVars
<1>0. UNCHANGED <<pc, activeBatches>>
  BY DEF ReadRow, EndOfList, ReadDDL, Barrier, PauseWriters, AwaitQuiescent, IgnoreDDL,
         ParseFails, ExecuteDDL, DDLFails, InvalidateTable, Resume
<1>1. Counted' /\ HasWriter'
  <2>1. UNCHANGED cached
    BY DEF ReadRow, EndOfList, ReadDDL, Barrier, PauseWriters, AwaitQuiescent, IgnoreDDL,
           ParseFails, ExecuteDDL, DDLFails, InvalidateTable, Resume
  <2> QED
    BY <1>0, <2>1, SameActive DEF TypeInv, Counted, HasWriter
<1>2. CASE ReadRow
  <2>1. nRead' \in 0 .. MaxPos /\ nRead' = nRead + 1 /\ batch' = batch \cup {nRead'}
    BY <1>2 DEF ReadRow, TypeInv, TypeOK
  <2>2. TypeOK'
    BY <1>2, <2>1 DEF ReadRow, TypeInv, TypeOK
  <2>3. AtDdl'
    BY <1>2, <2>1 DEF ReadRow, TypeInv, TypeOK, AtDdl
  <2> QED
    BY <1>1, <2>2, <2>3 DEF TypeInv
<1>3. CASE EndOfList
  <2>1. HandOver
    BY <1>3 DEF EndOfList
  <2>2. TypeOK'
    BY <1>3, <2>1, HandOverTypes DEF EndOfList, TypeInv, TypeOK
  <2>3. AtDdl'
    BY <1>3, <2>1, HandOverTypes DEF EndOfList, TypeInv, AtDdl
  <2> QED
    BY <1>1, <2>2, <2>3 DEF TypeInv
<1>4. CASE ReadDDL
  <2>1. HandOver
    BY <1>4 DEF ReadDDL
  <2>2. /\ nRead' \in 0 .. MaxPos /\ nRead' = nRead + 1 /\ ddls' = ddls \cup {nRead'}
        /\ ddls' \subseteq 1 .. MaxPos /\ batch' = {}
    BY <1>4, <2>1, HandOverTypes DEF ReadDDL, TypeInv, TypeOK
  <2>3. TypeOK'
    BY <1>4, <2>1, <2>2, HandOverTypes DEF ReadDDL, TypeInv, TypeOK
  <2>4. AtDdl'
    BY <1>4, <2>2 DEF ReadDDL, TypeInv, TypeOK, AtDdl
  <2> QED
    BY <1>1, <2>3, <2>4 DEF TypeInv
<1>5. CASE PauseWriters
  <2>1. overdue' \subseteq ddls
    BY <1>5 DEF PauseWriters, TypeInv, TypeOK, AtDdl
  <2>2. TypeOK'
    BY <1>5, <2>1 DEF PauseWriters, TypeInv, TypeOK
  <2>3. AtDdl'
    BY <1>5 DEF PauseWriters, TypeInv, AtDdl
  <2> QED
    BY <1>1, <2>2, <2>3 DEF TypeInv
<1>6. CASE AwaitQuiescent
  <2>1. overdue' \subseteq ddls
    BY <1>6 DEF AwaitQuiescent, TypeInv, TypeOK, AtDdl
  <2>2. TypeOK'
    BY <1>6, <2>1 DEF AwaitQuiescent, TypeInv, TypeOK
  <2>3. AtDdl'
    BY <1>6 DEF AwaitQuiescent, TypeInv, AtDdl
  <2> QED
    BY <1>1, <2>2, <2>3 DEF TypeInv
<1>7. CASE IgnoreDDL
  <2>1. TypeOK'
    BY <1>7 DEF IgnoreDDL, TypeInv, TypeOK
  <2>2. AtDdl'
    BY <1>7 DEF IgnoreDDL, TypeInv, AtDdl
  <2> QED
    BY <1>1, <2>1, <2>2 DEF TypeInv
<1>8. CASE ParseFails
  <2>1. numRetries' \in 0 .. MAX_RETRIES /\ threw' \in BOOLEAN /\ producer' = "reading"
    BY <1>8 DEF ParseFails, Throw
  <2>2. TypeOK'
    BY <1>8, <2>1 DEF ParseFails, TypeInv, TypeOK
  <2>3. AtDdl'
    BY <1>8, <2>1 DEF ParseFails, TypeInv, AtDdl
  <2> QED
    BY <1>1, <2>2, <2>3 DEF TypeInv
<1>9. CASE ExecuteDDL
  <2>1. /\ schema' \in Nat /\ marked' \in 0 .. schema'
        /\ applied' \subseteq ddls /\ acked \subseteq applied'
    BY <1>9 DEF ExecuteDDL, TypeInv, TypeOK, AtDdl
  <2>2. late \subseteq written \X applied'
    BY <1>9 DEF ExecuteDDL, TypeInv, TypeOK
  <2>3. TypeOK'
    BY <1>9, <2>1, <2>2 DEF ExecuteDDL, TypeInv, TypeOK
  <2>4. AtDdl'
    BY <1>9 DEF ExecuteDDL, TypeInv, AtDdl
  <2> QED
    BY <1>1, <2>3, <2>4 DEF TypeInv
<1>10. ASSUME AttemptFails
       PROVE  /\ producer' \in {"reading", "applying", "resuming"}
              /\ numRetries' \in 0 .. MAX_RETRIES /\ threw' \in BOOLEAN
  <2>1. numRetries \in 0 .. MAX_RETRIES /\ threw \in BOOLEAN
    BY DEF TypeInv, TypeOK
  <2>2. CASE ~RetryDDL
    BY <1>10, <2>1, <2>2 DEF AttemptFails
  <2>3. CASE RetryDDL /\ numRetries + 1 >= MAX_RETRIES
    BY <1>10, <2>1, <2>3 DEF AttemptFails, Throw
  <2>4. CASE RetryDDL /\ ~(numRetries + 1 >= MAX_RETRIES)
    BY <1>10, <2>1, <2>4 DEF AttemptFails
  <2> QED
    BY <2>2, <2>3, <2>4
<1>11. CASE DDLFails
  <2>1. AttemptFails
    BY <1>11 DEF DDLFails
  <2>2. schema' \in Nat /\ marked' \in 0 .. schema' /\ halfDone' \in BOOLEAN
    <3>1. schema \in Nat /\ marked \in 0 .. schema /\ halfDone \in BOOLEAN
      BY DEF TypeInv, TypeOK
    <3>2. \/ UNCHANGED <<schema, halfDone>>
          \/ schema' = schema + 1 /\ halfDone' = TRUE
      BY <1>11 DEF DDLFails
    <3>3. schema + 1 \in Nat /\ marked \in 0 .. schema + 1 /\ marked' = marked
      BY <1>11, <3>1 DEF DDLFails
    <3>4. schema' \in Nat /\ marked' \in 0 .. schema'
      BY <3>1, <3>2, <3>3, Zenon
    <3>5. halfDone' \in BOOLEAN
      BY <3>1, <3>2, Zenon
    <3> QED
      BY <3>4, <3>5
  <2>3. TypeOK'
    BY <1>11, <2>1, <2>2, <1>10 DEF DDLFails, TypeInv, TypeOK
  <2>4. AtDdl'
    BY <1>11, <2>1, <1>10 DEF DDLFails, TypeInv, AtDdl
  <2> QED
    BY <1>1, <2>3, <2>4 DEF TypeInv
<1>12. CASE InvalidateTable
  <2>1. /\ producer' \in {"reading", "applying", "resuming"}
        /\ numRetries' \in 0 .. MAX_RETRIES /\ threw' \in BOOLEAN
        /\ acked' \subseteq applied
    <3>1. CASE AttemptFails /\ UNCHANGED acked
      BY <1>10, <1>12, <3>1 DEF InvalidateTable, TypeInv, TypeOK
    <3>2. CASE acked' = acked \cup {nRead} /\ producer' = "resuming" /\ numRetries' = 0 /\ UNCHANGED threw
      BY <1>12, <3>2 DEF InvalidateTable, TypeInv, TypeOK, AtDdl
    <3> QED
      BY <1>12, <3>1, <3>2 DEF InvalidateTable
  <2>2. tableVersions' \in [Databases \X Tables -> Nat] /\ marked' \in 0 .. schema
    <3>1. schema \in Nat /\ marked \in 0 .. schema
      BY DEF TypeInv, TypeOK
    <3>2. PICK db \in DdlDatabases, named \in NamedTables :
              /\ tableVersions' = [key \in Databases \X Tables |->
                    IF key \in MarkedKeys(db, named) THEN tableVersions[key] + 1
                                                     ELSE tableVersions[key]]
              /\ marked' = IF WriterKey \in MarkedKeys(db, named) THEN schema ELSE marked
      BY <1>12 DEF InvalidateTable
    <3>3. \A key \in Databases \X Tables : tableVersions[key] \in Nat
      BY DEF TypeInv, TypeOK
    <3> QED
      BY <3>1, <3>2, <3>3
  <2>3. TypeOK'
    BY <1>12, <2>1, <2>2 DEF InvalidateTable, TypeInv, TypeOK
  <2>4. AtDdl'
    BY <1>12, <2>1 DEF InvalidateTable, TypeInv, AtDdl
  <2> QED
    BY <1>1, <2>3, <2>4 DEF TypeInv
<1>13. CASE Resume
  <2>1. TypeOK'
    BY <1>13 DEF Resume, TypeInv, TypeOK
  <2>2. AtDdl'
    BY <1>13 DEF Resume, TypeInv, AtDdl
  <2> QED
    BY <1>1, <2>1, <2>2 DEF TypeInv
<1> QED
  BY <1>2, <1>3, <1>4, <1>5, <1>6, <1>7, <1>8, <1>9, <1>11, <1>12, <1>13 DEF Barrier

\* A worker that enters a body, stays in it or leaves it, and the counter with it.
LEMMA CountEnter ==
    ASSUME TypeInv, NEW w \in Workers, pc[w] \notin BodySteps, pc'[w] \in BodySteps,
           \A v \in Workers \ {w} : pc'[v] = pc[v],
           activeBatches' = activeBatches + 1
    PROVE  Counted' /\ activeBatches' \in 0 .. Cardinality(Workers)
<1>1. Active' = Active \cup {w} /\ w \notin Active
  BY DEF Active
<1>2. Cardinality(Active') = Cardinality(Active) + 1
  BY <1>1, ActiveFinite, FS_AddElement
<1>3. Active' \subseteq Workers /\ IsFiniteSet(Workers)
  BY BarrierAssumption DEF BarrierAssumption, Active
<1>4. Cardinality(Active') <= Cardinality(Workers) /\ Cardinality(Active) \in Nat /\ Cardinality(Workers) \in Nat
  BY <1>3, ActiveFinite, FS_Subset, FS_CardinalityType
<1> QED
  BY <1>2, <1>4 DEF TypeInv, Counted

LEMMA CountLeave ==
    ASSUME TypeInv, NEW w \in Workers, pc[w] \in BodySteps, pc'[w] \notin BodySteps,
           \A v \in Workers \ {w} : pc'[v] = pc[v],
           activeBatches' = activeBatches - 1
    PROVE  Counted' /\ activeBatches' \in 0 .. Cardinality(Workers)
<1>1. Active' = Active \ {w} /\ w \in Active
  BY DEF Active
<1>2. Cardinality(Active') = Cardinality(Active) - 1 /\ Cardinality(Active') \in Nat
  BY <1>1, ActiveFinite, FS_RemoveElement, FS_CardinalityType
<1>3. Cardinality(Workers) \in Nat
  BY BarrierAssumption, FS_CardinalityType DEF BarrierAssumption
<1> QED
  BY <1>2, <1>3, ActiveFinite DEF TypeInv, Counted

LEMMA CountStay ==
    ASSUME TypeInv, NEW w \in Workers, pc[w] \in BodySteps <=> pc'[w] \in BodySteps,
           \A v \in Workers \ {w} : pc'[v] = pc[v],
           activeBatches' = activeBatches
    PROVE  Counted' /\ activeBatches' \in 0 .. Cardinality(Workers)
<1>1. Active' = Active
  BY DEF Active
<1> QED
  BY <1>1 DEF TypeInv, Counted, TypeOK

LEMMA TypeWorker ==
    ASSUME TypeInv, NEW w \in Workers, Work(w) \/ Fail(w) \/ FailFatally(w)
    PROVE  TypeInv'
<1> USE DEF DebeziumThread, producerVars, tableVars, rowVars
<1>0. /\ pc \in [Workers -> {"due", "gate", "body", "lookup", "building", "flushing", "dead"}]
      /\ currentBatch \in [Workers -> SUBSET (1 .. MaxPos)]
      /\ records \in Seq(SUBSET (1 .. MaxPos)) /\ seen \in [Workers -> Nat]
  BY DEF TypeInv, TypeOK
<1>a. AtDdl'
  <2>1. UNCHANGED <<producer, nRead, ddls, batch, applied>>
    BY DEF Work, Fail, FailFatally, BeforeExecute, EnterBody, Poll, LeaveBody,
           LookUpWriter, BuildWriter, RefreshColumns, Flush
  <2> QED
    BY <2>1 DEF TypeInv, AtDdl
<1>b. HasWriter'
  <2>1. CASE LookUpWriter(w)
    <3>1. /\ UNCHANGED cached /\ \A v \in Workers \ {w} : pc'[v] = pc[v]
          /\ pc'[w] = "flushing" => cached[w].version = TableVersion
      BY <1>0, <2>1 DEF LookUpWriter
    <3>2. TableVersion \in Nat
      BY KeyIsOfATable DEF TypeInv, TypeOK, TableVersion
    <3>3. pc'[w] = "flushing" => cached[w] \in DbWriter
      BY <3>1, <3>2 DEF TypeInv, TypeOK, NoWriter
    <3> QED
      BY <3>1, <3>3 DEF TypeInv, HasWriter
  <2>2. CASE BuildWriter(w) \/ RefreshColumns(w)
    <3>1. /\ \A v \in Workers \ {w} : pc'[v] = pc[v] /\ cached'[v] = cached[v]
          /\ cached'[w] \in DbWriter
      <4>1. CASE BuildWriter(w)
        BY <1>0, <4>1 DEF BuildWriter, TypeInv, TypeOK, DbWriter
      <4>2. CASE RefreshColumns(w)
        <5>1. cached[w] \in DbWriter
          BY <4>2 DEF RefreshColumns, TypeInv, HasWriter
        <5> QED
          BY <4>2, <5>1 DEF RefreshColumns, TypeInv, TypeOK, DbWriter
      <4> QED
        BY <2>2, <4>1, <4>2
    <3> QED
      BY <3>1 DEF TypeInv, HasWriter
  <2>3. CASE \/ BeforeExecute(w) \/ EnterBody(w) \/ Poll(w) \/ LeaveBody(w)
             \/ Flush(w) \/ Fail(w) \/ FailFatally(w)
    <3>1. UNCHANGED cached /\ pc'[w] # "flushing" /\ \A v \in Workers \ {w} : pc'[v] = pc[v]
      BY <1>0, <2>3 DEF BeforeExecute, EnterBody, Poll, LeaveBody, Flush, Fail, FailFatally
    <3> QED
      BY <3>1 DEF TypeInv, HasWriter
  <2> QED
    BY <2>1, <2>2, <2>3 DEF Work
<1>1. CASE BeforeExecute(w)
  <2>1. Counted' /\ activeBatches' \in 0 .. Cardinality(Workers)
    BY <1>0, <1>1, CountStay DEF BeforeExecute, BodySteps
  <2>2. TypeOK'
    BY <1>1, <2>1 DEF BeforeExecute, TypeInv, TypeOK
  <2> QED
    BY <1>a, <1>b, <2>1, <2>2 DEF TypeInv
<1>2. CASE EnterBody(w)
  <2>1. Counted' /\ activeBatches' \in 0 .. Cardinality(Workers)
    BY <1>0, <1>2, CountEnter DEF EnterBody, BodySteps
  <2>2. TypeOK'
    BY <1>2, <2>1 DEF EnterBody, TypeInv, TypeOK
  <2> QED
    BY <1>a, <1>b, <2>1, <2>2 DEF TypeInv
<1>3. CASE Poll(w)
  <2>1. Counted' /\ activeBatches' \in 0 .. Cardinality(Workers)
    BY <1>0, <1>3, CountStay DEF Poll, BodySteps
  <2>2. /\ records' \in Seq(SUBSET (1 .. MaxPos)) /\ Len(records') <= MaxQueueSize
        /\ currentBatch' \in [Workers -> SUBSET (1 .. MaxPos)]
    <3>1. CASE currentBatch[w] # {}
      BY <1>3, <3>1 DEF Poll, TypeInv, TypeOK
    <3>2. CASE currentBatch[w] = {}
      <4>1. /\ records # <<>> /\ records' = Tail(records)
            /\ currentBatch' = [currentBatch EXCEPT ![w] = Head(records)]
        BY <1>3, <3>2 DEF Poll
      <4>2. /\ Head(records) \in SUBSET (1 .. MaxPos) /\ Tail(records) \in Seq(SUBSET (1 .. MaxPos))
            /\ Len(Tail(records)) = Len(records) - 1 /\ Len(records) \in Nat
        BY <1>0, <4>1
      <4>3. Len(records) <= MaxQueueSize /\ MaxQueueSize \in Nat
        BY BarrierAssumption DEF BarrierAssumption, TypeInv, TypeOK
      <4> QED
        BY <1>0, <4>1, <4>2, <4>3
    <3> QED
      BY <3>1, <3>2
  <2>3. TypeOK'
    BY <1>3, <2>1, <2>2 DEF Poll, TypeInv, TypeOK
  <2> QED
    BY <1>a, <1>b, <2>1, <2>3 DEF TypeInv
<1>4. CASE LeaveBody(w)
  <2>1. Counted' /\ activeBatches' \in 0 .. Cardinality(Workers)
    BY <1>0, <1>4, CountLeave DEF LeaveBody, BodySteps
  <2>2. TypeOK'
    BY <1>4, <2>1 DEF LeaveBody, TypeInv, TypeOK
  <2> QED
    BY <1>a, <1>b, <2>1, <2>2 DEF TypeInv
<1>5. CASE LookUpWriter(w)
  <2>1. /\ pc[w] = "lookup" /\ pc'[w] \in {"flushing", "building"}
        /\ \A v \in Workers \ {w} : pc'[v] = pc[v]
        /\ pc' \in [Workers -> {"due", "gate", "body", "lookup", "building", "flushing", "dead"}]
    BY <1>0, <1>5 DEF LookUpWriter
  <2>2. Counted' /\ activeBatches' \in 0 .. Cardinality(Workers)
    BY <1>5, <2>1, CountStay DEF LookUpWriter, BodySteps
  <2>3. seen' \in [Workers -> Nat]
    <3>1. TableVersion \in Nat
      BY KeyIsOfATable DEF TypeInv, TypeOK, TableVersion
    <3>2. seen' = seen \/ seen' = [seen EXCEPT ![w] = TableVersion]
      BY <1>5 DEF LookUpWriter
    <3> QED
      BY <1>0, <3>1, <3>2
  <2>4. TypeOK'
    BY <1>5, <2>1, <2>2, <2>3 DEF LookUpWriter, TypeInv, TypeOK
  <2> QED
    BY <1>a, <1>b, <2>2, <2>4 DEF TypeInv
<1>6. CASE BuildWriter(w)
  <2>1. Counted' /\ activeBatches' \in 0 .. Cardinality(Workers)
    BY <1>0, <1>6, CountStay DEF BuildWriter, BodySteps
  <2>2. cached' \in [Workers -> DbWriter \cup {NoWriter}]
    BY <1>6 DEF BuildWriter, TypeInv, TypeOK, DbWriter
  <2>3. TypeOK'
    BY <1>6, <2>1, <2>2 DEF BuildWriter, TypeInv, TypeOK
  <2> QED
    BY <1>a, <1>b, <2>1, <2>3 DEF TypeInv
<1>7. CASE Flush(w)
  <2>1. Counted' /\ activeBatches' \in 0 .. Cardinality(Workers)
    BY <1>0, <1>7, CountStay DEF Flush, BodySteps
  <2>2. currentBatch' \in [Workers -> SUBSET (1 .. MaxPos)]
    <3>1. currentBatch' = currentBatch \/ currentBatch' = [currentBatch EXCEPT ![w] = {}]
      BY <1>7 DEF Flush
    <3> QED
      BY <1>0, <3>1
  <2>3. written' \subseteq 1 .. MaxPos /\ late' \subseteq written' \X applied
    BY <1>0, <1>7 DEF Flush, TypeInv, TypeOK
  <2>4. TypeOK'
    BY <1>7, <2>1, <2>2, <2>3 DEF Flush, TypeInv, TypeOK
  <2> QED
    BY <1>a, <1>b, <2>1, <2>4 DEF TypeInv
<1>8. CASE Fail(w)
  <2>1. Counted' /\ activeBatches' \in 0 .. Cardinality(Workers)
    <3>1. CASE pc' = [pc EXCEPT ![w] = "due"] /\ activeBatches' = activeBatches - 1
      BY <1>0, <1>8, <3>1, CountLeave DEF Fail, Writing, BodySteps
    <3>2. CASE pc' = [pc EXCEPT ![w] = "body"] /\ UNCHANGED activeBatches
      BY <1>0, <1>8, <3>2, CountStay DEF Fail, Writing, BodySteps
    <3> QED
      BY <1>8, <3>1, <3>2 DEF Fail
  <2>2. /\ pc' \in [Workers -> {"due", "gate", "body", "lookup", "building", "flushing", "dead"}]
        /\ failed' \subseteq 1 .. MaxPos
    BY <1>0, <1>8 DEF Fail, TypeInv, TypeOK
  <2>3. TypeOK'
    BY <1>8, <2>1, <2>2 DEF Fail, TypeInv, TypeOK
  <2> QED
    BY <1>a, <1>b, <2>1, <2>3 DEF TypeInv
<1>c. CASE RefreshColumns(w)
  <2>1. Counted' /\ activeBatches' \in 0 .. Cardinality(Workers)
    BY <1>0, <1>c, CountStay DEF RefreshColumns, BodySteps
  <2>2. cached' \in [Workers -> DbWriter \cup {NoWriter}]
    <3>1. cached[w] \in DbWriter
      BY <1>c DEF RefreshColumns, TypeInv, HasWriter
    <3> QED
      BY <1>c, <3>1 DEF RefreshColumns, TypeInv, TypeOK, DbWriter
  <2>3. TypeOK'
    BY <1>c, <2>1, <2>2 DEF RefreshColumns, TypeInv, TypeOK
  <2> QED
    BY <1>a, <1>b, <2>1, <2>3 DEF TypeInv
<1>9. CASE FailFatally(w)
  <2>1. Counted' /\ activeBatches' \in 0 .. Cardinality(Workers)
    BY <1>0, <1>9, CountLeave DEF FailFatally, Writing, BodySteps
  <2>2. discarded' \subseteq 1 .. MaxPos
    BY <1>0, <1>9 DEF FailFatally, TypeInv, TypeOK
  <2>3. TypeOK'
    BY <1>9, <2>1, <2>2 DEF FailFatally, TypeInv, TypeOK
  <2> QED
    BY <1>a, <1>b, <2>1, <2>3 DEF TypeInv
<1> QED
  BY <1>1, <1>2, <1>3, <1>4, <1>5, <1>6, <1>7, <1>8, <1>9, <1>c DEF Work

LEMMA TypeNext ==
    ASSUME TypeInv, [Next]_vars
    PROVE  TypeInv'
<1>1. CASE UNCHANGED vars
  <2>1. UNCHANGED pc
    BY <1>1 DEF vars, workerVars
  <2>2. Counted'
    BY <1>1, <2>1, SameActive DEF vars, TypeInv, Counted
  <2>3. TypeOK' /\ AtDdl' /\ HasWriter'
    BY <1>1 DEF vars, producerVars, workerVars, tableVars, rowVars, TypeInv, TypeOK, AtDdl,
                HasWriter
  <2> QED
    BY <2>2, <2>3 DEF TypeInv
<1> QED
  BY <1>1, TypeProducer, TypeWorker DEF Next

\* Every variable of the barrier has its type, and no more workers are counted as
\* active than there are.
THEOREM TypeCorrect == Spec => []TypeOK
<1>1. Init => TypeInv
  BY TypeInit
<1>2. TypeInv /\ [Next]_vars => TypeInv'
  BY TypeNext
<1>3. TypeInv => TypeOK
  BY DEF TypeInv
<1> QED
  BY <1>1, <1>2, <1>3, PTL DEF Spec

--------------------------------------------------------------------------------
(* Rows before a DDL                                                          *)

Queued == UNION {records[i] : i \in 1 .. Len(records)}

Held == UNION {currentBatch[w] : w \in Workers}

\* A row that is done with, or waits for the next run of its worker.
Settled == written \cup failed \cup discarded

\* A row that was read is with the Debezium thread, queued, held, or done with.
Placed == 1 .. nRead \ ddls \subseteq batch \cup Queued \cup Held \cup Settled

\* A worker outside a body holds rows of a batch that failed, or none.
OutOfBody == \A w \in Workers : pc[w] \notin BodySteps => currentBatch[w] \subseteq failed

\* Where the Debezium thread is with a DDL whose drain has not timed out: the
\* queue is empty first, then every row before the DDL is done with.
Drained ==
    nRead \notin overdue =>
       /\ producer = "quiescing" => records = <<>>
       /\ producer \in {"applying", "invalidating"} => RowsBefore(nRead) \subseteq Settled

\* The rows before an executed DDL were written before it.
InPlace ==
    \A d \in applied \ overdue :
        /\ RowsBefore(d) \subseteq Settled
        /\ \A p \in RowsBefore(d) : <<p, d>> \in late => p \in failed \cup discarded

DrainInv == Placed /\ OutOfBody /\ Drained /\ InPlace

LEMMA DrainInit == Init => DrainInv
<1> SUFFICES ASSUME Init PROVE DrainInv
  OBVIOUS
<1>1. Placed
  BY DEF Init, Placed
<1>2. OutOfBody /\ Drained /\ InPlace
  BY DEF Init, OutOfBody, Drained, InPlace
<1> QED
  BY <1>1, <1>2 DEF DrainInv

\* Rows that are handed over go to the queue.
LEMMA HandOverKeepsRows ==
    ASSUME TypeInv, HandOver
    PROVE  batch' \cup Queued' = batch \cup Queued
<1>1. CASE batch = {}
  BY <1>1 DEF HandOver, Queued
<1>2. CASE batch # {}
  <2>1. /\ records \in Seq(SUBSET (1 .. MaxPos)) /\ batch \in SUBSET (1 .. MaxPos)
        /\ records' = Append(records, batch) /\ batch' = {}
    BY <1>2 DEF HandOver, TypeInv, TypeOK
  <2>2. PICK n \in Nat : n = Len(records)
    BY <2>1
  <2>3. /\ Len(records') = n + 1 /\ records'[n + 1] = batch
        /\ \A i \in 1 .. n : records'[i] = records[i]
    BY <2>1, <2>2
  <2>4. \A i : i \in 1 .. n + 1 <=> i \in 1 .. n \/ i = n + 1
    BY <2>2
  <2>5. Queued' = Queued \cup batch
    BY <2>2, <2>3, <2>4 DEF Queued
  <2> QED
    BY <2>1, <2>5
<1> QED
  BY <1>1, <1>2

\* A step that only reads rows, or moves the Debezium thread out of a DDL, keeps
\* the rest.
LEMMA PlaceKept ==
    ASSUME InPlace, UNCHANGED <<applied, written, failed, discarded, late>>,
           ddls \subseteq ddls', overdue \subseteq overdue'
    PROVE  InPlace'
  BY DEF InPlace, RowsBefore, Settled

LEMMA DrainProducer ==
    ASSUME TypeInv, DrainInv, ReadRow \/ EndOfList \/ ReadDDL \/ Barrier
    PROVE  DrainInv'
<1> USE DEF producerVars, workerVars, tableVars, rowVars
<1>0. /\ UNCHANGED <<pc, currentBatch, written, failed, discarded, late>>
      /\ nRead \in Nat /\ Held' = Held /\ Settled' = Settled
      /\ OutOfBody'
  <2>1. UNCHANGED <<pc, currentBatch, written, failed, discarded, late>>
    BY DEF ReadRow, EndOfList, ReadDDL, Barrier, PauseWriters, AwaitQuiescent, IgnoreDDL,
           ParseFails, ExecuteDDL, DDLFails, InvalidateTable, Resume
  <2>2. nRead \in Nat
    BY BarrierAssumption DEF BarrierAssumption, TypeInv, TypeOK
  <2> QED
    BY <2>1, <2>2 DEF Held, Settled, DrainInv, OutOfBody
<1>1. CASE ReadRow
  <2>1. /\ nRead' = nRead + 1 /\ batch' = batch \cup {nRead + 1} /\ producer' = "reading"
        /\ UNCHANGED <<ddls, records, applied, overdue>>
    BY <1>1 DEF ReadRow
  <2>2. 1 .. nRead' = 1 .. nRead \cup {nRead + 1}
    BY <1>0, <2>1
  <2>3. Placed'
    BY <1>0, <2>1, <2>2 DEF DrainInv, Placed, Queued
  <2>4. Drained' /\ InPlace'
    BY <1>0, <2>1, PlaceKept DEF DrainInv, Drained
  <2> QED
    BY <1>0, <2>3, <2>4 DEF DrainInv
<1>2. CASE EndOfList
  <2>1. HandOver /\ producer' = "reading" /\ UNCHANGED <<nRead, ddls, applied, overdue>>
    BY <1>2 DEF EndOfList
  <2>2. Placed'
    BY <1>0, <2>1, HandOverKeepsRows DEF DrainInv, Placed
  <2>3. Drained' /\ InPlace'
    BY <1>0, <2>1, PlaceKept DEF DrainInv, Drained
  <2> QED
    BY <1>0, <2>2, <2>3 DEF DrainInv
<1>3. CASE ReadDDL
  <2>1. /\ HandOver /\ producer' = "draining" /\ UNCHANGED <<applied, overdue>>
        /\ nRead' = nRead + 1 /\ ddls' = ddls \cup {nRead + 1}
    BY <1>3 DEF ReadDDL
  <2>2. 1 .. nRead' = 1 .. nRead \cup {nRead + 1}
    BY <1>0, <2>1
  <2>3. Placed'
    BY <1>0, <2>1, <2>2, HandOverKeepsRows DEF DrainInv, Placed
  <2>4. Drained' /\ InPlace'
    BY <1>0, <2>1, PlaceKept DEF DrainInv, Drained
  <2> QED
    BY <1>0, <2>3, <2>4 DEF DrainInv
<1>4. CASE PauseWriters
  <2>1. /\ producer' = "quiescing" /\ UNCHANGED <<nRead, ddls, batch, records, applied>>
        /\ records # <<>> => nRead \in overdue' /\ overdue \subseteq overdue'
        /\ overdue \subseteq overdue'
    BY <1>4 DEF PauseWriters
  <2>2. Placed'
    BY <1>0, <2>1 DEF DrainInv, Placed, Queued
  <2>3. Drained' /\ InPlace'
    BY <1>0, <2>1, PlaceKept DEF DrainInv, Drained
  <2> QED
    BY <1>0, <2>2, <2>3 DEF DrainInv
<1>5. CASE AwaitQuiescent
  <2>1. /\ producer = "quiescing" /\ producer' = "applying"
        /\ UNCHANGED <<nRead, ddls, batch, records, applied>>
        /\ overdue \subseteq overdue'
        /\ activeBatches # 0 => nRead \in overdue'
    BY <1>5 DEF AwaitQuiescent
  <2>2. Placed'
    BY <1>0, <2>1 DEF DrainInv, Placed, Queued
  <2>3. Drained'
    <3>1. SUFFICES ASSUME nRead \notin overdue'
                   PROVE  RowsBefore(nRead) \subseteq Settled
      BY <1>0, <2>1 DEF Drained, RowsBefore
    <3>2. activeBatches = 0 /\ records = <<>> /\ batch = {} /\ nRead \in ddls
      BY <2>1, <3>1 DEF DrainInv, Drained, TypeInv, AtDdl
    <3>3. Active = {}
      BY <3>2, ActiveFinite, FS_EmptySet DEF TypeInv, Counted
    <3>4. Held \subseteq failed
      BY <3>3 DEF Active, DrainInv, OutOfBody, Held
    <3>5. Queued = {}
      BY <3>2 DEF Queued
    <3>6. 1 .. nRead \ ddls \subseteq Settled
      BY <3>2, <3>4, <3>5 DEF DrainInv, Placed, Settled
    <3>7. 1 .. nRead - 1 \subseteq 1 .. nRead
      BY <1>0
    <3> QED
      BY <3>6, <3>7 DEF RowsBefore
  <2>4. InPlace'
    BY <1>0, <2>1, PlaceKept DEF DrainInv
  <2> QED
    BY <1>0, <2>2, <2>3, <2>4 DEF DrainInv
<1>6. CASE ExecuteDDL
  <2>1. /\ producer = "applying" /\ applied' = applied \cup {nRead}
        /\ UNCHANGED <<nRead, ddls, batch, records, overdue>>
    BY <1>6 DEF ExecuteDDL
  <2>2. Placed'
    BY <1>0, <2>1 DEF DrainInv, Placed, Queued
  <2>3. nRead \notin overdue => RowsBefore(nRead) \subseteq Settled
    BY <2>1 DEF DrainInv, Drained
  <2>4. Drained'
    <3>1. producer' = "invalidating" /\ RowsBefore(nRead)' = RowsBefore(nRead)
      BY <1>6, <2>1 DEF ExecuteDDL, RowsBefore
    <3> QED
      BY <1>0, <2>1, <2>3, <3>1 DEF Drained
  <2>5. InPlace'
    <3>1. SUFFICES ASSUME NEW d \in applied' \ overdue
                   PROVE  /\ RowsBefore(d) \subseteq Settled
                          /\ \A p \in RowsBefore(d) : <<p, d>> \in late => p \in failed \cup discarded
      BY <1>0, <2>1 DEF InPlace, RowsBefore
    <3>2. CASE d \in applied
      BY <3>1, <3>2 DEF DrainInv, InPlace
    <3>3. CASE d \notin applied
      <4>1. d = nRead /\ \A p : <<p, d>> \notin late
        BY <2>1, <3>1, <3>3 DEF TypeInv, TypeOK
      <4> QED
        BY <2>3, <3>1, <4>1
    <3> QED
      BY <3>2, <3>3
  <2> QED
    BY <1>0, <2>2, <2>4, <2>5 DEF DrainInv
<1>7. CASE IgnoreDDL \/ ParseFails \/ DDLFails \/ InvalidateTable \/ Resume
  <2>1. /\ UNCHANGED <<nRead, ddls, batch, records, applied, overdue>>
        /\ producer \in {"applying", "invalidating", "resuming"}
        /\ producer' \in {"applying", "resuming", "reading"}
        /\ producer = "resuming" => producer' = "reading"
    <3>1. AttemptFails => producer' \in {"applying", "resuming", "reading"}
      BY DEF AttemptFails, Throw
    <3>2. CASE IgnoreDDL
      BY <3>2 DEF IgnoreDDL
    <3>3. CASE ParseFails
      BY <3>3 DEF ParseFails, Throw
    <3>4. CASE DDLFails
      BY <3>1, <3>4 DEF DDLFails
    <3>5. CASE InvalidateTable
      BY <3>1, <3>5 DEF InvalidateTable
    <3>6. CASE Resume
      BY <3>6 DEF Resume
    <3> QED
      BY <1>7, <3>2, <3>3, <3>4, <3>5, <3>6
  <2>2. Placed'
    BY <1>0, <2>1 DEF DrainInv, Placed, Queued
  <2>3. Drained'
    BY <1>0, <2>1 DEF DrainInv, Drained, RowsBefore
  <2>4. InPlace'
    BY <1>0, <2>1, PlaceKept DEF DrainInv
  <2> QED
    BY <1>0, <2>2, <2>3, <2>4 DEF DrainInv
<1> QED
  BY <1>1, <1>2, <1>3, <1>4, <1>5, <1>6, <1>7 DEF Barrier

\* More rows are done with, and none of them by way of a late write of a row that
\* was not done with.
LEMMA SettledGrows ==
    ASSUME TypeInv, DrainInv, UNCHANGED <<producer, nRead, ddls, applied, overdue>>,
           Settled \subseteq Settled', failed \subseteq failed', discarded \subseteq discarded',
           producer = "quiescing" /\ records = <<>> => records' = <<>>,
           \A p, d : <<p, d>> \in late' \ late =>
                        p \notin written /\ d \in applied /\ p < d
    PROVE  Drained' /\ InPlace'
<1>1. \A d : RowsBefore(d)' = RowsBefore(d)
  BY DEF RowsBefore
<1>2. Drained'
  BY <1>1 DEF DrainInv, Drained
<1>3. InPlace'
  <2>1. SUFFICES ASSUME NEW d \in applied \ overdue
                 PROVE  /\ RowsBefore(d) \subseteq Settled'
                        /\ \A p \in RowsBefore(d) : <<p, d>> \in late' => p \in failed' \cup discarded'
    BY <1>1 DEF InPlace
  <2>2. RowsBefore(d) \subseteq Settled
    BY DEF DrainInv, InPlace
  <2>3. ASSUME NEW p \in RowsBefore(d), <<p, d>> \in late'
        PROVE  p \in failed' \cup discarded'
    <3>1. CASE <<p, d>> \in late
      BY <3>1 DEF DrainInv, InPlace
    <3>2. CASE <<p, d>> \notin late
      BY <2>2, <2>3, <3>2 DEF Settled
    <3> QED
      BY <3>1, <3>2
  <2> QED
    BY <2>2, <2>3
<1> QED
  BY <1>2, <1>3

LEMMA DrainWorker ==
    ASSUME TypeInv, DrainInv, NEW w \in Workers, Work(w) \/ Fail(w) \/ FailFatally(w)
    PROVE  DrainInv'
<1> USE DEF DebeziumThread, producerVars, tableVars, rowVars
<1>0. /\ pc \in [Workers -> {"due", "gate", "body", "lookup", "building", "flushing", "dead"}]
      /\ currentBatch \in [Workers -> SUBSET (1 .. MaxPos)]
      /\ records \in Seq(SUBSET (1 .. MaxPos))
  BY DEF TypeInv, TypeOK
<1>a. UNCHANGED <<producer, nRead, ddls, batch, applied, overdue>>
  BY DEF Work, Fail, FailFatally, BeforeExecute, EnterBody, Poll, LeaveBody,
         LookUpWriter, BuildWriter, RefreshColumns, Flush
<1>1. CASE \/ BeforeExecute(w) \/ EnterBody(w) \/ LeaveBody(w)
           \/ LookUpWriter(w) \/ BuildWriter(w) \/ RefreshColumns(w)
  <2>1. UNCHANGED <<records, currentBatch, written, failed, discarded, late>>
    BY <1>1 DEF BeforeExecute, EnterBody, LeaveBody, LookUpWriter, BuildWriter, RefreshColumns
  <2>2. Settled' = Settled /\ Queued' = Queued /\ Held' = Held
    BY <2>1 DEF Settled, Queued, Held
  <2>3. Placed'
    BY <1>a, <2>2 DEF DrainInv, Placed
  <2>4. /\ \A v \in Workers \ {w} : pc'[v] = pc[v]
        /\ pc'[w] \notin BodySteps => currentBatch[w] = {} \/ pc[w] \notin BodySteps
    BY <1>0, <1>1 DEF BeforeExecute, EnterBody, LeaveBody, LookUpWriter, BuildWriter,
                      RefreshColumns, BodySteps
  <2>5. OutOfBody'
    BY <2>1, <2>4 DEF DrainInv, OutOfBody
  <2>6. Drained' /\ InPlace'
    BY <1>a, <2>1, <2>2, SettledGrows
  <2> QED
    BY <2>3, <2>5, <2>6 DEF DrainInv
<1>2. CASE Poll(w)
  <2>1. /\ UNCHANGED <<written, failed, discarded, late>> /\ pc[w] \in BodySteps /\ pc'[w] \in BodySteps
        /\ \A v \in Workers \ {w} : pc'[v] = pc[v]
    BY <1>0, <1>2 DEF Poll, BodySteps
  <2>2. Settled' = Settled
    BY <2>1 DEF Settled
  <2>3. CASE currentBatch[w] # {}
    <3>1. UNCHANGED <<records, currentBatch>>
      BY <1>2, <2>3 DEF Poll
    <3>2. Placed'
      BY <1>a, <2>2, <3>1 DEF DrainInv, Placed, Queued, Held
    <3>3. OutOfBody'
      BY <2>1, <3>1 DEF DrainInv, OutOfBody
    <3>4. Drained' /\ InPlace'
      BY <1>a, <2>1, <2>2, <3>1, SettledGrows
    <3> QED
      BY <3>2, <3>3, <3>4 DEF DrainInv
  <2>4. CASE currentBatch[w] = {}
    <3>1. /\ records # <<>> /\ records' = Tail(records)
          /\ currentBatch'[w] = Head(records)
          /\ \A v \in Workers \ {w} : currentBatch'[v] = currentBatch[v]
      BY <1>0, <1>2, <2>4 DEF Poll
    <3>2. PICK n \in Nat : n = Len(records)
      BY <1>0
    <3>3. /\ Head(records) = records[1] /\ Len(records') = n - 1 /\ n >= 1
          /\ \A i \in 1 .. n - 1 : records'[i] = records[i + 1]
      BY <1>0, <3>1, <3>2
    <3>4. Queued \subseteq Queued' \cup currentBatch'[w]
      <4>1. SUFFICES ASSUME NEW i \in 1 .. n
                     PROVE  records[i] \subseteq Queued' \cup currentBatch'[w]
        BY <3>2 DEF Queued
      <4>2. CASE i = 1
        BY <3>1, <3>3, <4>2
      <4>3. CASE i # 1
        <5>1. i - 1 \in 1 .. Len(records') /\ records'[i - 1] = records[i]
          BY <3>3, <4>3
        <5> QED
          BY <5>1 DEF Queued
      <4> QED
        BY <4>2, <4>3
    <3>5. Held \subseteq Held' /\ currentBatch'[w] \subseteq Held'
      BY <2>4, <3>1 DEF Held
    <3>6. Placed'
      BY <1>a, <2>2, <3>4, <3>5 DEF DrainInv, Placed
    <3>7. OutOfBody'
      BY <2>1, <3>1 DEF DrainInv, OutOfBody
    <3>8. Drained' /\ InPlace'
      BY <1>a, <2>1, <2>2, <3>1, SettledGrows
    <3> QED
      BY <3>6, <3>7, <3>8 DEF DrainInv
  <2> QED
    BY <2>3, <2>4
<1>3. CASE Flush(w)
  <2>1. /\ written' = written \cup currentBatch[w] /\ UNCHANGED <<records, failed, discarded>>
        /\ late' = late \cup {x \in (currentBatch[w] \ written) \X applied : x[1] < x[2]}
        /\ pc'[w] = "body" /\ \A v \in Workers \ {w} : pc'[v] = pc[v]
        /\ \A v \in Workers \ {w} : currentBatch'[v] = currentBatch[v]
    BY <1>0, <1>3 DEF Flush
  <2>2. Settled' = Settled \cup currentBatch[w] /\ Queued' = Queued
    BY <2>1 DEF Settled, Queued
  <2>3. Held \subseteq Held' \cup currentBatch[w]
    BY <2>1 DEF Held
  <2>4. Placed'
    BY <1>a, <2>2, <2>3 DEF DrainInv, Placed
  <2>5. OutOfBody'
    BY <2>1 DEF DrainInv, OutOfBody, BodySteps
  <2>6. \A p, d : <<p, d>> \in late' \ late => p \notin written /\ d \in applied /\ p < d
    BY <2>1
  <2>7. Drained' /\ InPlace'
    BY <1>a, <2>1, <2>2, <2>6, SettledGrows
  <2> QED
    BY <2>4, <2>5, <2>7 DEF DrainInv
<1>4. CASE Fail(w)
  <2>1. /\ failed' = failed \cup currentBatch[w]
        /\ UNCHANGED <<records, currentBatch, written, discarded, late>>
        /\ \A v \in Workers \ {w} : pc'[v] = pc[v]
    BY <1>0, <1>4 DEF Fail
  <2>2. Settled \subseteq Settled' /\ Queued' = Queued /\ Held' = Held
    BY <2>1 DEF Settled, Queued, Held
  <2>3. Placed'
    BY <1>a, <2>2 DEF DrainInv, Placed
  <2>4. OutOfBody'
    BY <2>1 DEF DrainInv, OutOfBody
  <2>5. Drained' /\ InPlace'
    BY <1>a, <2>1, <2>2, SettledGrows
  <2> QED
    BY <2>3, <2>4, <2>5 DEF DrainInv
<1>5. CASE FailFatally(w)
  <2>1. /\ discarded' = discarded \cup currentBatch[w] /\ currentBatch'[w] = {}
        /\ UNCHANGED <<records, written, failed, late>>
        /\ \A v \in Workers \ {w} : pc'[v] = pc[v] /\ currentBatch'[v] = currentBatch[v]
    BY <1>0, <1>5 DEF FailFatally
  <2>2. Settled' = Settled \cup currentBatch[w] /\ Queued' = Queued
    BY <2>1 DEF Settled, Queued
  <2>3. Held \subseteq Held' \cup currentBatch[w]
    BY <2>1 DEF Held
  <2>4. Placed'
    BY <1>a, <2>2, <2>3 DEF DrainInv, Placed
  <2>5. OutOfBody'
    BY <2>1 DEF DrainInv, OutOfBody
  <2>6. Drained' /\ InPlace'
    BY <1>a, <2>1, <2>2, SettledGrows
  <2> QED
    BY <2>4, <2>5, <2>6 DEF DrainInv
<1> QED
  BY <1>1, <1>2, <1>3, <1>4, <1>5 DEF Work

LEMMA DrainNext ==
    ASSUME TypeInv, DrainInv, [Next]_vars
    PROVE  DrainInv'
<1>1. CASE UNCHANGED vars
  BY <1>1 DEF vars, producerVars, workerVars, tableVars, rowVars, DrainInv, Placed, OutOfBody,
              Drained, InPlace, RowsBefore, Settled, Queued, Held
<1> QED
  BY <1>1, DrainProducer, DrainWorker DEF Next

\* A DDL lands at its place in the log: the rows before it reach ClickHouse before
\* it does, unless their batch failed or the drain timed out, for any number of
\* workers, rows, DDLs and attempts.
THEOREM DdlsLandInPlace == Spec => []DdlAfterItsRows
<1>1. Init => TypeInv /\ DrainInv
  BY TypeInit, DrainInit
<1>2. TypeInv /\ DrainInv /\ [Next]_vars => (TypeInv /\ DrainInv)'
  BY TypeNext, DrainNext
<1>3. DrainInv => DdlAfterItsRows
  BY DEF DrainInv, InPlace, Settled, DdlAfterItsRows
<1> QED
  BY <1>1, <1>2, <1>3, PTL DEF Spec

--------------------------------------------------------------------------------
(* Inserts after a DDL                                                        *)

\* While a DDL is applied whose drain did not time out, nothing is queued and the
\* workers hold only batches that have failed.
Quiet ==
    producer \in {"applying", "invalidating"} /\ nRead \notin overdue =>
        records = <<>> /\ \A w \in Workers : currentBatch[w] \subseteq failed

\* A worker with a batch that has not failed uses the current version.
LookedUp ==
    overdue = {} =>
        \A w \in Workers :
            \/ currentBatch[w] \subseteq failed
            \/ /\ pc[w] = "building" => seen[w] = TableVersion
               /\ pc[w] = "flushing" => cached[w].version = TableVersion

LEMMA InsertInit == Init => Quiet /\ LookedUp
BY DEF Init, Quiet, LookedUp

LEMMA QuietProducer ==
    ASSUME TypeInv, DrainInv, Quiet, ReadRow \/ EndOfList \/ ReadDDL \/ Barrier
    PROVE  Quiet'
<1> USE DEF producerVars, workerVars, tableVars, rowVars
<1>0. UNCHANGED <<pc, currentBatch, failed>>
  BY DEF ReadRow, EndOfList, ReadDDL, Barrier, PauseWriters, AwaitQuiescent, IgnoreDDL,
         ParseFails, ExecuteDDL, DDLFails, InvalidateTable, Resume
<1>1. CASE AwaitQuiescent
  <2>1. /\ producer = "quiescing" /\ UNCHANGED <<nRead, records>> /\ overdue \subseteq overdue'
        /\ activeBatches # 0 => nRead \in overdue'
    BY <1>1 DEF AwaitQuiescent
  <2>2. SUFFICES ASSUME nRead \notin overdue'
                 PROVE  records = <<>> /\ \A w \in Workers : currentBatch[w] \subseteq failed
    BY <1>0, <2>1 DEF Quiet
  <2>3. activeBatches = 0 /\ records = <<>>
    BY <2>1, <2>2 DEF DrainInv, Drained
  <2>4. Active = {}
    BY <2>3, ActiveFinite, FS_EmptySet DEF TypeInv, Counted
  <2> QED
    BY <2>3, <2>4 DEF Active, DrainInv, OutOfBody
<1>2. CASE ReadRow \/ EndOfList \/ ReadDDL \/ PauseWriters \/ IgnoreDDL \/ ParseFails \/ Resume
  <2>1. producer' \notin {"applying", "invalidating"}
    BY <1>2 DEF ReadRow, EndOfList, ReadDDL, PauseWriters, IgnoreDDL, ParseFails, Throw, Resume
  <2> QED
    BY <2>1 DEF Quiet
<1>3. CASE ExecuteDDL \/ DDLFails \/ InvalidateTable
  <2>1. producer \in {"applying", "invalidating"} /\ UNCHANGED <<nRead, records, overdue>>
    BY <1>3 DEF ExecuteDDL, DDLFails, InvalidateTable
  <2> QED
    BY <1>0, <2>1 DEF Quiet
<1> QED
  BY <1>1, <1>2, <1>3 DEF Barrier

LEMMA LookedUpProducer ==
    ASSUME FreshInv, Quiet, LookedUp, ReadRow \/ EndOfList \/ ReadDDL \/ Barrier
    PROVE  LookedUp'
<1> USE DEF producerVars, workerVars, tableVars, rowVars
<1>0. UNCHANGED <<pc, currentBatch, failed, seen, cached>> /\ overdue \subseteq overdue'
  BY DEF ReadRow, EndOfList, ReadDDL, Barrier, PauseWriters, AwaitQuiescent, IgnoreDDL,
         ParseFails, ExecuteDDL, DDLFails, InvalidateTable, Resume
<1>1. CASE InvalidateTable
  <2>1. producer = "invalidating" /\ UNCHANGED overdue
    BY <1>1 DEF InvalidateTable
  <2> QED
    BY <1>0, <2>1 DEF Quiet, LookedUp
<1>2. CASE ~InvalidateTable
  <2>1. UNCHANGED tableVersions
    BY <1>2 DEF ReadRow, EndOfList, ReadDDL, Barrier, PauseWriters, AwaitQuiescent, IgnoreDDL,
                ParseFails, ExecuteDDL, DDLFails, Resume
  <2> QED
    BY <1>0, <2>1, SameVersion DEF LookedUp
<1> QED
  BY <1>1, <1>2

LEMMA InsertWorker ==
    ASSUME TypeInv, Quiet, LookedUp, NEW w \in Workers, Work(w) \/ Fail(w) \/ FailFatally(w)
    PROVE  Quiet' /\ LookedUp'
<1> USE DEF DebeziumThread, producerVars, tableVars, rowVars
<1>0. /\ pc \in [Workers -> {"due", "gate", "body", "lookup", "building", "flushing", "dead"}]
      /\ currentBatch \in [Workers -> SUBSET (1 .. MaxPos)]
      /\ seen \in [Workers -> Nat] /\ cached \in [Workers -> DbWriter \cup {NoWriter}]
  BY DEF TypeInv, TypeOK
<1>1. UNCHANGED <<producer, nRead, overdue, tableVersions>> /\ failed \subseteq failed'
  BY DEF Work, Fail, FailFatally, BeforeExecute, EnterBody, Poll, LeaveBody,
         LookUpWriter, BuildWriter, RefreshColumns, Flush
<1>2. TableVersion' = TableVersion
  BY <1>1, SameVersion
<1>3. \A v \in Workers \ {w} : /\ pc'[v] = pc[v] /\ currentBatch'[v] = currentBatch[v]
                                /\ seen'[v] = seen[v] /\ cached'[v] = cached[v]
  BY <1>0 DEF Work, Fail, FailFatally, BeforeExecute, EnterBody, Poll, LeaveBody,
              LookUpWriter, BuildWriter, RefreshColumns, Flush
<1>4. records = <<>> => records' = <<>> /\ currentBatch'[w] \subseteq currentBatch[w]
  BY <1>0 DEF Work, Fail, FailFatally, BeforeExecute, EnterBody, Poll, LeaveBody,
              LookUpWriter, BuildWriter, RefreshColumns, Flush
<1>5. Quiet'
  BY <1>1, <1>3, <1>4 DEF Quiet
<1>6. \/ currentBatch'[w] \subseteq failed'
      \/ /\ pc'[w] = "building" => seen'[w] = TableVersion
         /\ pc'[w] = "flushing" => cached'[w].version = TableVersion
      \/ overdue # {}
  <2>1. CASE LookUpWriter(w)
    BY <1>0, <2>1 DEF LookUpWriter
  <2>2. CASE BuildWriter(w)
    <3>1. /\ pc[w] = "building" /\ pc'[w] = "flushing" /\ cached'[w].version = seen[w]
          /\ currentBatch' = currentBatch
      BY <1>0, <2>2 DEF BuildWriter
    <3> QED
      BY <1>1, <3>1 DEF LookedUp
  <2>3. CASE RefreshColumns(w)
    <3>1. /\ pc[w] = "flushing" /\ pc' = pc /\ cached'[w].version = cached[w].version
          /\ currentBatch' = currentBatch
      BY <1>0, <2>3 DEF RefreshColumns
    <3> QED
      BY <1>1, <3>1 DEF LookedUp
  <2>4. CASE \/ BeforeExecute(w) \/ EnterBody(w) \/ Poll(w) \/ LeaveBody(w)
             \/ Flush(w) \/ Fail(w) \/ FailFatally(w)
    <3>1. pc'[w] \notin {"building", "flushing"}
      BY <1>0, <2>4 DEF BeforeExecute, EnterBody, Poll, LeaveBody, Flush, Fail, FailFatally
    <3> QED
      BY <3>1
  <2> QED
    BY <2>1, <2>2, <2>3, <2>4 DEF Work
<1>7. LookedUp'
  BY <1>1, <1>2, <1>3, <1>6 DEF LookedUp
<1> QED
  BY <1>5, <1>7

LEMMA InsertNext ==
    ASSUME TypeInv, DrainInv, FreshInv, Quiet, LookedUp, [Next]_vars
    PROVE  Quiet' /\ LookedUp'
<1>1. CASE UNCHANGED vars
  BY <1>1, SameVersion
     DEF vars, producerVars, workerVars, tableVars, rowVars, Quiet, LookedUp
<1> QED
  BY <1>1, QuietProducer, LookedUpProducer, InsertWorker DEF Next

\* However a DDL and the construction of a writer interleave: once the table of
\* the workers is marked, a writer that a worker takes for current has its columns,
\* and no worker inserts with another, unless a drain timed out or its batch failed.
THEOREM AlwaysFresh == Spec => []FreshWriter
<1>1. Init => TypeInv /\ DrainInv /\ FreshInv /\ Quiet /\ LookedUp
  BY TypeInit, DrainInit, FreshInit, InsertInit
<1>2. TypeInv /\ DrainInv /\ FreshInv /\ Quiet /\ LookedUp /\ [Next]_vars
          => (TypeInv /\ DrainInv /\ FreshInv /\ Quiet /\ LookedUp)'
  BY TypeNext, DrainNext, FreshNext, InsertNext
<1>3. FreshInv /\ LookedUp => FreshWriter
  BY DEF FreshInv, UpToDate, LookedUp, FreshWriter, Inserting
<1> QED
  BY <1>1, <1>2, <1>3, PTL DEF Spec
================================================================================
