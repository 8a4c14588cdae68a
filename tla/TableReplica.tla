----------------------------- MODULE TableReplica ------------------------------
(******************************************************************************)
(* How a batch becomes rows of one ClickHouse table.                          *)
(*                                                                            *)
(*   - db/batch/GroupInsertQueryWithBatchRecords sorts the records of a batch *)
(*     into lists, one for each INSERT statement.  The statement names the    *)
(*     columns that are not null in an image of the record, so that rows of   *)
(*     different shape are in different lists, and an update is in the list   *)
(*     of its before-image and in the list of its after-image.                *)
(*   - db/batch/PreparedStatementExecutor runs the lists in the order of the  *)
(*     hash map, in chunks.  Between two chunks an error sends the whole      *)
(*     batch back to its first record.                                        *)
(*   - The table is a ReplacingMergeTree: of the rows with one sorting key    *)
(*     the one with the highest version is kept, and of two with the same     *)
(*     version the one inserted last.                                         *)
(*                                                                            *)
(* One worker and one table with a key and one column that may be null.       *)
(* Records get consecutive versions, as the records of one second do.         *)
(******************************************************************************)
EXTENDS Integers, Sequences, SequencesExt

CONSTANTS
    Keys,               \* values of the sorting key
    Values,             \* values of the other column
    Null,               \* the other column is null
    NoRow,              \* an image that a record does not have
    Operations,         \* what the source does: some of "c", "u", "d", "t"
    BUFFER_MAX_RECORDS, \* buffer.max.records: the size of a chunk
    MaxRecords,         \* bound: changes of the source
    MaxFailures         \* bound: errors of ClickHouse

ASSUME ReplicaAssumption ==
    /\ Null \notin Values
    /\ Operations \subseteq {"c", "u", "d", "t"}
    /\ BUFFER_MAX_RECORDS \in Nat \ {0}
    /\ MaxRecords \in Nat
    /\ MaxFailures \in Nat

Row == [key : Keys, val : Values \cup {Null}]

ASSUME NoRowAssumption == NoRow \notin Row

Record == [op : Operations, before : Row \cup {NoRow}, after : Row \cup {NoRow},
           version : 1 .. MaxRecords]

\* The columns an INSERT can name; no columns stand for TRUNCATE TABLE.
TruncateQuery == {}

Queries ==
    {{"key"}, {"key", "val"}} \cup (IF "t" \in Operations THEN {TruncateQuery} ELSE {})

VARIABLES
    source,             \* the rows of the table in MySQL
    captured,           \* changes captured so far: the last version given
    batch,              \* the records of the current batch
    pc,                 \* "capturing", "grouping" or "writing"
    order,              \* the order in which the hash map yields the queries
    queryToRecordsMap,  \* what is left of each list
    table,              \* the rows ReplacingMergeTree keeps
    failures,
    \* What an observer remembers
    held,               \* every row the source has ever had
    disturbed           \* a batch that the order of the lists can upset

vars == <<source, captured, batch, pc, order, queryToRecordsMap, table, failures, held,
          disturbed>>

Nothing == [q \in Queries |-> <<>>]

Init ==
    /\ source = {}
    /\ captured = 0
    /\ batch = <<>>
    /\ pc = "capturing"
    /\ order \in SetToSeqs(Queries)
    /\ queryToRecordsMap = Nothing
    /\ table = {}
    /\ failures = 0
    /\ held = {}
    /\ disturbed = FALSE

--------------------------------------------------------------------------------
(* The source.  What it does while a batch is written goes into a later batch. *)

\* A change of the table is captured with the next version.
Capture(op, before, after) ==
    /\ op \in Operations
    /\ pc = "capturing"
    /\ captured < MaxRecords
    /\ captured' = captured + 1
    /\ batch' = Append(batch, [op |-> op, before |-> before, after |-> after,
                               version |-> captured + 1])
    /\ held' = held \cup source'
    /\ UNCHANGED <<pc, order, queryToRecordsMap, table, failures, disturbed>>

KeyIsFree(rows, row) == \A r \in rows : r.key # row.key

Insert ==
    \E row \in Row :
       /\ KeyIsFree(source, row)
       /\ source' = source \cup {row}
       /\ Capture("c", NoRow, row)

\* An update may change the key of its row.
Update ==
    \E old \in source, new \in Row :
       /\ new # old
       /\ KeyIsFree(source \ {old}, new)
       /\ source' = (source \ {old}) \cup {new}
       /\ Capture("u", old, new)

Delete ==
    \E row \in source :
       /\ source' = source \ {row}
       /\ Capture("d", row, NoRow)

Truncate ==
    /\ source' = {}
    /\ Capture("t", NoRow, NoRow)

--------------------------------------------------------------------------------
(* The worker takes a batch.                                                  *)

\* The lists are executed in no particular order, which is the order of the log
\* for neither of these: a TRUNCATE among other records, an update that turns a
\* null into a value, and an update that turns a value into null, followed by one
\* that moves its row.
OrderMatters(records) ==
    LET n == Len(records)
        Fills(r) == r.op = "u" /\ r.before.val = Null /\ r.after.val # Null
        Empties(r) == r.op = "u" /\ r.before.val # Null /\ r.after.val = Null
        Moves(r) == r.op = "u" /\ r.before.key # r.after.key
    IN  \/ n > 1 /\ \E i \in 1 .. n : records[i].op = "t"
        \/ \E i \in 1 .. n : Fills(records[i])
        \/ \E i \in 1 .. n - 1 :
              Empties(records[i]) /\ Moves(records[i + 1])
              /\ records[i + 1].before = records[i].after

Poll ==
    /\ pc = "capturing"
    /\ batch # <<>>
    /\ pc' = "grouping"
    /\ disturbed' = (disturbed \/ OrderMatters(batch))
    /\ UNCHANGED <<source, captured, batch, order, queryToRecordsMap, table, failures, held>>

--------------------------------------------------------------------------------
(* GroupInsertQueryWithBatchRecords                                           *)

\* Mutant: no image counts as having a value.
KeyOnly(row) == {"key"}

\* setBeforeStruct and setAfterStruct, createColumns: the columns of an image
\* that are not null name the query.
ModifiedFields(row) == {"key"} \cup (IF row.val = Null THEN {} ELSE {"val"})

AddRecord(map, query, record) == [map EXCEPT ![query] = Append(@, record)]

\* One round of groupQueryWithRecords.  An update is added twice, also when both
\* lists are the same; a TRUNCATE takes the place of one before it.
updateQueryToRecordsMap(map, record) ==
    CASE record.op = "c" -> AddRecord(map, ModifiedFields(record.after), record)
      [] record.op = "d" -> AddRecord(map, ModifiedFields(record.before), record)
      [] record.op = "u" ->
            AddRecord(AddRecord(map, ModifiedFields(record.before), record),
                      ModifiedFields(record.after), record)
      [] record.op = "t" -> [map EXCEPT ![TruncateQuery] = <<record>>]

\* The lists of a batch: one round for each record, from empty lists.
Grouped(records) ==
    LET map[i \in 0 .. Len(records)] ==
            IF i = 0 THEN Nothing ELSE updateQueryToRecordsMap(map[i - 1], records[i])
    IN  map[Len(records)]

groupQueryWithRecords ==
    /\ pc = "grouping"
    /\ queryToRecordsMap' = Grouped(batch)
    /\ pc' = "writing"
    /\ UNCHANGED <<source, captured, batch, order, table, failures, held, disturbed>>

--------------------------------------------------------------------------------
(* PreparedStatementExecutor                                                  *)

\* insertPreparedStatement: a column the query does not name gets its default.
InsertedRow(query, image, version, deleted) ==
    [key     |-> image.key,
     val     |-> IF "val" \in query THEN image.val ELSE Null,
     version |-> version,
     deleted |-> deleted]

\* Mutant: an update that changes the key is like any other.
NeverRelocates(record) == FALSE

updateRelocatesSortingKey(record) == record.before.key # record.after.key

\* The rows a record stages.  An update that moves its row leaves a tombstone,
\* one version below the row, where it was.
StagedRows(query, record) ==
    CASE record.op = "c" -> {InsertedRow(query, record.after, record.version, FALSE)}
      [] record.op = "d" -> {InsertedRow(query, record.before, record.version, TRUE)}
      [] record.op = "u" ->
            {InsertedRow(query, record.after, record.version, FALSE)} \cup
            (IF updateRelocatesSortingKey(record)
             THEN {InsertedRow(query, record.before, record.version - 1, TRUE)}
             ELSE {})

\* ReplacingMergeTree with FINAL, after a block of rows: what the statement of
\* each position of the block inserts.  (Not code of the connector.)
Merge(rows, block) ==
    LET Outlives(r, n) ==   \* a row that was inserted at position n
            \A i \in DOMAIN block : \A s \in block[i] : s.key = r.key =>
                s.version < r.version \/ (s.version = r.version /\ i <= n)
    IN  {r \in rows : Outlives(r, 0)} \cup
        UNION {{s \in block[n] : /\ Outlives(s, n)
                                /\ \A r \in rows : r.key = s.key => r.version <= s.version}
               : n \in DOMAIN block}

\* executePreparedStatement for a chunk.  It stages the rows in order and sends
\* them as one block; a TRUNCATE is alone in its list.
ExecuteChunk(rows, query, chunk) ==
    IF \E i \in DOMAIN chunk : chunk[i].op = "t"
    THEN {}
    ELSE Merge(rows, [i \in DOMAIN chunk |-> StagedRows(query, chunk[i])])

Pending == {i \in DOMAIN order : queryToRecordsMap[order[i]] # <<>>}

\* The query addToPreparedStatementBatch is at, and its next chunk.
CurrentQuery == order[CHOOSE i \in Pending : \A j \in Pending : i <= j]

NextChunk ==
    LET list == queryToRecordsMap[CurrentQuery]
    IN  SubSeq(list, 1, IF Len(list) < BUFFER_MAX_RECORDS THEN Len(list)
                                                          ELSE BUFFER_MAX_RECORDS)

WriteChunk ==
    /\ pc = "writing"
    /\ Pending # {}
    /\ table' = ExecuteChunk(table, CurrentQuery, NextChunk)
    /\ queryToRecordsMap' =
          [queryToRecordsMap EXCEPT ![CurrentQuery] =
              SubSeq(@, Len(NextChunk) + 1, Len(@))]
    /\ UNCHANGED <<source, captured, batch, pc, order, failures, held, disturbed>>

\* An error of a chunk, whose rows are in the table or not, fails the batch.  The
\* worker keeps it and groups its records again.
FailChunk ==
    /\ pc = "writing"
    /\ Pending # {}
    /\ failures < MaxFailures
    /\ failures' = failures + 1
    /\ table' \in {table, ExecuteChunk(table, CurrentQuery, NextChunk)}
    /\ queryToRecordsMap' = Nothing
    /\ pc' = "grouping"
    /\ UNCHANGED <<source, captured, batch, order, held, disturbed>>

\* Mutant: the batch is done with its first list.
FinishEarly ==
    /\ pc = "writing"
    /\ batch' = <<>>
    /\ pc' = "capturing"
    /\ UNCHANGED <<source, captured, order, queryToRecordsMap, table, failures, held,
                   disturbed>>

\* Every list has been executed: the batch is done.
FinishBatch ==
    /\ pc = "writing"
    /\ Pending = {}
    /\ batch' = <<>>
    /\ pc' = "capturing"
    /\ UNCHANGED <<source, captured, order, queryToRecordsMap, table, failures, held,
                   disturbed>>

--------------------------------------------------------------------------------

Next ==
    \/ Insert \/ Update \/ Delete \/ Truncate
    \/ Poll \/ groupQueryWithRecords \/ WriteChunk \/ FailChunk \/ FinishBatch

Spec == Init /\ [][Next]_vars

--------------------------------------------------------------------------------
(* Properties                                                                 *)

TableRow == [key : Keys, val : Values \cup {Null}, version : 0 .. MaxRecords,
             deleted : BOOLEAN]

\* Every variable has its type, and a list only ever holds records of the batch.
TypeOK ==
    /\ source \subseteq Row
    /\ held \subseteq Row
    /\ captured \in 0 .. MaxRecords
    /\ batch \in Seq(Record)
    /\ pc \in {"capturing", "grouping", "writing"}
    /\ order \in SetToSeqs(Queries)
    /\ queryToRecordsMap \in [Queries -> Seq(ToSet(batch))]
    /\ table \subseteq TableRow
    /\ failures \in 0 .. MaxFailures
    /\ disturbed \in BOOLEAN

\* What SELECT ... FINAL returns.
View == {[key |-> r.key, val |-> r.val] : r \in {x \in table : ~x.deleted}}

\* Every change captured is in ClickHouse.
AtRest == batch = <<>>

\* Once a batch is done ClickHouse shows the table of the source: whatever the
\* order of the lists, wherever a chunk failed, and wherever the rows have moved.
\* OrderMatters says which batches are excepted.
ReplicaMatches == AtRest /\ ~disturbed => View = source

\* In between, half way through a batch or after an error, ClickHouse shows no
\* row that the source has never had.
NeverInvented == ~disturbed => View \subseteq held
================================================================================
