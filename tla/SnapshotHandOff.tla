---------------------------- MODULE SnapshotHandOff ----------------------------
(******************************************************************************)
(* The hand-off from a snapshot to change data capture.                       *)
(*                                                                            *)
(* db_dump/postgres_dumper.py copies live PostgreSQL tables to ClickHouse,    *)
(* several tables and several key ranges of a table at once, each at a time   *)
(* of its own.  The WAL position captured before the first table is read is   *)
(* stored last, as the offset of the connector, which then replays every      *)
(* change made since: changes that the copies hold already, and changes that  *)
(* they miss.  A run may fail at any point and be started again, over tables  *)
(* that are full, empty or half loaded.                                       *)
(*                                                                            *)
(* The source is a log of changes of rows.  The value of a row is the         *)
(* position of the change that wrote it.  The rows of the snapshot have       *)
(* version 0, the default of the column _version, and a replayed change has a *)
(* version that grows with its position.                                      *)
(******************************************************************************)
EXTENDS Integers, Sequences, FiniteSets, FiniteSetsExt

CONSTANTS
    Tables,
    Keys,               \* values of the primary key, which are ordered
    Threads,            \* --threads
    NoRow,              \* the value of a row that does not exist
    Nothing,            \* no row version, no offset
    MaxLsn,             \* bound: changes of the source
    MaxRuns,            \* bound: runs of the dumper
    MaxStops,           \* bound: stops and crashes of the connector
    MaxFlushes          \* bound: offsets one process of the connector stores

\* The keys are numbers, null values are no positions, the bounds are numbers.
ASSUME HandOffAssumption ==
    /\ Keys \subseteq Int
    /\ NoRow \notin Nat
    /\ Threads \in Nat \ {0}
    /\ MaxLsn \in Nat
    /\ MaxRuns \in Nat
    /\ MaxStops \in Nat
    /\ MaxFlushes \in Nat

Rows == Tables \X Keys

Change == [row : Rows, live : BOOLEAN]

Value == (0 .. MaxLsn) \cup {NoRow}

Version == [ver : 0 .. MaxLsn, val : Value]

Offset == [seq : 1 .. MaxFlushes + 1, lsn : 0 .. MaxLsn]

Job == [table : Tables, seg : SUBSET Keys]

Copy == [job : Job, at : 0 .. MaxLsn]

ASSUME NothingAssumption == Nothing \notin Version \cup Offset

VARIABLES
    \* PostgreSQL
    log,                \* the changes committed so far, in the order of the WAL
    initial,            \* the rows that exist before the first of them
    \* postgres_dumper
    pc,                 \* "idle", "schema", "plan", "load", "offset", "done", "failed"
    lsn,                \* the position captured when the run began
    clean,              \* --drop_existing or --truncate
    skip,               \* --skip_existing
    todo,               \* tables that this step of the run has yet to handle
    jobs,               \* load jobs that no thread has taken yet
    copying,            \* load jobs whose COPY has begun, and where it reads
    failed,             \* a load job has reported a failure
    \* ClickHouse
    target,             \* what FINAL returns for each row
    offset,             \* what FINAL returns for the connector's offset
    \* The connector
    connector,          \* "stopped" or "running"
    applied,            \* position of the last change it replayed
    flushes,            \* record_insert_seq of this process
    \* What an observer remembers
    doubtful,           \* tables whose load is not what the run takes it for
    runs,
    stops

sourceVars == <<log, initial>>
optionVars == <<lsn, clean, skip>>
loadVars   == <<todo, jobs, copying, failed>>
connectorVars == <<connector, applied, flushes, stops>>
vars == <<sourceVars, pc, optionVars, loadVars, target, offset, connectorVars, doubtful,
          runs>>

Init ==
    /\ log = <<>>
    /\ initial \in SUBSET Rows
    /\ pc = "idle"
    /\ lsn = 0
    /\ clean = FALSE
    /\ skip = FALSE
    /\ todo = {}
    /\ jobs = {}
    /\ copying = {}
    /\ failed = FALSE
    /\ target = [r \in Rows |-> Nothing]
    /\ offset = Nothing
    /\ connector = "stopped"
    /\ applied = 0
    /\ flushes = 0
    /\ doubtful = {}
    /\ runs = 0
    /\ stops = 0

--------------------------------------------------------------------------------
(* PostgreSQL                                                                 *)

\* Where the row was changed, up to a position.
ChangesOf(r, p) == {q \in 1 .. p : log[q].row = r}

\* The value of the row at a position of the WAL.
ValueAt(r, p) ==
    IF ChangesOf(r, p) = {}
    THEN IF r \in initial THEN 0 ELSE NoRow
    ELSE LET last == Max(ChangesOf(r, p)) IN IF log[last].live THEN last ELSE NoRow

Current(r) == ValueAt(r, Len(log))

\* A row is inserted, updated or deleted.
Write(r, live) ==
    /\ Len(log) < MaxLsn
    /\ live \/ Current(r) # NoRow
    /\ log' = Append(log, [row |-> r, live |-> live])
    /\ UNCHANGED <<initial, pc, optionVars, loadVars, target, offset, connectorVars,
                   doubtful, runs>>

--------------------------------------------------------------------------------
(* ClickHouse                                                                 *)

\* ReplacingMergeTree(_version): the highest version wins, and the later of two
\* equal ones.
Replacing(old, new) ==
    IF old # Nothing /\ old.ver > new.ver THEN old ELSE new

\* The table of the offset, which the dumper creates as
\* ReplacingMergeTree(record_insert_seq).
ReplacingOffset(old, new) ==
    IF old # Nothing /\ old.seq > new.seq THEN old ELSE new

Visible(r) == IF target[r] = Nothing THEN NoRow ELSE target[r].val

\* SELECT count() without FINAL counts the deleted rows as well.
HasData(t) == \E k \in Keys : target[<<t, k>>] # Nothing

--------------------------------------------------------------------------------
(* The dumper                                                                 *)

\* Mutant: the rows of the snapshot outrank every change.
LoadedLast == MaxLsn + 1

\* `_version` UInt64 DEFAULT 0
SnapshotVersion == 0

StartRun ==
    /\ pc \in {"idle", "done", "failed"}
    /\ connector = "stopped"
    /\ runs < MaxRuns
    /\ runs' = runs + 1
    /\ lsn' = Len(log)
    /\ clean' \in BOOLEAN
    /\ skip' \in BOOLEAN
    /\ todo' = Tables
    /\ jobs' = {}
    /\ copying' = {}
    /\ failed' = FALSE
    /\ pc' = "schema"
    /\ UNCHANGED <<sourceVars, target, offset, connectorVars, doubtful>>

\* One table after the other is dropped or truncated, if the run is to, and
\* created if it is not there.
PrepareTable(t) ==
    /\ pc = "schema"
    /\ t \in todo
    /\ target' = IF clean
                 THEN [r \in Rows |-> IF r[1] = t THEN Nothing ELSE target[r]]
                 ELSE target
    /\ IF todo = {t}
       THEN pc' = "plan" /\ todo' = Tables
       ELSE pc' = pc /\ todo' = todo \ {t}
    /\ UNCHANGED <<sourceVars, optionVars, jobs, copying, failed, offset, connectorVars,
                   doubtful, runs>>

\* Mutant: the row on a boundary is in no segment.
OpenSegments(bounds) ==
    {{k \in Keys : k < b /\ \A c \in bounds : c < b => k > c} : b \in bounds}
        \cup {{k \in Keys : \A b \in bounds : k > b}}

\* The ranges [lower, upper) between the bounds, without a limit at either end.
Segments(bounds) ==
    {{k \in Keys : k < b /\ \A c \in bounds : c < b => k >= c} : b \in bounds}
        \cup {{k \in Keys : \A b \in bounds : k >= b}}

\* ntile cuts the keys that exist now into ranges of about the same length: a
\* bound is a key other than the smallest.  A table that is small, empty or
\* without a suitable key is one range.
get_pk_range_boundaries(t) ==
    LET present == {k \in Keys : Current(<<t, k>>) # NoRow}
    IN  SUBSET {k \in present : \E j \in present : j < k}

\* A table that has data is left out if the run is to, and every other one is
\* cut into load jobs.
PlanTable(t) ==
    /\ pc = "plan"
    /\ t \in todo
    /\ IF skip /\ HasData(t)
       THEN UNCHANGED jobs
       ELSE \E bounds \in get_pk_range_boundaries(t) :
                jobs' = jobs \cup {[table |-> t, seg |-> s] : s \in Segments(bounds)}
    /\ doubtful' = IF HasData(t) THEN doubtful \cup {t} ELSE doubtful \ {t}
    /\ todo' = todo \ {t}
    /\ pc' = IF todo = {t} THEN "load" ELSE pc
    /\ UNCHANGED <<sourceVars, optionVars, copying, failed, target, offset, connectorVars,
                   runs>>

\* A thread takes a job, and its COPY reads the state that is committed now.
StartCopy(j) ==
    /\ pc = "load"
    /\ j \in jobs
    /\ Cardinality(copying) < Threads
    /\ jobs' = jobs \ {j}
    /\ copying' = copying \cup {[job |-> j, at |-> Len(log)]}
    /\ UNCHANGED <<sourceVars, pc, optionVars, todo, failed, target, offset, connectorVars,
                   doubtful, runs>>

\* Mutant: the failure of a job is logged and forgotten.
FailureForgotten(j) ==
    /\ pc = "load"
    /\ j \in jobs
    /\ jobs' = jobs \ {j}
    /\ UNCHANGED <<sourceVars, pc, optionVars, todo, copying, failed, target, offset,
                   connectorVars, doubtful, runs>>

\* An error before the pipe starts, when load_table connects to PostgreSQL or
\* reads the columns of the table.
FailJob(j) ==
    /\ pc = "load"
    /\ j \in jobs
    /\ jobs' = jobs \ {j}
    /\ failed' = TRUE
    /\ UNCHANGED <<sourceVars, pc, optionVars, todo, copying, target, offset, connectorVars,
                   doubtful, runs>>

\* INSERT: rows of the segment that exist where the COPY reads.
Inserted(c, keys) ==
    [r \in Rows |->
        IF r[1] = c.job.table /\ r[2] \in keys /\ ValueAt(r, c.at) # NoRow
        THEN Replacing(target[r], [ver |-> SnapshotVersion, val |-> ValueAt(r, c.at)])
        ELSE target[r]]

FinishCopy(c) ==
    /\ c \in copying
    /\ target' = Inserted(c, c.job.seg)
    /\ copying' = copying \ {c}
    /\ UNCHANGED <<sourceVars, pc, optionVars, todo, jobs, failed, offset, connectorVars,
                   doubtful, runs>>

\* psql or clickhouse-client fails in the middle: some rows are inserted.  The
\* exit code that load_table looks at is that of the last command of the line,
\* rm -f, so that the job succeeds.
BreakCopy(c) ==
    /\ c \in copying
    /\ \E keys \in (SUBSET c.job.seg) \ {c.job.seg} : target' = Inserted(c, keys)
    /\ copying' = copying \ {c}
    /\ doubtful' = doubtful \cup {c.job.table}
    /\ UNCHANGED <<sourceVars, pc, optionVars, todo, jobs, failed, offset, connectorVars,
                   runs>>

\* The summary, when every job has ended: with a failure the run exits.
EndLoad ==
    /\ pc = "load"
    /\ jobs = {} /\ copying = {}
    /\ pc' = IF failed THEN "failed" ELSE "offset"
    /\ UNCHANGED <<sourceVars, optionVars, loadVars, target, offset, connectorVars, doubtful,
                   runs>>

\* Mutant: the position is captured once the tables are loaded.
OffsetOfNow == [seq |-> 1, lsn |-> Len(log)]

\* build_offset_insert: the first number of the sequence, the captured position.
OffsetOfRun == [seq |-> 1, lsn |-> lsn]

write_lsn_offset ==
    /\ pc = "offset"
    /\ offset' = ReplacingOffset(offset, OffsetOfRun)
    /\ pc' = "done"
    /\ UNCHANGED <<sourceVars, optionVars, loadVars, target, connectorVars, doubtful, runs>>

\* An exception in the main thread, an interrupt or a crash.
Die ==
    /\ pc \in {"schema", "plan", "load", "offset"}
    /\ pc' = "failed"
    /\ todo' = {}
    /\ jobs' = {}
    /\ copying' = {}
    /\ UNCHANGED <<sourceVars, optionVars, failed, target, offset, connectorVars, doubtful,
                   runs>>

--------------------------------------------------------------------------------
(* The connector, which reads the stored offset and takes no snapshot.  It is *)
(* started once a run has ended well, as the dumper's last message says.      *)

StartConnector ==
    /\ pc = "done"
    /\ connector = "stopped"
    /\ connector' = "running"
    /\ applied' = offset.lsn
    /\ flushes' = 0
    /\ UNCHANGED <<sourceVars, pc, optionVars, loadVars, target, offset, doubtful, runs, stops>>

Replayed(p) ==
    [ver |-> p, val |-> IF log[p].live THEN p ELSE NoRow]

Replay ==
    /\ connector = "running"
    /\ applied < Len(log)
    /\ applied' = applied + 1
    /\ target' = [target EXCEPT ![log[applied + 1].row] =
                     Replacing(@, Replayed(applied + 1))]
    /\ UNCHANGED <<sourceVars, pc, optionVars, loadVars, offset, connector, flushes, doubtful,
                   runs, stops>>

\* The offset store appends a row: its DELETE statement is a SELECT.  The
\* sequence begins again with every process.
FlushOffset ==
    /\ connector = "running"
    /\ flushes < MaxFlushes
    /\ flushes' = flushes + 1
    /\ offset' = ReplacingOffset(offset, [seq |-> flushes + 1, lsn |-> applied])
    /\ UNCHANGED <<sourceVars, pc, optionVars, loadVars, target, connector, applied, doubtful,
                   runs, stops>>

StopConnector ==
    /\ connector = "running"
    /\ stops < MaxStops
    /\ stops' = stops + 1
    /\ connector' = "stopped"
    /\ UNCHANGED <<sourceVars, pc, optionVars, loadVars, target, offset, applied, flushes,
                   doubtful, runs>>

--------------------------------------------------------------------------------

Dump ==
    \/ \E t \in Tables : PrepareTable(t) \/ PlanTable(t)
    \/ \E j \in jobs : StartCopy(j)
    \/ \E c \in copying : FinishCopy(c)
    \/ EndLoad
    \/ write_lsn_offset

Next ==
    \/ \E r \in Rows, live \in BOOLEAN : Write(r, live)
    \/ StartRun
    \/ Dump
    \/ \E j \in jobs : FailJob(j)
    \/ \E c \in copying : BreakCopy(c)
    \/ Die
    \/ StartConnector
    \/ Replay
    \/ FlushOffset
    \/ StopConnector

Spec == Init /\ [][Next]_vars

(* The threads of a run and the connector are scheduled; nobody has to start  *)
(* a run.                                                                     *)
Fairness ==
    /\ WF_vars(Dump)
    /\ WF_vars(StartConnector)
    /\ WF_vars(Replay)

FairSpec == Spec /\ Fairness

--------------------------------------------------------------------------------
(* Properties                                                                 *)

\* Every variable has its type.
TypeOK ==
    /\ log \in Seq(Change)
    /\ Len(log) <= MaxLsn
    /\ initial \subseteq Rows
    /\ pc \in {"idle", "schema", "plan", "load", "offset", "done", "failed"}
    /\ lsn \in 0 .. Len(log)
    /\ clean \in BOOLEAN
    /\ skip \in BOOLEAN
    /\ todo \subseteq Tables
    /\ jobs \subseteq Job
    /\ copying \subseteq Copy
    /\ failed \in BOOLEAN
    /\ target \in [Rows -> Version \cup {Nothing}]
    /\ offset \in Offset \cup {Nothing}
    /\ connector \in {"stopped", "running"}
    /\ applied \in 0 .. Len(log)
    /\ flushes \in 0 .. MaxFlushes
    /\ doubtful \subseteq Tables
    /\ runs \in 0 .. MaxRuns
    /\ stops \in 0 .. MaxStops

\* The changes after this position are still to be replayed.
Position == IF connector = "running" THEN applied ELSE offset.lsn

\* After a run that ended well, ClickHouse shows of every row what the source
\* held at some time since the position from which the changes are replayed: no
\* change falls between the copy of a row and the replay, and none that is
\* replayed takes the row back behind the position.  This needs the position to
\* be captured before the first copy, every segment to be loaded, and the rows
\* of the snapshot to rank below every change.  It does not hold for a table
\* whose pipe broke, that was kept from an earlier run with --skip_existing, or
\* that was loaded over its old rows.
NeverBehind ==
    pc = "done" =>
       \A r \in Rows : r[1] \notin doubtful =>
           \E p \in Position .. Len(log) : Visible(r) = ValueAt(r, p)

\* The tables of a run that ended well come to hold what the source holds,
\* unless another run begins.
EventuallyExact ==
    \A t \in Tables :
       (pc = "done" /\ t \notin doubtful) ~>
           (pc # "done" \/ \A k \in Keys : Visible(<<t, k>>) = Current(<<t, k>>))

\* A load whose pipe fails makes its run fail, so that no offset is stored: the
\* purpose of `set -o pipefail' in load_table.  Checked with no other reason to
\* doubt a table, in a first run.
BrokenPipeFails == pc = "done" /\ runs = 1 => doubtful = {}
================================================================================
