---------------------------- MODULE VersionSequence ----------------------------
(******************************************************************************)
(* The _version that handleChangeEventBatch gives to a row, by which          *)
(* ReplacingMergeTree keeps one row of a key: the time of the record and a    *)
(* sequence number,                                                           *)
(*                                                                            *)
(*        _version = recordTs * 1000000 + sequenceNumber                      *)
(*                                                                            *)
(* The sequence number starts over, from the worth of one second, when the    *)
(* time of the records runs ahead of an anchor, and from the worth of half a  *)
(* second with the first record of a process.                                 *)
(*                                                                            *)
(* The log is the changes of one key at the source.  A change carries its     *)
(* commit time, a row of the snapshot and a heartbeat the time at which they  *)
(* were read (getSourceTsFromChangeEvent), a tombstone none.  The writers may *)
(* write what was read in any order; the offset they commit covers written    *)
(* changes only, which is what AtLeastOnceDelivery promises.                  *)
(******************************************************************************)
EXTENDS Integers, Sequences, FiniteSets

CONSTANTS
    HalfSecond,             \* units of time in half a second: 500
    Multiplier,             \* versions in a unit of time: 1000000
    SEQUENCE_START,
    SEQUENCE_START_INITIAL,
    Snapshot,               \* snapshot.mode: may a snapshot read the key first?
    Heartbeats,             \* heartbeat.interval.ms > 0
    MaxTime,                \* bound: the clock
    MaxEvents,              \* bound: changes of the key
    MaxRun,                 \* bound: records between two starts of the sequence
    MaxRestarts             \* bound: restarts of the engine or of the process

\* The seeds are worth a second and half a second, and fewer records follow one
\* of them than there are versions in a unit of time.
ASSUME VersionAssumption ==
    /\ HalfSecond \in Nat \ {0}
    /\ Multiplier \in Nat
    /\ SEQUENCE_START = 2 * HalfSecond * Multiplier
    /\ SEQUENCE_START_INITIAL = HalfSecond * Multiplier
    /\ Snapshot \in BOOLEAN
    /\ Heartbeats \in BOOLEAN
    /\ MaxTime \in Nat
    /\ MaxEvents \in Nat
    /\ MaxRun \in Nat
    /\ MaxRun < Multiplier
    /\ MaxRestarts \in Nat

VARIABLES
    now,                \* the time
    log,                \* commit times of the changes of the key
    phase,              \* "snapshot" or "streaming"
    nRead,              \* last change read
    committed,          \* offset in the table replica_source_info
    sequenceNumber,
    sequenceAnchorTs,
    inFlight,           \* rows read and not written yet
    table,              \* rows in ClickHouse
    \* What an observer remembers
    snapshotTs,         \* when the snapshot read the row
    disturbed,          \* a record carried another time than the commit time of
                        \* a change, or the process was restarted
    restarts

sequenceVars == <<sequenceNumber, sequenceAnchorTs>>
vars == <<now, log, phase, nRead, committed, sequenceVars, inFlight, table, snapshotTs,
          disturbed, restarts>>

\* A row is the change it comes from, 0 for the snapshot, and its version.
Row == [event : 0 .. MaxEvents, version : Nat]

Init ==
    /\ now = 1
    /\ log = <<>>
    /\ phase \in {"streaming"} \cup IF Snapshot THEN {"snapshot"} ELSE {}
    /\ nRead = 0
    /\ committed = 0
    /\ sequenceNumber = SEQUENCE_START
    /\ sequenceAnchorTs = 0
    /\ inFlight = {}
    /\ table = {}
    /\ snapshotTs = 0
    /\ disturbed = FALSE
    /\ restarts = 0

--------------------------------------------------------------------------------
(* The source                                                                 *)

Tick ==
    /\ now < MaxTime
    /\ now' = now + 1
    /\ UNCHANGED <<log, phase, nRead, committed, sequenceVars, inFlight, table,
                   snapshotTs, disturbed, restarts>>

Change ==
    /\ Len(log) < MaxEvents
    /\ log' = Append(log, now)
    /\ UNCHANGED <<now, phase, nRead, committed, sequenceVars, inFlight, table,
                   snapshotTs, disturbed, restarts>>

--------------------------------------------------------------------------------
(* handleChangeEventBatch, for one record                                     *)

\* Division in Java drops the fraction: a difference below zero is no advance.
Seconds(difference) == IF difference < 0 THEN 0 ELSE difference \div (2 * HalfSecond)

\* The first record of the process seeds the sequence.
Anchor(ts) == IF sequenceAnchorTs = 0 THEN ts ELSE sequenceAnchorTs

\* Mutant: the sequence of a process begins at zero.
SeedAtZero == IF sequenceAnchorTs = 0 THEN 0 ELSE sequenceNumber

Seed == IF sequenceAnchorTs = 0 THEN SEQUENCE_START_INITIAL ELSE sequenceNumber

Advances(ts) == Seconds(ts - Anchor(ts)) > 1

\* Bound: the records that follow a seed.
Run == sequenceNumber -
          IF sequenceNumber >= SEQUENCE_START THEN SEQUENCE_START ELSE SEQUENCE_START_INITIAL

\* Mutant: an old record takes the anchor back.
AnchorFollows(ts) ==
    /\ Run < MaxRun
    /\ sequenceAnchorTs' = ts
    /\ IF Advances(ts)
       THEN sequenceNumber' = SEQUENCE_START
       ELSE sequenceNumber' = Seed + 1

\* The anchor and the sequence number with a record of this time.
Sequence(ts) ==
    /\ Run < MaxRun
    /\ IF Advances(ts)
       THEN /\ sequenceAnchorTs' = ts
            /\ sequenceNumber' = SEQUENCE_START
       ELSE /\ sequenceAnchorTs' = Anchor(ts)
            /\ sequenceNumber' = Seed + 1

Version(ts) == ts * Multiplier + sequenceNumber'

\* The row of the key as it was when the snapshot began, before its first change
\* in the log, read now.
ReadSnapshotRow ==
    /\ phase = "snapshot"
    /\ Sequence(now)
    /\ inFlight' = inFlight \cup {[event |-> 0, version |-> Version(now)]}
    /\ phase' = "streaming"
    /\ snapshotTs' = now
    /\ disturbed' = TRUE
    /\ UNCHANGED <<now, log, nRead, committed, table, restarts>>

\* Mutant: a change is given the time at which it was processed.
ReadAtProcessingTime ==
    /\ phase = "streaming"
    /\ nRead < Len(log)
    /\ nRead' = nRead + 1
    /\ Sequence(now)
    /\ inFlight' = inFlight \cup {[event |-> nRead', version |-> Version(now)]}
    /\ UNCHANGED <<now, log, phase, committed, table, snapshotTs, disturbed, restarts>>

ReadChange ==
    /\ phase = "streaming"
    /\ nRead < Len(log)
    /\ nRead' = nRead + 1
    /\ Sequence(log[nRead'])
    /\ inFlight' = inFlight \cup {[event |-> nRead', version |-> Version(log[nRead'])]}
    /\ UNCHANGED <<now, log, phase, committed, table, snapshotTs, disturbed, restarts>>

\* A heartbeat has no source structure: its time is the one of its envelope.
ReadHeartbeat ==
    /\ Heartbeats
    /\ phase = "streaming"
    /\ Sequence(now)
    /\ disturbed' = TRUE
    /\ UNCHANGED <<now, log, phase, nRead, committed, inFlight, table, snapshotTs,
                   restarts>>

\* A tombstone has no value, and time 0.
ReadTombstone ==
    /\ phase = "streaming"
    /\ Sequence(0)
    /\ UNCHANGED <<now, log, phase, nRead, committed, inFlight, table, snapshotTs,
                   disturbed, restarts>>

--------------------------------------------------------------------------------
(* The writers, and restarts                                                  *)

Write ==
    /\ \E r \in inFlight :
          /\ inFlight' = inFlight \ {r}
          /\ table' = table \cup {r}
    /\ UNCHANGED <<now, log, phase, nRead, committed, sequenceVars, snapshotTs, disturbed,
                   restarts>>

FirstRead == IF snapshotTs > 0 THEN 0 ELSE 1

\* The offset of a change is committed when everything up to it is written.
Commit ==
    /\ \E p \in 1 .. nRead :
          /\ FirstRead .. p \subseteq {r.event : r \in table}
          /\ committed' = p
    /\ UNCHANGED <<now, log, phase, nRead, sequenceVars, inFlight, table, snapshotTs,
                   disturbed, restarts>>

\* A restart before the row of the snapshot is written takes another snapshot.
\* That is a run of its own, which this model does not go on with.
MayRestart ==
    /\ phase = "streaming"
    /\ restarts < MaxRestarts
    /\ snapshotTs > 0 => \E r \in table : r.event = 0

\* The completion callback replaces the engine: the static sequence is kept, and
\* so are the batches on their way.
RestartEngine ==
    /\ MayRestart
    /\ restarts' = restarts + 1
    /\ nRead' = committed
    /\ UNCHANGED <<now, log, phase, committed, sequenceVars, inFlight, table, snapshotTs,
                   disturbed>>

RestartProcess ==
    /\ MayRestart
    /\ restarts' = restarts + 1
    /\ nRead' = committed
    /\ sequenceNumber' = SEQUENCE_START
    /\ sequenceAnchorTs' = 0
    /\ inFlight' = {}
    /\ disturbed' = TRUE
    /\ UNCHANGED <<now, log, phase, committed, table, snapshotTs>>

Next ==
    \/ Tick \/ Change
    \/ ReadSnapshotRow \/ ReadChange \/ ReadHeartbeat \/ ReadTombstone
    \/ Write \/ Commit
    \/ RestartEngine \/ RestartProcess

Spec == Init /\ [][Next]_vars

--------------------------------------------------------------------------------
(* Properties                                                                 *)

\* Every variable has its type.  The sequence number stays between the seed of a
\* process and the worth of a second, give or take a run of records.
TypeOK ==
    /\ now \in 1 .. MaxTime \cup {1}
    /\ log \in Seq(1 .. now)
    /\ Len(log) <= MaxEvents
    /\ phase \in {"snapshot", "streaming"}
    /\ nRead \in 0 .. Len(log)
    /\ committed \in 0 .. Len(log)
    /\ sequenceNumber \in SEQUENCE_START_INITIAL .. SEQUENCE_START + MaxRun
    /\ sequenceAnchorTs \in 0 .. now
    /\ inFlight \subseteq Row
    /\ table \subseteq Row
    /\ snapshotTs \in 0 .. now
    /\ disturbed \in BOOLEAN
    /\ restarts \in 0 .. MaxRestarts

Rows == inFlight \cup table

\* The time to which a row goes back.
TimeOf(event) == IF event = 0 THEN snapshotTs ELSE log[event]

\* A delivery, however late and however often repeated, never ranks above a row
\* that is more than half a second newer: not across heartbeats, snapshots and
\* restarts of any kind.  In particular a DELETE delivered again does not bury
\* the INSERT that followed it.
OlderNeverOutranks ==
    \A r, s \in Rows :
        TimeOf(s.event) - TimeOf(r.event) > HalfSecond => r.version < s.version

\* Everything the source has is read and written.
Settled == nRead = Len(log) /\ inFlight = {}

\* The row that ReplacingMergeTree keeps is the last change of the key, whichever
\* order the writers worked in, and however often the engine was restarted and
\* delivered changes again.  It takes a process that was not restarted and
\* changes only, with their commit times.
LatestSurvives ==
    Settled /\ ~disturbed =>
        \A r \in table : r.event < Len(log) =>
            \E s \in table : s.event = Len(log) /\ r.version < s.version
================================================================================
