---------------------------- MODULE ChecksumSnapshot ----------------------------
(******************************************************************************)
(* The comparison of PostgreSQL with ClickHouse while both change:            *)
(* db_compare/top_level_postgres_checksum.py in snapshot mode.                *)
(*                                                                            *)
(* A run may pause the replay of the WAL on the standby it reads, pins a      *)
(* snapshot there, waits until the connector has stored an offset past it,    *)
(* and then reads the tables of ClickHouse, several at once, and compares     *)
(* them with those of the snapshot.  The replay that it has paused it         *)
(* resumes, however it ends.  Runs may overlap: the standby is shared.        *)
(*                                                                            *)
(* A run may be told to have the connector hold its writes while it reads.    *)
(* The REST API of the connector (api/DebeziumEmbeddedRestApi) has neither    *)
(* the /flush that it requests for that nor the /resume: the request is       *)
(* refused, and the run goes on without.                                      *)
(*                                                                            *)
(* A change of the source is a position of its WAL.  The standby and          *)
(* ClickHouse hold the changes up to one.                                     *)
(******************************************************************************)
EXTENDS Integers

CONSTANTS
    Runs,               \* processes that run the comparison, once each
    Tables,
    Unread,             \* no position
    MaxLsn,             \* bound: changes of the source
    MaxFaults           \* bound: exceptions, signals, kills and failed resumes

ASSUME ChecksumAssumption ==
    /\ Unread \notin Nat
    /\ MaxLsn \in Nat
    /\ MaxFaults \in Nat

VARIABLES
    wal,                \* position of the last change of the source
    \* The standby
    replayed,           \* position of the replay of the WAL
    walPaused,          \* pg_is_wal_replay_paused()
    \* The connector
    applied,            \* position up to which ClickHouse has the changes
    stored,             \* the lsn in the offset table
    \* A run
    pc,
    wal_was_paused_by_us,
    connector_flush_enabled,    \* it is to have the connector hold its writes
    snapshot,           \* what its REPEATABLE READ transaction sees
    lsn_int,            \* the position it takes that to be
    caught_up,          \* it has seen the stored offset reach that position
    chRead,             \* where ClickHouse was when it read a table
    \* What an observer remembers
    faults,
    forgotten           \* no run knows any more that it has to resume the replay

sharedVars == <<wal, replayed, walPaused, applied, stored>>
localVars  == <<wal_was_paused_by_us, connector_flush_enabled>>
cutVars    == <<snapshot, lsn_int, caught_up>>
ghostVars  == <<faults, forgotten>>
vars == <<sharedVars, pc, localVars, cutVars, chRead, ghostVars>>

Init ==
    /\ wal = 0
    /\ replayed = 0
    /\ walPaused = FALSE
    /\ applied = 0
    /\ stored = 0
    /\ pc = [r \in Runs |-> "idle"]
    /\ wal_was_paused_by_us = [r \in Runs |-> FALSE]
    /\ connector_flush_enabled = [r \in Runs |-> FALSE]
    /\ snapshot = [r \in Runs |-> 0]
    /\ lsn_int = [r \in Runs |-> 0]
    /\ caught_up = [r \in Runs |-> FALSE]
    /\ chRead = [r \in Runs |-> [t \in Tables |-> Unread]]
    /\ faults = 0
    /\ forgotten = FALSE

--------------------------------------------------------------------------------
(* The source, its standby and the connector.  The connector reads the source *)
(* and may be ahead of the standby; it stores an offset after the rows.       *)

RunVars == <<pc, localVars, cutVars, chRead, ghostVars>>

Change ==
    /\ wal < MaxLsn
    /\ wal' = wal + 1
    /\ UNCHANGED <<replayed, walPaused, applied, stored, RunVars>>

ReplayWal ==
    /\ ~walPaused
    /\ replayed < wal
    /\ replayed' = replayed + 1
    /\ UNCHANGED <<wal, walPaused, applied, stored, RunVars>>

Apply ==
    /\ applied < wal
    /\ applied' = applied + 1
    /\ UNCHANGED <<wal, replayed, walPaused, stored, RunVars>>

StoreOffset ==
    /\ stored < applied
    /\ stored' = applied
    /\ UNCHANGED <<wal, replayed, walPaused, applied, RunVars>>

--------------------------------------------------------------------------------
(* A run                                                                      *)

Fault == faults < MaxFaults /\ faults' = faults + 1

Goto(r, from, to) == pc[r] = from /\ pc' = [pc EXCEPT ![r] = to]

\* wal_pause_enabled, connector_flush_enabled
Start(r) ==
    /\ \E wal_pause_enabled \in BOOLEAN :
          Goto(r, "idle", IF wal_pause_enabled THEN "checkWal" ELSE "begin")
    /\ \E enabled \in BOOLEAN :
          connector_flush_enabled' = [connector_flush_enabled EXCEPT ![r] = enabled]
    /\ UNCHANGED <<sharedVars, wal_was_paused_by_us, cutVars, chRead, ghostVars>>

\* Step 0.  A replay that another process has paused is left to it.
CheckWal(r) ==
    /\ Goto(r, "checkWal", IF walPaused THEN "begin" ELSE "pauseWal")
    /\ UNCHANGED <<sharedVars, localVars, cutVars, chRead, ghostVars>>

PauseWal(r) ==
    /\ Goto(r, "pauseWal", "walPaused")
    /\ walPaused' = TRUE
    /\ UNCHANGED <<wal, replayed, applied, stored, localVars, cutVars, chRead, ghostVars>>

NoteWalPaused(r) ==
    /\ Goto(r, "walPaused", "begin")
    /\ wal_was_paused_by_us' = [wal_was_paused_by_us EXCEPT ![r] = TRUE]
    /\ UNCHANGED <<sharedVars, connector_flush_enabled, cutVars, chRead, ghostVars>>

\* Step 1.  The snapshot is that of the first statement of the transaction.
BeginSnapshot(r) ==
    /\ Goto(r, "begin", "lsn")
    /\ snapshot' = [snapshot EXCEPT ![r] = replayed]
    /\ UNCHANGED <<sharedVars, localVars, lsn_int, caught_up, chRead, ghostVars>>

\* Mutant: the position of the primary.
PrimaryLsn(r) ==
    /\ Goto(r, "lsn", "wait")
    /\ lsn_int' = [lsn_int EXCEPT ![r] = wal]
    /\ UNCHANGED <<sharedVars, localVars, snapshot, caught_up, chRead, ghostVars>>

\* Steps 2 and 3.  get_standby_lsn
ReadLsn(r) ==
    /\ Goto(r, "lsn", "wait")
    /\ lsn_int' = [lsn_int EXCEPT ![r] = replayed]
    /\ UNCHANGED <<sharedVars, localVars, snapshot, caught_up, chRead, ghostVars>>

AfterWait(r) == Goto(r, "wait", IF connector_flush_enabled[r] THEN "flush" ELSE "read")

\* Mutant: any offset that is stored will do.
AnyOffset(r) == TRUE

\* wait_for_ch_lsn
OffsetReached(r) == stored >= lsn_int[r]

\* Step 4.  With the replay paused by this run the offset is not looked at.
CaughtUp(r) ==
    /\ AfterWait(r)
    /\ ~wal_was_paused_by_us[r]
    /\ OffsetReached(r)
    /\ caught_up' = [caught_up EXCEPT ![r] = TRUE]
    /\ UNCHANGED <<sharedVars, localVars, snapshot, lsn_int, chRead, ghostVars>>

\* Mutant: no deadline.
NoDeadline(r) ==
    /\ AfterWait(r)
    /\ OffsetReached(r)
    /\ UNCHANGED <<sharedVars, localVars, cutVars, chRead, ghostVars>>

\* The wait has timed out, there is no offset table, or the status of the
\* connector, or the time it is given to settle, is all there is to go by.
ProceedAnyway(r) ==
    /\ AfterWait(r)
    /\ UNCHANGED <<sharedVars, localVars, cutVars, chRead, ghostVars>>

\* Step 4b: GET /flush is refused, and the run proceeds without.
FlushFails(r) ==
    /\ Goto(r, "flush", "read")
    /\ UNCHANGED <<sharedVars, localVars, cutVars, chRead, ghostVars>>

\* Phase A: a thread reads a table of ClickHouse.
ReadTable(r, t) ==
    /\ pc[r] = "read"
    /\ chRead[r][t] = Unread
    /\ chRead' = [chRead EXCEPT ![r][t] = applied]
    /\ UNCHANGED <<sharedVars, pc, localVars, cutVars, ghostVars>>

\* Phase B reads the tables of the snapshot and compares; the transaction ends.
Compare(r) ==
    /\ \A t \in Tables : chRead[r][t] # Unread
    /\ Goto(r, "read", "resumeWal")
    /\ UNCHANGED <<sharedVars, localVars, cutVars, chRead, ghostVars>>

--------------------------------------------------------------------------------
(* The end of a run                                                           *)

Inside(r) == pc[r] \notin {"idle", "resumeWal", "done"}

\* The run has paused the replay and has yet to take a note of it.
Unnoted(r) == pc[r] = "walPaused"

\* The end of the process, and of what it knew.
Exit(r) ==
    /\ pc' = [pc EXCEPT ![r] = "done"]
    /\ wal_was_paused_by_us' = [wal_was_paused_by_us EXCEPT ![r] = FALSE]
    /\ connector_flush_enabled' = [connector_flush_enabled EXCEPT ![r] = FALSE]
    /\ snapshot' = [snapshot EXCEPT ![r] = 0]
    /\ lsn_int' = [lsn_int EXCEPT ![r] = 0]
    /\ caught_up' = [caught_up EXCEPT ![r] = FALSE]
    /\ chRead' = [chRead EXCEPT ![r] = [t \in Tables |-> Unread]]

\* Mutant: a signal that is not handled ends the process.
Unhandled(r) ==
    /\ Inside(r)
    /\ Exit(r)
    /\ Fault
    /\ forgotten' = (forgotten \/ Unnoted(r))
    /\ UNCHANGED sharedVars

\* An exception, an exit or a signal, whose handler does what `finally' does.
\* Between an effect and its note it does too little.
Raise(r) ==
    /\ Inside(r)
    /\ pc' = [pc EXCEPT ![r] = "resumeWal"]
    /\ Fault
    /\ forgotten' = (forgotten \/ Unnoted(r))
    /\ UNCHANGED <<sharedVars, localVars, cutVars, chRead>>

\* The process is killed.
Kill(r) ==
    /\ pc[r] \notin {"idle", "done"}
    /\ Exit(r)
    /\ Fault
    /\ forgotten' = (forgotten \/ Unnoted(r) \/ wal_was_paused_by_us[r])
    /\ UNCHANGED sharedVars

\* Step 8: _ensure_wal_resumed
ResumeWal(r) ==
    /\ pc[r] = "resumeWal"
    /\ Exit(r)
    /\ walPaused' = (walPaused /\ ~wal_was_paused_by_us[r])
    /\ UNCHANGED <<wal, replayed, applied, stored, ghostVars>>

\* A resume that fails is logged, for an operator to see.
ResumeWalFails(r) ==
    /\ pc[r] = "resumeWal"
    /\ wal_was_paused_by_us[r]
    /\ Exit(r)
    /\ Fault
    /\ forgotten' = TRUE
    /\ UNCHANGED sharedVars

--------------------------------------------------------------------------------

Step(r) ==
    \/ CheckWal(r) \/ PauseWal(r) \/ NoteWalPaused(r)
    \/ BeginSnapshot(r) \/ ReadLsn(r) \/ CaughtUp(r) \/ ProceedAnyway(r)
    \/ FlushFails(r)
    \/ \E t \in Tables : ReadTable(r, t)
    \/ Compare(r) \/ ResumeWal(r)

Next ==
    \/ Change \/ ReplayWal \/ Apply \/ StoreOffset
    \/ \E r \in Runs : Start(r) \/ Step(r) \/ Raise(r) \/ Kill(r) \/ ResumeWalFails(r)

Spec == Init /\ [][Next]_vars

(* A run that has started goes on: its waits have deadlines.                  *)
Fairness == \A r \in Runs : WF_vars(Step(r))

FairSpec == Spec /\ Fairness

--------------------------------------------------------------------------------
(* Properties                                                                 *)

\* Every variable has its type; offsets are stored for what is applied.
TypeOK ==
    /\ wal \in 0 .. MaxLsn
    /\ replayed \in 0 .. wal
    /\ walPaused \in BOOLEAN
    /\ applied \in 0 .. wal
    /\ stored \in 0 .. applied
    /\ pc \in [Runs -> {"idle", "checkWal", "pauseWal", "walPaused", "begin", "lsn", "wait",
                        "flush", "read", "resumeWal", "done"}]
    /\ wal_was_paused_by_us \in [Runs -> BOOLEAN]
    /\ connector_flush_enabled \in [Runs -> BOOLEAN]
    /\ snapshot \in [Runs -> 0 .. replayed]
    /\ lsn_int \in [Runs -> 0 .. replayed]
    /\ caught_up \in [Runs -> BOOLEAN]
    /\ chRead \in [Runs -> [Tables -> (0 .. applied) \cup {Unread}]]
    /\ faults \in 0 .. MaxFaults
    /\ forgotten \in BOOLEAN

\* When no run is left, the standby replays: however the runs have ended, and
\* however they have overlapped.  Except where the pause and its note have come
\* apart, where the resume has failed, or where a process was killed.
NothingLeftPaused ==
    (\A r \in Runs : pc[r] \in {"idle", "done"}) /\ ~forgotten => ~walPaused

\* A run that has seen the offset reach the position of its snapshot finds in
\* every table all that the snapshot has of it: a difference it reports is a
\* later change, or a real one.
NoFalseAlarm ==
    \A r \in Runs : caught_up[r] =>
        \A t \in Tables : chRead[r][t] # Unread => chRead[r][t] >= snapshot[r]

\* A pause of the replay ends, with the exceptions of NothingLeftPaused.
PausesEnd == walPaused ~> (~walPaused \/ forgotten)
================================================================================
