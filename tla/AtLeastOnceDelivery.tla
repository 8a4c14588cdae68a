-------------------------- MODULE AtLeastOnceDelivery --------------------------
(******************************************************************************)
(* What the connector promises, without saying how: the source log is a       *)
(* sequence of records numbered from 1, a record that is written reaches      *)
(* ClickHouse for the first time after all the records before it, or together *)
(* with them, and the committed offset, from which the connector resumes      *)
(* after a crash, never covers a record that is not in ClickHouse.  An offset *)
(* may move backwards: that replays records, which at-least-once delivery     *)
(* allows.                                                                    *)
(*                                                                            *)
(* The promise is written down in the Javadoc of                              *)
(* executor/DebeziumOffsetManagement.java, acknowledgeRecords.                *)
(******************************************************************************)
EXTENDS Integers

CONSTANTS
    MaxPos,         \* the last record of the source log
    Rowless         \* records that have no row to write

VARIABLES
    written,        \* the records whose rows are all in ClickHouse
    committed       \* the offset up to which they are done with

vars == <<written, committed>>

Init ==
    /\ written \subseteq Rowless
    /\ committed = 0

\* With the rows of a record, everything before it is in ClickHouse.
Write(p) ==
    /\ written' = written \cup (1 .. p)
    /\ UNCHANGED committed

\* An offset is committed only when nothing at or before it is missing.
Commit(p) ==
    /\ 1 .. p \subseteq written
    /\ committed' = p
    /\ UNCHANGED written

Next ==
    \/ \E p \in 1 .. MaxPos : Write(p)
    \/ \E p \in 0 .. MaxPos : Commit(p)

Spec == Init /\ [][Next]_vars
================================================================================
