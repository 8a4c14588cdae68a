------------------------- MODULE SnapshotHandOffProofs -------------------------
(******************************************************************************)
(* Theorems about SnapshotHandOff, for any tables, keys and threads, any      *)
(* number of changes of the source, and any number of runs of the dumper and  *)
(* of stops of the connector.                                                 *)
(*                                                                            *)
(*   TypeCorrect      every variable has its type                             *)
(*   NothingIsMissed  NeverBehind: no change falls between the copy of a row  *)
(*                    and the replay, and none is undone by it                *)
(*                                                                            *)
(* TypeInv is inductive by itself.  NeverBehind rests on three more facts     *)
(* that are inductive with it: OffsetInv (from where the changes are          *)
(* replayed), VersionInv (what the versions in ClickHouse mean) and LoadInv   *)
(* (what a load in progress has done and has yet to do).                      *)
(******************************************************************************)
EXTENDS SnapshotHandOff, WellFoundedInduction, TLAPS

(* The value of a row in the past of the source                               *)

\* A set of positions has a smallest one.
LEMMA SmallestExists ==
    ASSUME NEW S \in SUBSET Nat, S # {}
    PROVE  \E m \in S : \A n \in S : m <= n
<1> DEFINE R == {ss \in Nat \X Nat : ss[1] < ss[2]}
<1>1. IsWellFoundedOn(R, Nat)
  BY NatLessThanWellFounded DEF OpToRel
<1>2. PICK m \in S : \A n \in S : ~(<<n, m>> \in R)
  <2> HIDE DEF R
  <2> QED BY <1>1, WFMin
<1>3. ASSUME NEW n \in S PROVE m <= n
  <2>1. m \in Nat /\ n \in Nat
    OBVIOUS
  <2>2. ~(n < m)
    BY <1>2, <2>1
  <2> QED BY <2>1, <2>2
<1> QED
  BY <1>3

\* A set of positions up to a bound has a largest one, and Max is it.
LEMMA MaxFacts ==
    ASSUME NEW p \in Nat, NEW S \in SUBSET (1 .. p), S # {}
    PROVE  Max(S) \in S /\ \A n \in S : n <= Max(S)
<1> DEFINE T == {p - n : n \in S}
<1>1. T \in SUBSET Nat /\ T # {}
  <2>1. \A n \in S : p - n \in Nat
    OBVIOUS
  <2> QED BY <2>1
<1>2. PICK x \in T : \A y \in T : x <= y
  <2> HIDE DEF T
  <2> QED BY <1>1, SmallestExists
<1>3. PICK m \in S : x = p - m
  OBVIOUS
<1>4. ASSUME NEW n \in S PROVE m >= n
  <2>1. p - m <= p - n
    BY <1>2, <1>3
  <2> QED BY <2>1
<1>5. Max(S) \in S /\ \A n \in S : Max(S) >= n
  <2>1. \E m1 \in S : \A n \in S : m1 >= n
    BY <1>4
  <2> QED BY <2>1 DEF Max
<1> QED
  BY <1>5

\* The last change of a row, if it was changed at all.
LEMMA LastChange ==
    ASSUME NEW r, NEW p \in Nat, ChangesOf(r, p) # {}
    PROVE  /\ Max(ChangesOf(r, p)) \in 1 .. p
           /\ log[Max(ChangesOf(r, p))].row = r
           /\ \A q \in ChangesOf(r, p) : q <= Max(ChangesOf(r, p))
<1>1. ChangesOf(r, p) \in SUBSET (1 .. p)
  BY DEF ChangesOf
<1>2. /\ Max(ChangesOf(r, p)) \in ChangesOf(r, p)
      /\ \A q \in ChangesOf(r, p) : q <= Max(ChangesOf(r, p))
  BY <1>1, MaxFacts
<1> QED
  BY <1>2 DEF ChangesOf

\* The value of a row is the position of a change, zero, or no row.
LEMMA ValueAtType ==
    ASSUME NEW r, NEW p \in 0 .. MaxLsn
    PROVE  ValueAt(r, p) \in Value
<1>1. p \in Nat /\ MaxLsn \in Nat
  BY HandOffAssumption
<1>2. CASE ChangesOf(r, p) = {}
  BY <1>1, <1>2 DEF ValueAt, Value
<1>3. CASE ChangesOf(r, p) # {}
  <2>1. Max(ChangesOf(r, p)) \in 1 .. p
    BY <1>1, <1>3, LastChange
  <2>2. Max(ChangesOf(r, p)) \in 0 .. MaxLsn
    BY <1>1, <2>1
  <2> QED BY <1>3, <2>2 DEF ValueAt, Value
<1> QED
  BY <1>2, <1>3

\* The log is only ever appended to, and what exists before it does not change.
LogGrows ==
    /\ initial' = initial
    /\ Len(log') >= Len(log)
    /\ \A i \in 1 .. Len(log) : log'[i] = log[i]

\* What is written later does not change the past.
LEMMA ValueAtKept ==
    ASSUME LogGrows, NEW r, NEW p \in 0 .. Len(log), Len(log) \in Nat
    PROVE  ValueAt(r, p)' = ValueAt(r, p)
<1>1. \A q \in 1 .. p : log'[q] = log[q]
  BY DEF LogGrows
<1>2. ChangesOf(r, p)' = ChangesOf(r, p)
  BY <1>1 DEF ChangesOf
<1>3. CASE ChangesOf(r, p) = {}
  BY <1>2, <1>3 DEF ValueAt, LogGrows
<1>4. CASE ChangesOf(r, p) # {}
  <2>1. PICK m \in 1 .. p : m = Max(ChangesOf(r, p))
    BY <1>4, LastChange
  <2>2. log'[m] = log[m]
    BY <1>1
  <2>3. ValueAt(r, p) = IF log[m].live THEN m ELSE NoRow
    BY <1>4, <2>1 DEF ValueAt
  <2>4. ValueAt(r, p)' = IF log'[m].live THEN m ELSE NoRow
    BY <1>2, <1>4, <2>1 DEF ValueAt
  <2> QED BY <2>2, <2>3, <2>4
<1> QED
  BY <1>3, <1>4

\* A change decides the value of its row at its position, and of no other row.
LEMMA ValueAtNext ==
    ASSUME NEW r, NEW p \in Nat
    PROVE  /\ log[p + 1].row = r => ValueAt(r, p + 1) = Replayed(p + 1).val
           /\ log[p + 1].row # r => ValueAt(r, p + 1) = ValueAt(r, p)
<1>1. ASSUME log[p + 1].row = r
      PROVE  ValueAt(r, p + 1) = Replayed(p + 1).val
  <2>1. p + 1 \in ChangesOf(r, p + 1)
    BY <1>1 DEF ChangesOf
  <2>2. /\ Max(ChangesOf(r, p + 1)) \in 1 .. p + 1
        /\ p + 1 <= Max(ChangesOf(r, p + 1))
    BY <2>1, LastChange
  <2>3. Max(ChangesOf(r, p + 1)) = p + 1
    BY <2>2
  <2> QED BY <2>1, <2>3 DEF ValueAt, Replayed
<1>2. ASSUME log[p + 1].row # r
      PROVE  ValueAt(r, p + 1) = ValueAt(r, p)
  <2>1. ChangesOf(r, p + 1) = ChangesOf(r, p)
    BY <1>2 DEF ChangesOf
  <2> QED BY <2>1 DEF ValueAt
<1> QED
  BY <1>1, <1>2

--------------------------------------------------------------------------------
(* Types                                                                      *)

\* A stored offset is one of the log, a run that ended well has stored one, the
\* connector runs after such a run only, and a COPY runs while a load does.
Shape ==
    /\ pc = "done" => offset # Nothing
    /\ offset # Nothing => offset.lsn <= Len(log)
    /\ connector = "running" => pc = "done"
    /\ pc # "load" => copying = {}
    /\ \A c \in copying : c.at \in lsn .. Len(log)

\* TypeOK is inductive with it: the connector starts from the stored offset.
TypeInv == TypeOK /\ Shape

\* The type invariant holds before the first run.
LEMMA TypeInvInit == Init => TypeInv
<1> SUFFICES ASSUME Init PROVE TypeInv
    OBVIOUS
<1>1. log \in Seq(Change) /\ Len(log) = 0
  BY DEF Init
<1>2. clean \in BOOLEAN /\ skip \in BOOLEAN /\ failed \in BOOLEAN
  BY DEF Init
<1>3. TypeOK
  BY <1>1, <1>2, HandOffAssumption DEF Init, TypeOK
<1>4. Shape
  BY DEF Init, Shape
<1> QED
  BY <1>3, <1>4 DEF TypeInv

\* The rows a COPY inserts have the type of a stored row.
LEMMA InsertedType ==
    ASSUME TypeInv, NEW c \in copying, NEW keys
    PROVE  Inserted(c, keys) \in [Rows -> Version \cup {Nothing}]
<1>1. c.at \in 0 .. MaxLsn
  BY DEF TypeInv, TypeOK, Copy
<1>2. ASSUME NEW r \in Rows
      PROVE  [ver |-> SnapshotVersion, val |-> ValueAt(r, c.at)] \in Version
  <2>1. ValueAt(r, c.at) \in Value
    BY <1>1, ValueAtType
  <2> QED BY <2>1, HandOffAssumption DEF Version, SnapshotVersion
<1>3. ASSUME NEW r \in Rows
      PROVE  Inserted(c, keys)[r] \in Version \cup {Nothing}
  <2>1. target[r] \in Version \cup {Nothing}
    BY DEF TypeInv, TypeOK
  <2> QED BY <2>1, <1>2 DEF Inserted, Replacing
<1> QED
  BY <1>3 DEF Inserted

\* Every step of the source, the dumper and the connector keeps the types.
LEMMA TypeInvNext == TypeInv /\ [Next]_vars => TypeInv'
<1> SUFFICES ASSUME TypeInv, [Next]_vars PROVE TypeInv'
    OBVIOUS
<1> USE HandOffAssumption, NothingAssumption DEF sourceVars, optionVars, loadVars,
     connectorVars
<1>1. ASSUME NEW r \in Rows, NEW live \in BOOLEAN, Write(r, live) PROVE TypeInv'
  <2>1. /\ log' \in Seq(Change)
        /\ Len(log') = Len(log) + 1
        /\ Len(log') <= MaxLsn
    BY <1>1 DEF Write, TypeInv, TypeOK, Change
  <2>2. lsn' \in 0 .. Len(log') /\ applied' \in 0 .. Len(log')
    BY <1>1, <2>1 DEF Write, TypeInv, TypeOK
  <2>3. /\ offset' # Nothing => offset'.lsn <= Len(log')
        /\ \A c \in copying' : c.at \in lsn' .. Len(log')
    BY <1>1, <2>1 DEF Write, TypeInv, TypeOK, Shape, Offset
  <2> QED BY <1>1, <2>1, <2>2, <2>3 DEF Write, TypeInv, TypeOK, Shape
<1>2. CASE StartRun
  <2>1. clean' \in BOOLEAN /\ skip' \in BOOLEAN /\ failed' \in BOOLEAN
    BY <1>2 DEF StartRun
  <2>2. /\ lsn' \in 0 .. Len(log') /\ todo' \subseteq Tables
        /\ jobs' \subseteq Job /\ copying' \subseteq Copy
        /\ runs' \in 0 .. MaxRuns
    BY <1>2 DEF StartRun, TypeInv, TypeOK
  <2>3. /\ pc' = "schema" /\ connector = "stopped" /\ copying' = {}
        /\ UNCHANGED <<sourceVars, target, offset, connectorVars, doubtful>>
    BY <1>2 DEF StartRun
  <2> QED BY <2>1, <2>2, <2>3 DEF TypeInv, TypeOK, Shape
<1>3. ASSUME NEW t \in Tables, PrepareTable(t) PROVE TypeInv'
  <2>1. target' \in [Rows -> Version \cup {Nothing}]
    BY <1>3 DEF PrepareTable, TypeInv, TypeOK
  <2> QED BY <1>3, <2>1 DEF PrepareTable, TypeInv, TypeOK, Shape
<1>4. ASSUME NEW t \in Tables, PlanTable(t) PROVE TypeInv'
  <2>1. \A bounds : Segments(bounds) \subseteq SUBSET Keys
    BY DEF Segments
  <2>2. jobs' \subseteq Job
    <3>1. CASE UNCHANGED jobs
      BY <3>1 DEF TypeInv, TypeOK
    <3>2. ASSUME NEW bounds,
                 jobs' = jobs \cup {[table |-> t, seg |-> seg] : seg \in Segments(bounds)}
          PROVE  jobs' \subseteq Job
      <4>1. \A seg \in Segments(bounds) : [table |-> t, seg |-> seg] \in Job
        BY <2>1 DEF Job
      <4> QED BY <3>2, <4>1 DEF TypeInv, TypeOK
    <3> QED BY <1>4, <3>1, <3>2 DEF PlanTable
  <2>3. doubtful' \subseteq Tables /\ todo' \subseteq Tables
    BY <1>4 DEF PlanTable, TypeInv, TypeOK
  <2>4. /\ pc' \in {"plan", "load"}
        /\ UNCHANGED <<sourceVars, optionVars, copying, failed, target, offset, connectorVars,
                       runs>>
        /\ pc = "plan"
    BY <1>4 DEF PlanTable
  <2> QED BY <2>2, <2>3, <2>4 DEF TypeInv, TypeOK, Shape
<1>5. ASSUME NEW j \in jobs, StartCopy(j) PROVE TypeInv'
  <2>1. [job |-> j, at |-> Len(log)] \in Copy
    BY DEF TypeInv, TypeOK, Copy
  <2>2. jobs' \subseteq Job /\ copying' \subseteq Copy
    BY <1>5, <2>1 DEF StartCopy, TypeInv, TypeOK
  <2>3. \A c \in copying' : c.at \in lsn .. Len(log)
    BY <1>5 DEF StartCopy, TypeInv, TypeOK, Shape
  <2> QED BY <1>5, <2>2, <2>3 DEF StartCopy, TypeInv, TypeOK, Shape
<1>6. ASSUME NEW c \in copying, FinishCopy(c) PROVE TypeInv'
  <2>1. target' \in [Rows -> Version \cup {Nothing}]
    BY <1>6, InsertedType DEF FinishCopy
  <2> QED BY <1>6, <2>1 DEF FinishCopy, TypeInv, TypeOK, Shape
<1>7. CASE EndLoad
  BY <1>7 DEF EndLoad, TypeInv, TypeOK, Shape
<1>8. CASE write_lsn_offset
  <2>1. OffsetOfRun \in Offset /\ OffsetOfRun.lsn <= Len(log)
    BY DEF TypeInv, TypeOK, Offset, OffsetOfRun
  <2>2. offset' \in Offset /\ offset'.lsn <= Len(log)
    BY <1>8, <2>1 DEF write_lsn_offset, ReplacingOffset, TypeInv, TypeOK, Shape
  <2> QED BY <1>8, <2>2 DEF write_lsn_offset, TypeInv, TypeOK, Shape
<1>9. ASSUME NEW j \in jobs, FailJob(j) PROVE TypeInv'
  BY <1>9 DEF FailJob, TypeInv, TypeOK, Shape
<1>10. ASSUME NEW c \in copying, BreakCopy(c) PROVE TypeInv'
  <2>1. target' \in [Rows -> Version \cup {Nothing}]
    BY <1>10, InsertedType DEF BreakCopy
  <2>2. doubtful' \subseteq Tables
    BY <1>10 DEF BreakCopy, TypeInv, TypeOK, Copy, Job
  <2> QED BY <1>10, <2>1, <2>2 DEF BreakCopy, TypeInv, TypeOK, Shape
<1>11. CASE Die
  BY <1>11 DEF Die, TypeInv, TypeOK, Shape
<1>12. CASE StartConnector
  <2>1. applied' \in 0 .. Len(log)
    BY <1>12 DEF StartConnector, TypeInv, TypeOK, Shape, Offset
  <2> QED BY <1>12, <2>1 DEF StartConnector, TypeInv, TypeOK, Shape
<1>13. CASE Replay
  <2>1. applied' \in 1 .. Len(log) /\ applied' = applied + 1
    BY <1>13 DEF Replay, TypeInv, TypeOK
  <2>2. Replayed(applied + 1) \in Version
    BY <2>1 DEF Replayed, Version, Value, TypeInv, TypeOK
  <2>3. target' \in [Rows -> Version \cup {Nothing}]
    BY <1>13, <2>2 DEF Replay, Replacing, TypeInv, TypeOK
  <2> QED BY <1>13, <2>1, <2>3 DEF Replay, TypeInv, TypeOK, Shape
<1>14. CASE FlushOffset
  <2>1. /\ [seq |-> flushes + 1, lsn |-> applied] \in Offset
        /\ flushes' \in 0 .. MaxFlushes
        /\ applied <= Len(log)
    BY <1>14 DEF FlushOffset, TypeInv, TypeOK, Offset
  <2>2. offset' \in Offset /\ offset'.lsn <= Len(log)
    BY <1>14, <2>1 DEF FlushOffset, ReplacingOffset, TypeInv, TypeOK, Shape
  <2> QED BY <1>14, <2>1, <2>2 DEF FlushOffset, TypeInv, TypeOK, Shape
<1>15. CASE StopConnector
  BY <1>15 DEF StopConnector, TypeInv, TypeOK, Shape
<1>16. CASE UNCHANGED vars
  BY <1>16 DEF vars, TypeInv, TypeOK, Shape
<1> QED
  BY <1>1, <1>2, <1>3, <1>4, <1>5, <1>6, <1>7, <1>8, <1>9, <1>10, <1>11, <1>12,
     <1>13, <1>14, <1>15, <1>16 DEF Next, Dump

\* Type correctness: positions stay within the log, and the stored versions and
\* offsets are ones that the dumper or the connector can write.
THEOREM TypeCorrect == Spec => []TypeOK
<1>1. Spec => []TypeInv
  BY TypeInvInit, TypeInvNext, PTL DEF Spec
<1> QED
  BY <1>1, PTL DEF TypeInv

--------------------------------------------------------------------------------
(* Where the replay begins, and what the versions mean                        *)

\* The offset that a run finds is not ahead of its position, and the one that is
\* stored is not ahead of what the connector has replayed.
OffsetInv ==
    /\ pc \in {"schema", "plan", "load", "offset"} /\ offset # Nothing => offset.lsn <= lsn
    /\ connector = "running" => offset.lsn <= applied

\* A version above that of the snapshot is the position of the change it replays.
VersionMeans(r) ==
    \A v \in 1 .. MaxLsn : target[r] # Nothing /\ target[r].ver = v =>
        v <= Len(log) /\ target[r].val = ValueAt(r, v)

VersionInv == \A r \in Rows : VersionMeans(r)

\* Every step keeps OffsetInv.  A run captures the end of the log, and the
\* connector stores what it has replayed, or keeps an older offset.
LEMMA OffsetNext == TypeInv /\ OffsetInv /\ [Next]_vars => OffsetInv'
<1> SUFFICES ASSUME TypeInv, OffsetInv, [Next]_vars PROVE OffsetInv'
    OBVIOUS
<1> USE NothingAssumption DEF sourceVars, optionVars, loadVars, connectorVars
<1>t. /\ lsn \in Nat /\ applied \in Nat
      /\ offset # Nothing => offset.lsn \in Nat
  BY HandOffAssumption DEF TypeInv, TypeOK, Offset
<1>1. CASE StartRun
  BY <1>1 DEF StartRun, OffsetInv, TypeInv, Shape
<1>2. CASE write_lsn_offset
  <2>1. pc' = "done" /\ pc = "offset" /\ connector' = connector
    BY <1>2 DEF write_lsn_offset
  <2> QED BY <2>1 DEF TypeInv, Shape, OffsetInv
<1>3. CASE StartConnector
  BY <1>3, <1>t DEF StartConnector, OffsetInv, TypeInv, Shape
<1>4. CASE Replay
  BY <1>4, <1>t DEF Replay, OffsetInv, TypeInv, Shape
<1>5. CASE FlushOffset
  BY <1>5, <1>t DEF FlushOffset, ReplacingOffset, OffsetInv, TypeInv, Shape
<1>6. CASE StopConnector
  BY <1>6 DEF StopConnector, OffsetInv, TypeInv, Shape
<1>7. ASSUME UNCHANGED <<offset, lsn, connector, applied>>,
             pc' \in {"plan", "load", "offset"} => pc \in {"schema", "plan", "load", "offset"},
             pc' = "schema" => pc = "schema"
      PROVE  OffsetInv'
  BY <1>7 DEF OffsetInv
<1>8. ASSUME NEW r \in Rows, NEW live \in BOOLEAN, Write(r, live) PROVE OffsetInv'
  BY <1>7, <1>8 DEF Write
<1>9. ASSUME NEW t \in Tables, PrepareTable(t) \/ PlanTable(t) PROVE OffsetInv'
  BY <1>7, <1>9 DEF PrepareTable, PlanTable
<1>10. ASSUME NEW j \in jobs, StartCopy(j) \/ FailJob(j) PROVE OffsetInv'
  BY <1>7, <1>10 DEF StartCopy, FailJob
<1>11. ASSUME NEW c \in copying, FinishCopy(c) \/ BreakCopy(c) PROVE OffsetInv'
  BY <1>7, <1>11 DEF FinishCopy, BreakCopy
<1>12. CASE EndLoad \/ Die \/ UNCHANGED vars
  BY <1>7, <1>12 DEF EndLoad, Die, vars
<1> QED
  BY <1>1, <1>2, <1>3, <1>4, <1>5, <1>6, <1>8, <1>9, <1>10, <1>11, <1>12 DEF Next, Dump

\* Positions of the log and of the past are numbers.
LEMMA Positions ==
    TypeInv => Len(log) \in Nat /\ lsn \in Nat /\ applied \in Nat /\ applied <= Len(log)
BY DEF TypeInv, TypeOK

\* A stored version is a number.
LEMMA VersionType ==
    ASSUME TypeInv, NEW r \in Rows, target[r] # Nothing
    PROVE  target[r].ver \in 0 .. MaxLsn /\ target[r].val \in Value
BY DEF TypeInv, TypeOK, Version

\* In no step but Write does the log change.
LEMMA LogGrowsNext == TypeInv /\ [Next]_vars => LogGrows
<1> SUFFICES ASSUME TypeInv, [Next]_vars PROVE LogGrows
    OBVIOUS
<1> USE DEF sourceVars
<1>1. Len(log) \in Nat /\ log \in Seq(Change)
  BY DEF TypeInv, TypeOK
<1>2. ASSUME NEW r \in Rows, NEW live \in BOOLEAN, Write(r, live) PROVE LogGrows
  BY <1>1, <1>2 DEF Write, LogGrows, Change
<1>3. CASE UNCHANGED <<log, initial>>
  BY <1>1, <1>3 DEF LogGrows
<1> QED
  BY <1>2, <1>3 DEF Next, Dump, StartRun, PrepareTable, PlanTable, StartCopy, FinishCopy,
     EndLoad, write_lsn_offset, FailJob, BreakCopy, Die, StartConnector, Replay, FlushOffset,
     StopConnector, vars

\* A row that a step leaves alone or empties, or loads, keeps what its version
\* means.
LEMMA VersionKept ==
    ASSUME TypeInv, LogGrows, NEW r, VersionMeans(r),
           target'[r] \in {target[r], Nothing} \/ target'[r].ver = 0
    PROVE  VersionMeans(r)'
<1> SUFFICES ASSUME NEW v \in 1 .. MaxLsn, target'[r] # Nothing, target'[r].ver = v
             PROVE  v <= Len(log') /\ target'[r].val = ValueAt(r, v)'
    BY DEF VersionMeans
<1>1. target'[r] = target[r]
  BY HandOffAssumption
<1>2. v <= Len(log) /\ target[r].val = ValueAt(r, v) /\ Len(log) \in Nat
  BY <1>1, Positions DEF VersionMeans
<1>3. ValueAt(r, v)' = ValueAt(r, v)
  BY <1>2, HandOffAssumption, ValueAtKept
<1>4. v <= Len(log')
  BY <1>2, HandOffAssumption DEF LogGrows
<1> QED
  BY <1>1, <1>2, <1>3, <1>4

\* Every step keeps VersionInv: only Replay stores a version above zero.
LEMMA VersionNext == TypeInv /\ VersionInv /\ [Next]_vars => VersionInv'
<1> SUFFICES ASSUME TypeInv, VersionInv, [Next]_vars, NEW r \in Rows PROVE VersionMeans(r)'
    BY DEF VersionInv
<1> USE DEF sourceVars, optionVars, loadVars, connectorVars
<1>g. LogGrows
  BY LogGrowsNext
<1>m. VersionMeans(r)
  BY DEF VersionInv
<1>k. ASSUME target'[r] \in {target[r], Nothing} \/ target'[r].ver = 0
      PROVE  VersionMeans(r)'
  BY <1>g, <1>m, <1>k, VersionKept
<1>i. ASSUME NEW c \in copying, NEW keys, target' = Inserted(c, keys)
      PROVE  VersionMeans(r)'
  <2>1. target'[r] = target[r] \/ target'[r].ver = 0
    BY <1>i DEF Inserted, Replacing, SnapshotVersion
  <2> QED BY <2>1, <1>k
<1>1. ASSUME NEW c \in copying, FinishCopy(c) \/ BreakCopy(c) PROVE VersionMeans(r)'
  BY <1>1, <1>i DEF FinishCopy, BreakCopy
<1>2. ASSUME NEW t \in Tables, PrepareTable(t) PROVE VersionMeans(r)'
  BY <1>2, <1>k DEF PrepareTable
<1>3. CASE Replay
  <2>1. PICK q \in 1 .. Len(log) : q = applied + 1
    BY <1>3, Positions DEF Replay
  <2>2. target' = [target EXCEPT ![log[q].row] = Replacing(@, Replayed(q))]
        /\ UNCHANGED <<log, initial>>
    BY <1>3, <2>1 DEF Replay
  <2>3. CASE target'[r] = target[r]
    BY <2>3, <1>k
  <2>4. CASE target'[r] # target[r]
    <3>1. log[q].row = r /\ target'[r] = Replayed(q)
      BY <2>2, <2>4 DEF Replacing, TypeInv, TypeOK
    <3>2. q - 1 \in Nat /\ (q - 1) + 1 = q
      BY <2>1
    <3>3. ValueAt(r, q) = Replayed(q).val
      BY <3>1, <3>2, ValueAtNext
    <3>4. ValueAt(r, q)' = ValueAt(r, q) /\ q <= Len(log')
      BY <2>1, <2>2, <1>g, Positions, ValueAtKept
    <3> QED BY <3>1, <3>3, <3>4 DEF VersionMeans, Replayed
  <2> QED BY <2>3, <2>4
<1>4. CASE UNCHANGED target
  BY <1>4, <1>k
<1> QED
  BY <1>1, <1>2, <1>3, <1>4 DEF Next, Dump, Write, StartRun, PlanTable, StartCopy,
     EndLoad, write_lsn_offset, FailJob, Die, StartConnector, FlushOffset, StopConnector, vars

--------------------------------------------------------------------------------
(* What a load has done                                                       *)

\* ClickHouse shows the row as it was at a position no earlier than this one.
Since(r, p) == \E q \in p .. Len(log) : Visible(r) = ValueAt(r, q)

\* A job that copies the row waits, or copies it now.
Pending(r) ==
    \/ \E j \in jobs : r[1] = j.table /\ r[2] \in j.seg
    \/ \E c \in copying : r[1] = c.job.table /\ r[2] \in c.job.seg

\* The run has planned the table of the row and has not ended its load.
InLoad(r) == pc = "load" \/ (pc = "plan" /\ r[1] \notin todo)

\* A row of a table that the run takes from empty to full: nothing is there, or
\* its copy; a copy is to come unless a failure has been reported; and none is
\* missing once the load has ended.
LoadInv(r) ==
    /\ InLoad(r) => target[r] = Nothing \/ (target[r].ver = 0 /\ Since(r, lsn))
    /\ InLoad(r) => failed \/ Pending(r) \/ Since(r, lsn)
    /\ pc = "offset" => Since(r, lsn)
    /\ pc = "done" => Since(r, Position)

RowInv == \A r \in Rows : r[1] \notin doubtful => LoadInv(r)

\* The segments between any bounds cover every key.
LEMMA SegmentsCover ==
    ASSUME NEW bounds \in SUBSET Keys, NEW k \in Keys
    PROVE  \E seg \in Segments(bounds) : k \in seg
<1>k. k \in Int /\ \A b \in bounds : b \in Int
  BY HandOffAssumption
<1>1. CASE \A b \in bounds : k >= b
  <2>1. {x \in Keys : \A b \in bounds : x >= b} \in Segments(bounds)
    BY DEF Segments
  <2> QED BY <1>1, <2>1
<1>2. CASE \E b \in bounds : k < b
  <2> DEFINE D == {b - k : b \in {c \in bounds : k < c}}
  <2>1. D \in SUBSET Nat /\ D # {}
    <3>1. \A b \in bounds : k < b => b - k \in Nat
      BY <1>k
    <3> QED BY <1>2, <3>1
  <2>2. PICK d \in D : \A e \in D : d <= e
    <3> HIDE DEF D
    <3> QED BY <2>1, SmallestExists
  <2>3. PICK b \in bounds : k < b /\ d = b - k
    OBVIOUS
  <2>4. ASSUME NEW c \in bounds, c < b PROVE k >= c
    <3>1. CASE k < c
      <4>1. c - k \in D
        BY <3>1
      <4>2. b - k <= c - k
        BY <4>1, <2>2, <2>3
      <4> QED BY <4>2, <2>4, <1>k
    <3> QED BY <3>1, <1>k
  <2>5. {x \in Keys : x < b /\ \A c \in bounds : c < b => x >= c} \in Segments(bounds)
    BY DEF Segments
  <2> QED BY <2>3, <2>4, <2>5
<1> QED
  BY <1>1, <1>2, <1>k

\* What ClickHouse showed since a position it still shows.
LEMMA SinceKept ==
    ASSUME TypeInv, LogGrows, NEW r, target'[r] = target[r], NEW p \in Nat, Since(r, p)
    PROVE  Since(r, p)'
<1>1. PICK q \in p .. Len(log) : Visible(r) = ValueAt(r, q)
  BY DEF Since
<1>2. Len(log) \in Nat /\ q \in 0 .. Len(log)
  BY Positions
<1>3. ValueAt(r, q)' = ValueAt(r, q)
  BY <1>2, ValueAtKept
<1>4. q \in p .. Len(log')
  BY <1>2 DEF LogGrows
<1>5. Visible(r)' = Visible(r)
  BY DEF Visible
<1> QED
  BY <1>1, <1>3, <1>4, <1>5 DEF Since

\* No run has done anything before the first one.
LEMMA SafeInit == Init => OffsetInv /\ VersionInv /\ RowInv
BY DEF Init, OffsetInv, VersionInv, VersionMeans, RowInv, LoadInv, InLoad

\* A step of a load that leaves the row alone, and takes no job that copies it
\* without a failure, keeps what the load has done for the row.
LEMMA LoadKept ==
    ASSUME TypeInv, LogGrows, NEW r, LoadInv(r), target'[r] = target[r],
           pc' = pc, lsn' = lsn, pc \notin {"offset", "done"}, InLoad(r)' => InLoad(r),
           failed \/ Pending(r) => failed' \/ Pending(r)'
    PROVE  LoadInv(r)'
<1>1. PICK n \in Nat : n = lsn
  BY Positions
<1>2. Since(r, n) => Since(r, n)'
  BY SinceKept
<1>3. Since(r, lsn) => Since(r, lsn)'
  <2>1. Since(r, lsn) <=> Since(r, n)
    BY <1>1
  <2>2. Since(r, lsn)' <=> Since(r, n)'
    BY <1>1 DEF Since
  <2> QED BY <1>2, <2>1, <2>2
<1> QED
  BY <1>3 DEF LoadInv

\* The copy of a row shows it as it was where the COPY read.
LEMMA CopiedSince ==
    ASSUME TypeInv, NEW c \in copying, NEW r \in Rows, target' = Inserted(c, c.job.seg),
           UNCHANGED <<log, initial>>, r[1] = c.job.table, r[2] \in c.job.seg,
           NEW n \in Nat, n = lsn,
           target[r] = Nothing \/ (target[r].ver = 0 /\ Since(r, n))
    PROVE  Since(r, n)' /\ (target'[r] = Nothing \/ target'[r].ver = 0)
<1>1. PICK q \in n .. Len(log) : q = c.at
  BY DEF TypeInv, Shape
<1>2. q \in 0 .. Len(log) /\ Len(log) \in Nat
  BY Positions
<1>3. LogGrows
  BY <1>2 DEF LogGrows
<1>4. ValueAt(r, q)' = ValueAt(r, q)
  BY <1>2, <1>3, ValueAtKept
<1>5. CASE ValueAt(r, q) # NoRow
  <2>1. target'[r] = [ver |-> SnapshotVersion, val |-> ValueAt(r, q)]
    BY <1>1, <1>5 DEF Inserted, Replacing, SnapshotVersion
  <2>2. Visible(r)' = ValueAt(r, q)
    <3>1. target'[r] # Nothing
      <4>1. q \in 0 .. MaxLsn
        <5>1. Len(log) <= MaxLsn /\ MaxLsn \in Nat
          BY HandOffAssumption DEF TypeInv, TypeOK
        <5> QED BY <1>2, <5>1
      <4>2. [ver |-> SnapshotVersion, val |-> ValueAt(r, q)] \in Version
        BY <4>1, ValueAtType, HandOffAssumption DEF Version, SnapshotVersion
      <4> QED BY <2>1, <4>2, NothingAssumption
    <3> QED BY <2>1, <3>1 DEF Visible
  <2> QED BY <2>1, <2>2, <1>1, <1>4 DEF Since, SnapshotVersion
<1>6. CASE ValueAt(r, q) = NoRow
  <2>1. target'[r] = target[r]
    BY <1>1, <1>6 DEF Inserted
  <2>2. CASE target[r] = Nothing
    <3>1. Visible(r)' = NoRow
      BY <2>1, <2>2 DEF Visible
    <3> QED BY <2>1, <2>2, <3>1, <1>1, <1>4, <1>6 DEF Since
  <2>3. CASE target[r] # Nothing
    BY <2>1, <2>3, <1>3, SinceKept
  <2> QED BY <2>2, <2>3
<1> QED
  BY <1>5, <1>6

\* Every step of a run keeps what the load has done for a row of a table that is
\* not in doubt.
LEMMA RunNext ==
    ASSUME TypeInv, OffsetInv, RowInv, NEW r \in Rows, r[1] \notin doubtful',
           StartRun \/ Dump \/ Die \/ (\E j \in jobs : FailJob(j))
              \/ (\E c \in copying : BreakCopy(c)),
           LogGrows
    PROVE  LoadInv(r)'
<1> USE DEF sourceVars, optionVars, loadVars, connectorVars
<1>r. r[1] \in Tables /\ r[2] \in Keys /\ r = <<r[1], r[2]>>
  BY DEF Rows
<1>l. r[1] \notin doubtful => LoadInv(r)
  BY DEF RowInv
<1>1. CASE StartRun \/ Die
  BY <1>1 DEF StartRun, Die, LoadInv, InLoad
<1>2. ASSUME NEW t \in Tables, PrepareTable(t) PROVE LoadInv(r)'
  BY <1>2, <1>r DEF PrepareTable, LoadInv, InLoad
<1>3. ASSUME NEW t \in Tables, PlanTable(t), r[1] = t PROVE LoadInv(r)'
  <2>1. ~HasData(t) /\ target' = target /\ pc' \in {"plan", "load"}
    BY <1>3 DEF PlanTable
  <2>2. target'[r] = Nothing
    BY <2>1, <1>3, <1>r DEF HasData
  <2>3. PICK bounds \in get_pk_range_boundaries(t) :
           jobs' = jobs \cup {[table |-> t, seg |-> seg] : seg \in Segments(bounds)}
    BY <1>3, <2>1 DEF PlanTable
  <2>4. bounds \in SUBSET Keys
    BY DEF get_pk_range_boundaries
  <2>5. PICK seg \in Segments(bounds) : r[2] \in seg
    BY <2>4, <1>r, SegmentsCover
  <2>6. [table |-> t, seg |-> seg] \in jobs'
    BY <2>3
  <2>7. Pending(r)'
    BY <2>5, <2>6, <1>3 DEF Pending
  <2> QED BY <2>1, <2>2, <2>7 DEF LoadInv
<1>4. ASSUME NEW t \in Tables, PlanTable(t), r[1] # t PROVE LoadInv(r)'
  <2>1. LoadInv(r)
    BY <1>4, <1>l DEF PlanTable
  <2>2. /\ UNCHANGED <<log, initial, target, lsn, failed, copying>>
        /\ jobs \subseteq jobs'
        /\ pc' \in {"plan", "load"}
    BY <1>4 DEF PlanTable
  <2>3. InLoad(r)' => InLoad(r)
    BY <1>4 DEF PlanTable, InLoad
  <2>4. failed \/ Pending(r) => failed' \/ Pending(r)'
    BY <2>2 DEF Pending
  <2>5. Since(r, lsn)' <=> Since(r, lsn)
    BY <2>2 DEF Since, Visible, ValueAt, ChangesOf
  <2>6. target'[r] = target[r]
    BY <2>2
  <2> QED BY <2>1, <2>2, <2>3, <2>4, <2>5, <2>6 DEF LoadInv
<1>5. ASSUME NEW j \in jobs, StartCopy(j) \/ FailJob(j) PROVE LoadInv(r)'
  <2>1. /\ UNCHANGED <<log, initial, target, lsn, pc>> /\ pc = "load"
        /\ LoadInv(r)
    BY <1>5, <1>l DEF StartCopy, FailJob
  <2>2. InLoad(r)
    BY <2>1 DEF InLoad
  <2>3. failed \/ Pending(r) => failed' \/ Pending(r)'
    <3>1. CASE FailJob(j)
      BY <3>1 DEF FailJob
    <3>2. CASE StartCopy(j)
      <4>1. /\ jobs' = jobs \ {j} /\ failed' = failed
            /\ copying' = copying \cup {[job |-> j, at |-> Len(log)]}
        BY <3>2 DEF StartCopy
      <4>2. [job |-> j, at |-> Len(log)].job = j
        OBVIOUS
      <4>3. ASSUME NEW i \in jobs, r[1] = i.table, r[2] \in i.seg PROVE Pending(r)'
        <5>1. CASE i = j
          BY <4>1, <4>2, <4>3, <5>1 DEF Pending
        <5>2. CASE i # j
          BY <4>1, <4>3, <5>2 DEF Pending
        <5> QED BY <5>1, <5>2
      <4>4. ASSUME NEW c \in copying, r[1] = c.job.table, r[2] \in c.job.seg
            PROVE  Pending(r)'
        BY <4>1, <4>4 DEF Pending
      <4>5. Pending(r) => Pending(r)'
        BY <4>3, <4>4 DEF Pending
      <4> QED BY <4>1, <4>5
    <3> QED BY <1>5, <3>1, <3>2
  <2> QED BY <2>1, <2>2, <2>3, LoadKept
<1>6. ASSUME NEW c \in copying, FinishCopy(c) PROVE LoadInv(r)'
  <2>1. /\ UNCHANGED <<log, initial, lsn, pc, failed, jobs>> /\ pc = "load"
        /\ LoadInv(r) /\ target' = Inserted(c, c.job.seg) /\ copying' = copying \ {c}
    BY <1>6, <1>l DEF FinishCopy, TypeInv, Shape
  <2>2. InLoad(r)
    BY <2>1 DEF InLoad
  <2>3. CASE r[1] = c.job.table /\ r[2] \in c.job.seg
    <3>1. PICK n \in Nat : n = lsn
      BY Positions
    <3>2. target[r] = Nothing \/ (target[r].ver = 0 /\ Since(r, n))
      BY <2>1, <2>2, <3>1 DEF LoadInv
    <3>3. Since(r, n)' /\ (target'[r] = Nothing \/ target'[r].ver = 0)
      BY <2>1, <2>3, <3>1, <3>2, CopiedSince
    <3>4. Since(r, lsn)'
      BY <2>1, <3>1, <3>3 DEF Since
    <3> QED BY <2>1, <3>3, <3>4 DEF LoadInv
  <2>4. CASE ~(r[1] = c.job.table /\ r[2] \in c.job.seg)
    <3>1. target'[r] = target[r]
      BY <2>1, <2>4 DEF Inserted
    <3>2. failed \/ Pending(r) => failed' \/ Pending(r)'
      BY <2>1, <2>4 DEF Pending
    <3> QED BY <2>1, <2>2, <3>1, <3>2, LoadKept
  <2> QED BY <2>3, <2>4
<1>7. ASSUME NEW c \in copying, BreakCopy(c) PROVE LoadInv(r)'
  <2>1. /\ UNCHANGED <<log, initial, lsn, pc, failed, jobs>> /\ pc = "load"
        /\ r[1] # c.job.table /\ r[1] \notin doubtful
        /\ copying' = copying \ {c}
    BY <1>7 DEF BreakCopy, TypeInv, Shape
  <2>2. LoadInv(r) /\ InLoad(r)
    BY <2>1, <1>l DEF InLoad
  <2>3. target'[r] = target[r]
    BY <1>7, <2>1 DEF BreakCopy, Inserted
  <2>4. failed \/ Pending(r) => failed' \/ Pending(r)'
    BY <2>1 DEF Pending
  <2> QED BY <2>1, <2>2, <2>3, <2>4, LoadKept
<1>8. CASE EndLoad
  <2>1. /\ UNCHANGED <<log, initial, lsn, target>> /\ pc = "load"
        /\ jobs = {} /\ copying = {} /\ LoadInv(r)
        /\ pc' = IF failed THEN "failed" ELSE "offset"
    BY <1>8, <1>l DEF EndLoad
  <2>2. failed \/ Since(r, lsn)
    BY <2>1 DEF LoadInv, InLoad, Pending
  <2>3. Since(r, lsn)' <=> Since(r, lsn)
    BY <2>1 DEF Since, Visible, ValueAt, ChangesOf
  <2> QED BY <2>1, <2>2, <2>3 DEF LoadInv, InLoad
<1>9. CASE write_lsn_offset
  <2>1. /\ UNCHANGED <<log, initial, lsn, target, connector>> /\ pc = "offset" /\ pc' = "done"
        /\ LoadInv(r) /\ offset' = ReplacingOffset(offset, OffsetOfRun)
    BY <1>9, <1>l DEF write_lsn_offset
  <2>2. PICK q \in lsn .. Len(log) : Visible(r) = ValueAt(r, q)
    BY <2>1 DEF LoadInv, Since
  <2>3. Position' <= lsn /\ Position' \in Int
    <3>1. connector' # "running"
      BY <2>1 DEF TypeInv, Shape
    <3>2. offset'.lsn <= lsn /\ offset'.lsn \in Int
      BY <2>1, Positions, HandOffAssumption DEF ReplacingOffset, OffsetOfRun, OffsetInv,
         TypeInv, TypeOK, Offset
    <3> QED BY <3>1, <3>2 DEF Position
  <2>4. q \in Position' .. Len(log)
    BY <2>3, Positions
  <2>5. Visible(r)' = Visible(r) /\ ValueAt(r, q)' = ValueAt(r, q)
    BY <2>1 DEF Visible, ValueAt, ChangesOf
  <2>6. Since(r, Position)'
    BY <2>1, <2>2, <2>4, <2>5 DEF Since
  <2> QED BY <2>1, <2>6 DEF LoadInv, InLoad
<1> QED
  BY <1>1, <1>2, <1>3, <1>4, <1>5, <1>6, <1>7, <1>8, <1>9 DEF Dump

\* Every step of the source and of the connector keeps what ClickHouse shows of a
\* row that is not in doubt: Replay moves the position past a change and makes the
\* row show it, or something later.
LEMMA RowNext ==
    TypeInv /\ OffsetInv /\ VersionInv /\ RowInv /\ [Next]_vars => RowInv'
<1> SUFFICES ASSUME TypeInv, OffsetInv, VersionInv, RowInv, [Next]_vars,
                    NEW r \in Rows, r[1] \notin doubtful'
             PROVE  LoadInv(r)'
    BY DEF RowInv
<1> USE DEF sourceVars, optionVars, loadVars, connectorVars
<1>g. LogGrows
  BY LogGrowsNext
<1>l. r[1] \notin doubtful => LoadInv(r)
  BY DEF RowInv
<1>1. CASE StartRun \/ Dump \/ Die \/ (\E j \in jobs : FailJob(j))
              \/ (\E c \in copying : BreakCopy(c))
  BY <1>1, <1>g, RunNext
<1>2. ASSUME UNCHANGED <<target, pc, lsn, failed, jobs, copying, todo, doubtful>>,
             pc = "done" => Position' \in Int /\ Position \in Nat /\ Position' <= Position
      PROVE  LoadInv(r)'
  <2>1. LoadInv(r)
    BY <1>2, <1>l
  <2>2. ASSUME NEW p \in Nat, Since(r, p) PROVE Since(r, p)'
    BY <1>2, <2>2, <1>g, SinceKept
  <2>3. PICK n \in Nat : n = lsn
    BY Positions
  <2>4. Since(r, lsn) => Since(r, lsn)'
    <3>1. Since(r, lsn) <=> Since(r, n)
      BY <2>3
    <3>2. Since(r, lsn)' <=> Since(r, n)'
      BY <1>2, <2>3 DEF Since
    <3> QED BY <2>2, <3>1, <3>2
  <2>5. pc = "done" => Since(r, Position)'
    <3> SUFFICES ASSUME pc = "done" PROVE Since(r, Position)'
      OBVIOUS
    <3>1. PICK m \in Nat : m = Position
      BY <1>2
    <3>2. Since(r, m)
      BY <2>1, <3>1 DEF LoadInv
    <3>3. Since(r, m)'
      BY <2>2, <3>2
    <3>4. PICK q \in m .. Len(log') : Visible(r)' = ValueAt(r, q)'
      BY <3>3 DEF Since
    <3>5. q \in Position' .. Len(log')
      BY <1>2, <3>1
    <3> QED BY <3>4, <3>5 DEF Since
  <2>6. InLoad(r)' <=> InLoad(r)
    BY <1>2 DEF InLoad
  <2>7. Pending(r)' <=> Pending(r)
    BY <1>2 DEF Pending
  <2> QED BY <1>2, <2>1, <2>4, <2>5, <2>6, <2>7 DEF LoadInv
<1>p. pc = "done" => Position \in Nat
  BY HandOffAssumption DEF Position, TypeInv, TypeOK, Shape, Offset
<1>3. ASSUME NEW s \in Rows, NEW live \in BOOLEAN, Write(s, live) PROVE LoadInv(r)'
  <2>1. UNCHANGED <<target, pc, lsn, failed, jobs, copying, todo, doubtful, connector,
                    applied, offset>>
    BY <1>3 DEF Write
  <2>2. Position' = Position
    BY <2>1 DEF Position
  <2> QED BY <1>2, <1>p, <2>1, <2>2
<1>4. CASE StartConnector
  <2>1. UNCHANGED <<target, pc, lsn, failed, jobs, copying, todo, doubtful>>
    BY <1>4 DEF StartConnector
  <2>2. Position' = Position
    BY <1>4 DEF StartConnector, Position
  <2> QED BY <1>2, <1>p, <2>1, <2>2
<1>5. CASE FlushOffset
  <2>1. UNCHANGED <<target, pc, lsn, failed, jobs, copying, todo, doubtful>>
    BY <1>5 DEF FlushOffset
  <2>2. Position' = Position
    BY <1>5 DEF FlushOffset, Position
  <2> QED BY <1>2, <1>p, <2>1, <2>2
<1>6. CASE StopConnector
  <2>1. UNCHANGED <<target, pc, lsn, failed, jobs, copying, todo, doubtful>>
    BY <1>6 DEF StopConnector
  <2>2. Position' <= Position /\ Position' \in Int
    BY <1>6, HandOffAssumption DEF StopConnector, Position, OffsetInv, TypeInv, TypeOK, Shape,
       Offset
  <2> QED BY <1>2, <1>p, <2>1, <2>2
<1>7. CASE Replay
  <2>1. PICK q \in 1 .. Len(log) : q = applied + 1 /\ q - 1 = applied
    BY <1>7, Positions DEF Replay
  <2>2. /\ target' = [target EXCEPT ![log[q].row] = Replacing(@, Replayed(q))]
        /\ UNCHANGED <<log, initial, pc, lsn, failed, jobs, copying, todo, doubtful, connector>>
        /\ connector = "running" /\ applied' = q
    BY <1>7, <2>1 DEF Replay
  <2>3. pc = "done" /\ LoadInv(r)
    BY <2>2, <1>l DEF TypeInv, Shape
  <2>4. PICK p \in applied .. Len(log) : Visible(r) = ValueAt(r, p)
    BY <2>2, <2>3 DEF LoadInv, Since, Position
  <2>5. Position' = q
    BY <2>2 DEF Position
  <2>6. q \in Nat /\ Len(log) \in Nat /\ q - 1 \in Nat /\ (q - 1) + 1 = q
    BY <2>1, Positions
  <2>v. \A x : ValueAt(r, x)' = ValueAt(r, x)
    BY <2>2 DEF ValueAt, ChangesOf
  <2>7. \E x \in q .. Len(log) : Visible(r)' = ValueAt(r, x)
    <3>1. CASE log[q].row = r /\ target'[r] = Replayed(q)
      <4>1. ValueAt(r, q) = Replayed(q).val
        BY <3>1, <2>6, ValueAtNext
      <4>2. Replayed(q) \in Version
        BY <2>1, HandOffAssumption DEF Replayed, Version, Value, TypeInv, TypeOK
      <4>3. Visible(r)' = ValueAt(r, q)
        BY <3>1, <4>1, <4>2, NothingAssumption DEF Visible
      <4> QED BY <4>3, <2>6
    <3>2. CASE log[q].row = r /\ target'[r] # Replayed(q)
      <4>1. /\ target[r] # Nothing /\ target[r].ver > q /\ target'[r] = target[r]
        BY <2>2, <3>2 DEF Replacing, Replayed, TypeInv, TypeOK
      <4>2. PICK v \in 1 .. MaxLsn : v = target[r].ver
        BY <4>1, <2>6, VersionType, HandOffAssumption
      <4>3. v <= Len(log) /\ target[r].val = ValueAt(r, v)
        BY <4>1, <4>2 DEF VersionInv, VersionMeans
      <4>4. Visible(r)' = ValueAt(r, v)
        BY <4>1, <4>3 DEF Visible
      <4>5. v \in q .. Len(log)
        BY <4>1, <4>2, <4>3, <2>6
      <4> QED BY <4>4, <4>5
    <3>3. CASE log[q].row # r
      <4>1. target'[r] = target[r]
        BY <2>2, <3>3 DEF TypeInv, TypeOK
      <4>2. Visible(r)' = Visible(r)
        BY <4>1 DEF Visible
      <4>3. ValueAt(r, q) = ValueAt(r, q - 1)
        BY <3>3, <2>6, ValueAtNext
      <4>4. CASE p = q - 1
        BY <4>2, <4>3, <4>4, <2>4, <2>6
      <4>5. CASE p # q - 1
        <5>1. p \in q .. Len(log)
          BY <4>5, <2>1, <2>4, Positions
        <5> QED BY <5>1, <4>2, <2>4
      <4> QED BY <4>4, <4>5
    <3> QED BY <3>1, <3>2, <3>3
  <2>8. Since(r, Position)'
    BY <2>2, <2>5, <2>7, <2>v DEF Since
  <2> QED BY <2>2, <2>3, <2>8 DEF LoadInv, InLoad
<1>8. CASE UNCHANGED vars
  <2>1. UNCHANGED <<target, pc, lsn, failed, jobs, copying, todo, doubtful, connector,
                    applied, offset>>
    BY <1>8 DEF vars
  <2>2. Position' = Position
    BY <2>1 DEF Position
  <2> QED BY <1>2, <1>p, <2>1, <2>2
<1> QED
  BY <1>1, <1>3, <1>4, <1>5, <1>6, <1>7, <1>8 DEF Next

\* After a run that ended well no change is missed: what ClickHouse shows of a row
\* is not older than the position from which the connector replays, and the replay
\* never takes it back behind that, for any interleaving of the writes with the
\* copies, any restarts of the connector, and any number of runs.
THEOREM NothingIsMissed == Spec => []NeverBehind
<1>1. Init => TypeInv /\ OffsetInv /\ VersionInv /\ RowInv
  BY TypeInvInit, SafeInit
<1>2. TypeInv /\ OffsetInv /\ VersionInv /\ RowInv /\ [Next]_vars
         => (TypeInv /\ OffsetInv /\ VersionInv /\ RowInv)'
  BY TypeInvNext, OffsetNext, VersionNext, RowNext
<1>3. RowInv => NeverBehind
  BY DEF RowInv, LoadInv, Since, NeverBehind
<1> QED
  BY <1>1, <1>2, <1>3, PTL DEF Spec
================================================================================
