------------------------- MODULE VersionSequenceProofs -------------------------
(******************************************************************************)
(* Theorems about VersionSequence, for every unit of time, multiplier and     *)
(* bound: the sequence number stays between its two seeds, give or take a     *)
(* run of records (TypeCorrect), so that the version of a row tells its time   *)
(* up to half a second (DatedInv), and a row never outranks one that is more  *)
(* than half a second newer (NeverOutranked).  In a process that is not       *)
(* disturbed versions follow the order of the log (LatestInv), and the last   *)
(* change of the key wins (LastChangeWins).                                   *)
(******************************************************************************)
EXTENDS VersionSequence, TLAPS

(* The sequence number                                                        *)

\* The worth of the seeds in numbers: the seed of a process is the lower, and a
\* run of records added to it does not reach beyond the other one and a run.
LEMMA Seeds ==
    /\ HalfSecond \in Nat /\ HalfSecond >= 1
    /\ Multiplier \in Nat /\ Multiplier >= 1
    /\ MaxRun \in Nat /\ MaxRun < Multiplier
    /\ SEQUENCE_START_INITIAL \in Nat /\ SEQUENCE_START_INITIAL >= 1
    /\ SEQUENCE_START \in Nat
    /\ SEQUENCE_START = 2 * SEQUENCE_START_INITIAL
    /\ SEQUENCE_START_INITIAL = HalfSecond * Multiplier
<1>1. /\ HalfSecond \in Nat /\ HalfSecond >= 1
      /\ Multiplier \in Nat /\ Multiplier >= 1
      /\ MaxRun \in Nat /\ MaxRun < Multiplier
  BY VersionAssumption
<1>2. HalfSecond * Multiplier \in Nat /\ HalfSecond * Multiplier >= 1
  BY <1>1
<1>3. 2 * HalfSecond * Multiplier = 2 * (HalfSecond * Multiplier)
  BY <1>1
<1> QED
  BY <1>1, <1>2, <1>3, VersionAssumption

\* One record keeps the sequence number in its range and takes the anchor to a
\* time that has been.
LEMMA SequenceType ==
    ASSUME TypeOK, NEW ts \in 0 .. now, Sequence(ts)
    PROVE  /\ sequenceNumber' \in SEQUENCE_START_INITIAL .. SEQUENCE_START + MaxRun
           /\ sequenceAnchorTs' \in 0 .. now
<1>1. sequenceNumber \in SEQUENCE_START_INITIAL .. SEQUENCE_START + MaxRun
  BY DEF TypeOK
<1>2. now \in Nat /\ sequenceAnchorTs \in 0 .. now
  BY VersionAssumption DEF TypeOK
<1>3. CASE Advances(ts)
  BY <1>3, <1>2, Seeds DEF Sequence
<1>4. CASE ~Advances(ts)
  <2>1. sequenceAnchorTs' = Anchor(ts) /\ sequenceNumber' = Seed + 1
    BY <1>4 DEF Sequence
  <2>2. Seed + 1 \in SEQUENCE_START_INITIAL .. SEQUENCE_START + MaxRun
    BY <1>1, Seeds DEF Sequence, Seed, Run
  <2> QED
    BY <2>1, <2>2, <1>2 DEF Anchor
<1> QED
  BY <1>3, <1>4

\* The version of a record is its time and the sequence number.
LEMMA VersionType ==
    ASSUME TypeOK, NEW ts \in 0 .. now, Sequence(ts)
    PROVE  /\ Version(ts) \in Nat
           /\ Version(ts) >= ts * Multiplier + SEQUENCE_START_INITIAL
           /\ Version(ts) <= ts * Multiplier + SEQUENCE_START + MaxRun
<1>1. sequenceNumber' \in SEQUENCE_START_INITIAL .. SEQUENCE_START + MaxRun
  BY SequenceType
<1>2. ts \in Nat
  BY VersionAssumption DEF TypeOK
<1>3. ts * Multiplier \in Nat
  BY <1>2, Seeds
<1>4. MaxRun \in Nat /\ SEQUENCE_START \in Nat /\ SEQUENCE_START_INITIAL \in Nat
  BY Seeds
<1> DEFINE t == ts * Multiplier
           s == sequenceNumber'
<1> HIDE DEF t, s
<1>5. t \in Nat /\ s \in SEQUENCE_START_INITIAL .. SEQUENCE_START + MaxRun
  BY <1>1, <1>3 DEF t, s
<1>6. /\ t + s \in Nat
      /\ t + s >= t + SEQUENCE_START_INITIAL
      /\ t + s <= t + SEQUENCE_START + MaxRun
  BY <1>4, <1>5
<1> QED
  BY <1>6 DEF t, s, Version

--------------------------------------------------------------------------------
(* Types                                                                      *)

\* The type invariant holds when the connector starts.
LEMMA TypeInit == Init => TypeOK
<1> SUFFICES ASSUME Init
             PROVE  TypeOK
  OBVIOUS
<1>1. SEQUENCE_START \in SEQUENCE_START_INITIAL .. SEQUENCE_START + MaxRun
  BY Seeds
<1>2. now = 1 /\ log \in Seq(1 .. now) /\ Len(log) = 0
  BY DEF Init
<1>3. phase \in {"snapshot", "streaming"}
  BY DEF Init
<1>4. /\ nRead \in 0 .. Len(log) /\ committed \in 0 .. Len(log)
      /\ sequenceAnchorTs \in 0 .. now /\ snapshotTs \in 0 .. now
      /\ inFlight \subseteq Row /\ table \subseteq Row
  BY <1>2 DEF Init
<1>7. disturbed \in BOOLEAN
  BY DEF Init
<1>5. now \in 1 .. MaxTime \cup {1} /\ Len(log) <= MaxEvents /\ restarts \in 0 .. MaxRestarts
  BY <1>2, VersionAssumption DEF Init
<1>6. sequenceNumber = SEQUENCE_START
  BY DEF Init
<1> QED
  BY <1>1, <1>2, <1>3, <1>4, <1>5, <1>6, <1>7 DEF TypeOK

\* Every step keeps it.
LEMMA TypeNext == TypeOK /\ [Next]_vars => TypeOK'
<1> SUFFICES ASSUME TypeOK, [Next]_vars
             PROVE  TypeOK'
  OBVIOUS
<1> USE DEF TypeOK
<1>0. now \in Nat /\ now >= 1 /\ 1 .. now \subseteq 0 .. now
  BY VersionAssumption
<1>1. CASE Tick
  <2>1. log \in Seq(1 .. now + 1)
    BY <1>0
  <2>2. now + 1 \in 1 .. MaxTime
    BY <1>1, <1>0, VersionAssumption DEF Tick
  <2>3. sequenceAnchorTs \in 0 .. now + 1 /\ snapshotTs \in 0 .. now + 1
    BY <1>0
  <2> QED
    BY <1>1, <2>1, <2>2, <2>3 DEF Tick, sequenceVars
<1>2. CASE Change
  <2>1. now \in 1 .. now
    BY <1>0
  <2>2. log' \in Seq(1 .. now) /\ Len(log') = Len(log) + 1
    BY <1>2, <2>1 DEF Change
  <2>3. nRead \in 0 .. Len(log) + 1 /\ committed \in 0 .. Len(log) + 1
    OBVIOUS
  <2>4. Len(log) + 1 <= MaxEvents
    BY <1>2, VersionAssumption DEF Change
  <2> QED
    BY <1>2, <2>2, <2>3, <2>4 DEF Change, sequenceVars
<1>3. CASE ReadSnapshotRow
  <2>1. now \in 0 .. now
    BY <1>0
  <2>2. Version(now) \in Nat
    BY <1>3, <2>1, VersionType DEF ReadSnapshotRow
  <2>3. /\ sequenceNumber' \in SEQUENCE_START_INITIAL .. SEQUENCE_START + MaxRun
        /\ sequenceAnchorTs' \in 0 .. now
    BY <1>3, <2>1, SequenceType DEF ReadSnapshotRow
  <2>4. [event |-> 0, version |-> Version(now)] \in Row
    BY <2>2, VersionAssumption DEF Row
  <2> QED
    BY <1>3, <2>1, <2>3, <2>4 DEF ReadSnapshotRow
<1>4. CASE ReadChange
  <2>1. nRead' \in 1 .. Len(log) /\ nRead' \in 0 .. MaxEvents
    BY <1>4, VersionAssumption DEF ReadChange
  <2>2. log[nRead'] \in 0 .. now
    BY <2>1, <1>0
  <2>3. Version(log[nRead']) \in Nat
    BY <1>4, <2>2, VersionType DEF ReadChange
  <2>4. /\ sequenceNumber' \in SEQUENCE_START_INITIAL .. SEQUENCE_START + MaxRun
        /\ sequenceAnchorTs' \in 0 .. now
    BY <1>4, <2>2, SequenceType DEF ReadChange
  <2>5. [event |-> nRead', version |-> Version(log[nRead'])] \in Row
    BY <2>1, <2>3 DEF Row
  <2> QED
    BY <1>4, <2>1, <2>4, <2>5 DEF ReadChange
<1>5. CASE ReadHeartbeat
  <2>1. now \in 0 .. now
    BY <1>0
  <2>2. /\ sequenceNumber' \in SEQUENCE_START_INITIAL .. SEQUENCE_START + MaxRun
        /\ sequenceAnchorTs' \in 0 .. now
    BY <1>5, <2>1, SequenceType DEF ReadHeartbeat
  <2> QED
    BY <1>5, <2>2 DEF ReadHeartbeat
<1>6. CASE ReadTombstone
  <2>1. 0 \in 0 .. now
    BY <1>0
  <2>2. /\ sequenceNumber' \in SEQUENCE_START_INITIAL .. SEQUENCE_START + MaxRun
        /\ sequenceAnchorTs' \in 0 .. now
    BY <1>6, <2>1, SequenceType DEF ReadTombstone
  <2> QED
    BY <1>6, <2>2 DEF ReadTombstone
<1>7. CASE Write
  BY <1>7 DEF Write, sequenceVars
<1>8. CASE Commit
  <2>1. PICK p \in 1 .. nRead : committed' = p
    BY <1>8 DEF Commit
  <2>2. committed' \in 0 .. Len(log)
    BY <2>1
  <2> QED
    BY <1>8, <2>2 DEF Commit, sequenceVars
<1>9. CASE RestartEngine
  BY <1>9, VersionAssumption DEF RestartEngine, MayRestart, sequenceVars
<1>10. CASE RestartProcess
  <2>1. SEQUENCE_START \in SEQUENCE_START_INITIAL .. SEQUENCE_START + MaxRun
    BY Seeds
  <2> QED
    BY <1>10, <1>0, <2>1, VersionAssumption DEF RestartProcess, MayRestart
<1>11. CASE UNCHANGED vars
  BY <1>11 DEF vars, sequenceVars
<1> QED
  BY <1>1, <1>2, <1>3, <1>4, <1>5, <1>6, <1>7, <1>8, <1>9, <1>10, <1>11 DEF Next

\* Every variable keeps its type.  The sequence number is the part that matters:
\* through restarts, and whatever the times of the records, it never leaves the
\* range from the seed of a process to a run beyond the worth of a second.
THEOREM TypeCorrect == Spec => []TypeOK
<1>1. Init => TypeOK
  BY TypeInit
<1>2. TypeOK /\ [Next]_vars => TypeOK'
  BY TypeNext
<1> QED
  BY <1>1, <1>2, PTL DEF Spec

--------------------------------------------------------------------------------
(* Versions are dated                                                         *)

\* The version of a row is worth its time, and at least half a second and at most
\* a second and a run of records more.
Dated(r) ==
    /\ r.version >= TimeOf(r.event) * Multiplier + SEQUENCE_START_INITIAL
    /\ r.version <= TimeOf(r.event) * Multiplier + SEQUENCE_START + MaxRun

\* A row comes from a change in the log, or from the snapshot, which is over.
Known(r) ==
    /\ r.event <= Len(log)
    /\ phase = "streaming"

AllDated == \A r \in Rows : Known(r) /\ Dated(r)

DatedInv == TypeOK /\ AllDated

\* The time of a row does not change as long as the log grows and the snapshot is
\* over.
LEMMA DatedStays ==
    ASSUME TypeOK, NEW r \in Row, Known(r), Dated(r),
           snapshotTs' = snapshotTs,
           phase' = phase,
           \/ log' = log
           \/ log' = Append(log, now)
    PROVE  Known(r)' /\ Dated(r)'
<1>1. r.event \in 0 .. Len(log) /\ r.event \in Nat
  BY VersionAssumption DEF Known, Row, TypeOK
<1>2. now \in 1 .. now /\ log \in Seq(1 .. now)
  BY VersionAssumption DEF TypeOK
<1>3. Len(log') >= Len(log) /\ \A i \in 1 .. Len(log) : log'[i] = log[i]
  BY <1>2
<1>4. TimeOf(r.event)' = TimeOf(r.event)
  BY <1>1, <1>3 DEF TimeOf
<1>5. r.event <= Len(log')
  BY <1>1, <1>2, <1>3
<1> QED
  BY <1>4, <1>5 DEF Known, Dated

\* The rows that a step leaves in place stay dated.
LEMMA RowsStayDated ==
    ASSUME DatedInv, Rows' \subseteq Rows,
           snapshotTs' = snapshotTs,
           phase' = phase,
           \/ log' = log
           \/ log' = Append(log, now)
    PROVE  AllDated'
<1>1. SUFFICES ASSUME NEW r \in Rows'
               PROVE  Known(r)' /\ Dated(r)'
  BY DEF AllDated
<1>2. r \in Rows /\ r \in Row
  BY DEF DatedInv, TypeOK, Rows
<1>3. TypeOK /\ Known(r) /\ Dated(r)
  BY <1>2 DEF DatedInv, AllDated
<1> QED
  BY <1>2, <1>3, DatedStays

\* There is no row when the connector starts.
LEMMA DatedInit == Init => DatedInv
<1>1. Init => Rows = {}
  BY DEF Init, Rows
<1> QED
  BY <1>1, TypeInit DEF DatedInv, AllDated

\* Every step keeps the rows dated: a row that is read gets its version from its
\* time, and no other step changes what a version says.
LEMMA DatedNext == DatedInv /\ [Next]_vars => DatedInv'
<1> SUFFICES ASSUME DatedInv, [Next]_vars
             PROVE  AllDated'
  BY TypeNext DEF DatedInv
<1>0. TypeOK /\ AllDated /\ now \in 1 .. now
  BY VersionAssumption DEF DatedInv, TypeOK
<1>1. CASE Tick
  BY <1>1, RowsStayDated DEF Tick, Rows
<1>2. CASE Change
  BY <1>2, RowsStayDated DEF Change, Rows
<1>3. CASE ReadSnapshotRow
  <2>n. PICK new : new = [event |-> 0, version |-> Version(now)]
    OBVIOUS
  <2>1. Rows = {}
    BY <1>0, <1>3 DEF ReadSnapshotRow, AllDated, Known
  <2>2. Rows' = {new}
    BY <1>3, <2>1, <2>n DEF ReadSnapshotRow, Rows
  <2>3. now \in 0 .. now /\ Sequence(now)
    BY <1>0, <1>3 DEF ReadSnapshotRow
  <2>4. snapshotTs' = now /\ log' = log /\ phase' = "streaming"
    BY <1>3 DEF ReadSnapshotRow
  <2>5. Known(new)'
    BY <1>0, <2>4, <2>n DEF Known, TypeOK
  <2>6. /\ Version(now) >= now * Multiplier + SEQUENCE_START_INITIAL
        /\ Version(now) <= now * Multiplier + SEQUENCE_START + MaxRun
    BY <1>0, <2>3, VersionType
  <2>7. Dated(new)'
    BY <2>4, <2>6, <2>n DEF Dated, TimeOf
  <2> QED
    BY <2>2, <2>5, <2>7 DEF AllDated
<1>4. CASE ReadChange
  <2>e. PICK e : e = nRead'
    OBVIOUS
  <2>n. PICK new : new = [event |-> e, version |-> Version(log[e])]
    OBVIOUS
  <2>1. e \in 1 .. Len(log) /\ e # 0
    BY <1>0, <1>4, <2>e, VersionAssumption DEF ReadChange, TypeOK
  <2>2. log[e] \in 0 .. now
    BY <1>0, <2>1 DEF TypeOK
  <2>3. phase = "streaming" /\ UNCHANGED <<log, phase, snapshotTs, table>>
    BY <1>4 DEF ReadChange
  <2>4. Rows' = Rows \cup {new}
    BY <1>4, <2>e, <2>n DEF ReadChange, Rows
  <2>5. /\ Version(log[e]) >= log[e] * Multiplier + SEQUENCE_START_INITIAL
        /\ Version(log[e]) <= log[e] * Multiplier + SEQUENCE_START + MaxRun
    BY <1>0, <1>4, <2>2, <2>e, VersionType DEF ReadChange
  <2>6. Known(new)' /\ Dated(new)'
    BY <2>1, <2>3, <2>5, <2>n DEF Known, Dated, TimeOf
  <2>7. ASSUME NEW r \in Rows
        PROVE  Known(r)' /\ Dated(r)'
    BY <1>0, <2>3 DEF AllDated, Known, Dated, TimeOf
  <2> QED
    BY <2>4, <2>6, <2>7 DEF AllDated
<1>5. CASE ReadHeartbeat
  BY <1>5, RowsStayDated DEF ReadHeartbeat, Rows
<1>6. CASE ReadTombstone
  BY <1>6, RowsStayDated DEF ReadTombstone, Rows
<1>7. CASE Write
  BY <1>7, RowsStayDated DEF Write, Rows
<1>8. CASE Commit
  BY <1>8, RowsStayDated DEF Commit, Rows
<1>9. CASE RestartEngine
  BY <1>9, RowsStayDated DEF RestartEngine, Rows
<1>10. CASE RestartProcess
  BY <1>10, RowsStayDated DEF RestartProcess, Rows
<1>11. CASE UNCHANGED vars
  BY <1>11, RowsStayDated DEF vars, Rows
<1> QED
  BY <1>1, <1>2, <1>3, <1>4, <1>5, <1>6, <1>7, <1>8, <1>9, <1>10, <1>11 DEF Next

\* More than half a second is worth more than the seeds differ by.
LEMMA MoreThanHalfASecond ==
    ASSUME NEW a \in Nat, NEW b \in Nat, b - a > HalfSecond
    PROVE  a * Multiplier + SEQUENCE_START + MaxRun <
              b * Multiplier + SEQUENCE_START_INITIAL
<1>1. PICK c \in Nat : b = a + HalfSecond + 1 + c
  <2>1. b - a - HalfSecond - 1 \in Nat
    BY Seeds
  <2>2. b = a + HalfSecond + 1 + (b - a - HalfSecond - 1)
    BY Seeds
  <2> QED
    BY <2>1, <2>2
<1>2. b * Multiplier =
         a * Multiplier + HalfSecond * Multiplier + Multiplier + c * Multiplier
  BY <1>1, Seeds
<1>3. a * Multiplier \in Nat /\ c * Multiplier \in Nat
  BY <1>1, Seeds
<1> DEFINE p == a * Multiplier
           q == b * Multiplier
           t == c * Multiplier
<1> HIDE DEF p, q, t
<1>4. /\ p \in Nat /\ t \in Nat
      /\ q = p + SEQUENCE_START_INITIAL + Multiplier + t
  BY <1>2, <1>3, Seeds DEF p, q, t
<1>5. p + SEQUENCE_START + MaxRun < q + SEQUENCE_START_INITIAL
  BY <1>4, Seeds
<1> QED
  BY <1>5 DEF p, q

\* Dated versions keep the order of rows more than half a second apart.
LEMMA DatedIsOrdered == DatedInv => OlderNeverOutranks
<1> SUFFICES ASSUME DatedInv, NEW r \in Rows, NEW s \in Rows,
                    TimeOf(s.event) - TimeOf(r.event) > HalfSecond
             PROVE  r.version < s.version
  BY DEF OlderNeverOutranks
<1>1. ASSUME NEW x \in Rows
      PROVE  TimeOf(x.event) \in Nat /\ x.version \in Nat /\ Dated(x)
  <2>1. x \in Row /\ x.event <= Len(log) /\ Dated(x)
    BY DEF DatedInv, TypeOK, Rows, AllDated, Known
  <2>2. x.event \in 0 .. Len(log) /\ x.version \in Nat
    BY <2>1, VersionAssumption DEF DatedInv, TypeOK, Row
  <2>3. TimeOf(x.event) \in Nat
    BY <2>2, VersionAssumption DEF DatedInv, TypeOK, TimeOf
  <2> QED
    BY <2>1, <2>2, <2>3
<1> DEFINE a == TimeOf(r.event)
           b == TimeOf(s.event)
<1> HIDE DEF a, b
<1>2. a \in Nat /\ b \in Nat /\ b - a > HalfSecond
  BY <1>1 DEF a, b
<1>3. a * Multiplier + SEQUENCE_START + MaxRun < b * Multiplier + SEQUENCE_START_INITIAL
  BY <1>2, MoreThanHalfASecond
<1>4. /\ r.version <= a * Multiplier + SEQUENCE_START + MaxRun
      /\ s.version >= b * Multiplier + SEQUENCE_START_INITIAL
  BY <1>1 DEF Dated, a, b
<1>5. a * Multiplier \in Nat /\ b * Multiplier \in Nat
  BY <1>2, Seeds
<1> DEFINE p == a * Multiplier + SEQUENCE_START + MaxRun
           q == b * Multiplier + SEQUENCE_START_INITIAL
<1> HIDE DEF p, q
<1>6. p \in Nat /\ q \in Nat /\ p < q /\ r.version <= p /\ s.version >= q
  BY <1>3, <1>4, <1>5, Seeds DEF p, q
<1> QED
  BY <1>1, <1>6

\* Whatever is delivered again, in whatever order it is written, and however often
\* the engine and the process restart: a row never outranks one that is more than
\* half a second newer.  The run of records between two starts of the sequence
\* is assumed to stay below the multiplier.
THEOREM NeverOutranked == Spec => []OlderNeverOutranks
<1>1. Init => DatedInv
  BY DatedInit
<1>2. DatedInv /\ [Next]_vars => DatedInv'
  BY DatedNext
<1>3. DatedInv => OlderNeverOutranks
  BY DatedIsOrdered
<1> QED
  BY <1>1, <1>2, <1>3, PTL DEF Spec

--------------------------------------------------------------------------------
(* The last change wins                                                       *)
(*                                                                            *)
(* A change that is read ranks above every older one that was read before it: *)
(* the sequence number went up, or it started over at a time more than a      *)
(* second past the older ones.  A restarted engine reads changes again, with  *)
(* new versions: the older ones may now outrank what has been read already,   *)
(* but not what is yet to be read again.                                      *)

\* Commit times are in the order of the log.
Sorted == \A i, j \in 1 .. Len(log) : i <= j => log[i] <= log[j]

\* A row of this change ranks above the row.
Beaten(r, e) == \E s \in Rows : s.event = e /\ r.version < s.version

\* The change is to be read, and its version will be higher than that of the row.
Beatable(r, e) == e > nRead /\ r.version <= log[e] * Multiplier + sequenceNumber

\* The row is a change, less than the two seconds newer than the anchor that would
\* have moved it.
Recent(r) ==
    /\ r.event # 0
    /\ sequenceAnchorTs # 0
    /\ TimeOf(r.event) < sequenceAnchorTs + 4 * HalfSecond

\* No row ranks above a change that would be read now, and every row has a later
\* change, or will have one when it is read, that ranks above it.
Ranked(r) ==
    /\ Recent(r)
    /\ r.version <= now * Multiplier + sequenceNumber
    /\ \A e \in r.event + 1 .. Len(log) : Beaten(r, e) \/ Beatable(r, e)

LatestInv ==
    /\ Sorted
    /\ committed <= nRead
    /\ ~disturbed => \A r \in Rows : Ranked(r)

\* Seconds are whole: the anchor moves with an advance of two seconds, and only
\* with one.
LEMMA AdvancesFacts ==
    ASSUME TypeOK, NEW ts \in 0 .. now
    PROVE  /\ Advances(ts) => ts >= Anchor(ts) + 4 * HalfSecond
           /\ ~Advances(ts) => ts < Anchor(ts) + 4 * HalfSecond
<1>1. ts \in Nat /\ Anchor(ts) \in Nat /\ HalfSecond \in Nat /\ HalfSecond >= 1
  BY Seeds, VersionAssumption DEF TypeOK, Anchor
<1>2. \A d \in Nat, h \in Nat \ {0} : d \div (2 * h) > 1 <=> d >= 4 * h
  <2>1. ASSUME NEW d \in Nat, NEW h \in Nat \ {0}, d \div (2 * h) > 1 PROVE d >= 4 * h
    BY <2>1
  <2>2. ASSUME NEW d \in Nat, NEW h \in Nat \ {0}, ~(d \div (2 * h) > 1) PROVE d < 4 * h
    BY <2>2
  <2>3. ASSUME NEW d \in Nat, NEW h \in Nat \ {0}, d < 4 * h PROVE ~(d >= 4 * h)
    BY <2>3
  <2> QED BY <2>1, <2>2, <2>3
<1>3. CASE ts < Anchor(ts)
  <2>1. ts - Anchor(ts) < 0
    BY <1>1, <1>3
  <2>2. ~Advances(ts)
    BY <2>1 DEF Advances, Seconds
  <2> QED BY <2>2, <1>1, <1>3
<1>4. CASE ts >= Anchor(ts)
  <2>1. PICK d \in Nat : d = ts - Anchor(ts)
    BY <1>1, <1>4
  <2>2. ~(d < 0)
    OBVIOUS
  <2>3. Advances(ts) <=> d \div (2 * HalfSecond) > 1
    BY <2>1, <2>2 DEF Advances, Seconds
  <2>4. d \div (2 * HalfSecond) > 1 <=> d >= 4 * HalfSecond
    BY <1>1, <1>2
  <2> QED BY <2>1, <2>3, <2>4, <1>1
<1> QED
  BY <1>1, <1>3, <1>4

\* A later time, or the same one, is worth no less.
LEMMA WorthMore ==
    ASSUME NEW a \in Nat, NEW b \in Nat, a <= b
    PROVE  /\ a * Multiplier \in Nat /\ b * Multiplier \in Nat
           /\ a * Multiplier <= b * Multiplier
           /\ a < b => a * Multiplier + Multiplier <= b * Multiplier
<1>0. Multiplier \in Nat
  BY Seeds
<1>1. PICK c \in Nat : b = a + c
  <2>1. b - a \in Nat /\ b = a + (b - a)
    OBVIOUS
  <2> QED BY <2>1
<1>2. b * Multiplier = a * Multiplier + c * Multiplier
  BY <1>0, <1>1
<1>3. a * Multiplier \in Nat /\ c * Multiplier \in Nat
  BY <1>0
<1>4. ASSUME a < b PROVE a * Multiplier + Multiplier <= b * Multiplier
  <2>1. PICK d \in Nat : c = d + 1
    <3>1. c - 1 \in Nat /\ c = (c - 1) + 1
      BY <1>1, <1>4
    <3> QED BY <3>1
  <2>2. c * Multiplier = d * Multiplier + Multiplier /\ d * Multiplier \in Nat
    BY <2>1, <1>0
  <2> QED BY <1>0, <1>2, <1>3, <2>2
<1> QED
  BY <1>2, <1>3, <1>4

\* A row has a number for a version, and a change of the log for an event.
LEMMA RowFacts ==
    ASSUME DatedInv, NEW r \in Rows
    PROVE  /\ r.version \in Nat
           /\ r.event \in 0 .. Len(log)
           /\ r.version <= TimeOf(r.event) * Multiplier + SEQUENCE_START + MaxRun
           /\ r.event # 0 => TimeOf(r.event) = log[r.event] /\ log[r.event] \in 1 .. now
<1>1. r \in Row /\ Known(r) /\ Dated(r)
  BY DEF DatedInv, TypeOK, Rows, AllDated
<1>2. r.version \in Nat /\ r.event \in 0 .. Len(log)
  BY <1>1, VersionAssumption DEF Row, Known, DatedInv, TypeOK
<1>3. log \in Seq(1 .. now) /\ now \in Nat
  BY VersionAssumption DEF DatedInv, TypeOK
<1>4. ASSUME r.event # 0
      PROVE  TimeOf(r.event) = log[r.event] /\ log[r.event] \in 1 .. now
  <2>1. r.event \in 1 .. Len(log)
    BY <1>2, <1>3, <1>4
  <2>2. TimeOf(r.event) = log[r.event]
    BY <1>4 DEF TimeOf
  <2>3. log[r.event] \in 1 .. now
    BY <1>3, <2>1
  <2> QED BY <2>2, <2>3
<1> QED
  BY <1>1, <1>2, <1>4 DEF Dated

\* A record that starts the sequence over is worth more than every row: they are
\* all older than it, by a unit of time at least.
LEMMA StartsOver ==
    ASSUME DatedInv, NEW ts \in 0 .. now, Advances(ts), NEW r \in Rows, Recent(r)
    PROVE  r.version < ts * Multiplier + SEQUENCE_START
<1>1. /\ TimeOf(r.event) \in Nat /\ r.version \in Nat
      /\ r.version <= TimeOf(r.event) * Multiplier + SEQUENCE_START + MaxRun
  BY RowFacts DEF Recent
<1>2. Anchor(ts) = sequenceAnchorTs /\ sequenceAnchorTs \in Nat /\ ts \in Nat /\ TypeOK
  BY VersionAssumption DEF Recent, Anchor, DatedInv, TypeOK
<1>3. TimeOf(r.event) < ts
  BY <1>1, <1>2, Seeds, AdvancesFacts DEF Recent
<1> DEFINE a == TimeOf(r.event)
           p == a * Multiplier
           q == ts * Multiplier
<1>4. p \in Nat /\ q \in Nat /\ p + Multiplier <= q
  BY <1>1, <1>2, <1>3, WorthMore
<1>5. r.version <= p + SEQUENCE_START + MaxRun
  BY <1>1
<1> HIDE DEF a, p, q
<1>6. r.version < q + SEQUENCE_START
  BY <1>1, <1>4, <1>5, Seeds
<1> QED
  BY <1>6 DEF q

\* What a record does for a row that was read before it: the row stays recent, no
\* higher than what is read now, and below every change it was not above.
LEMMA RankedAfter ==
    ASSUME DatedInv, NEW ts \in 0 .. now, Sequence(ts), NEW r \in Rows, Ranked(r)
    PROVE  /\ sequenceAnchorTs' # 0
           /\ TimeOf(r.event) < sequenceAnchorTs' + 4 * HalfSecond
           /\ r.version <= now * Multiplier + sequenceNumber'
           /\ \A t \in Nat : t >= ts /\ r.version <= t * Multiplier + sequenceNumber
                 => r.version < t * Multiplier + sequenceNumber'
<1>1. /\ TimeOf(r.event) \in Nat /\ r.version \in Nat
      /\ TimeOf(r.event) < sequenceAnchorTs + 4 * HalfSecond
      /\ sequenceAnchorTs # 0
      /\ r.version <= now * Multiplier + sequenceNumber
      /\ Recent(r)
  BY RowFacts DEF Ranked, Recent
<1>2. /\ TypeOK /\ now \in Nat /\ ts \in Nat /\ sequenceAnchorTs \in Nat
      /\ sequenceNumber \in Nat
  BY VersionAssumption, Seeds DEF DatedInv, TypeOK
<1>3. Anchor(ts) = sequenceAnchorTs /\ Seed = sequenceNumber
  BY <1>1 DEF Anchor, Seed
<1>4. CASE Advances(ts)
  <2>1. sequenceAnchorTs' = ts /\ sequenceNumber' = SEQUENCE_START
    BY <1>4 DEF Sequence
  <2>2. ts >= sequenceAnchorTs + 4 * HalfSecond
    BY <1>2, <1>3, <1>4, AdvancesFacts
  <2>3. ts # 0 /\ TimeOf(r.event) < ts + 4 * HalfSecond
    BY <1>1, <1>2, <2>2, Seeds
  <2>4. r.version < ts * Multiplier + SEQUENCE_START
    BY <1>1, <1>4, StartsOver
  <2>5. ASSUME NEW t \in Nat, t >= ts PROVE r.version < t * Multiplier + SEQUENCE_START
    <3> DEFINE p == ts * Multiplier
               q == t * Multiplier
    <3>1. p \in Nat /\ q \in Nat /\ p <= q
      BY <1>2, <2>5, WorthMore
    <3>2. r.version < p + SEQUENCE_START
      BY <2>4
    <3> HIDE DEF p, q
    <3>3. r.version < q + SEQUENCE_START
      BY <1>1, <3>1, <3>2, Seeds
    <3> QED BY <3>3 DEF q
  <2>6. r.version < now * Multiplier + SEQUENCE_START
    BY <1>2, <2>5
  <2>7. now * Multiplier \in Nat /\ SEQUENCE_START \in Nat
    BY <1>2, Seeds
  <2>8. r.version <= now * Multiplier + SEQUENCE_START
    BY <1>1, <2>6, <2>7
  <2> QED BY <2>1, <2>3, <2>5, <2>8
<1>5. CASE ~Advances(ts)
  <2>1. sequenceAnchorTs' = sequenceAnchorTs /\ sequenceNumber' = sequenceNumber + 1
    BY <1>3, <1>5 DEF Sequence
  <2>2. ASSUME NEW t \in Nat, r.version <= t * Multiplier + sequenceNumber
        PROVE  r.version < t * Multiplier + sequenceNumber'
    <3>1. t * Multiplier \in Nat
      BY Seeds
    <3> QED BY <3>1, <2>1, <2>2, <1>1, <1>2
  <2>3. r.version < now * Multiplier + sequenceNumber' /\ sequenceNumber' \in Nat
    BY <1>1, <1>2, <2>1, <2>2
  <2>4. now * Multiplier \in Nat
    BY <1>2, Seeds
  <2>5. r.version <= now * Multiplier + sequenceNumber'
    BY <1>1, <2>3, <2>4
  <2> QED BY <1>1, <2>1, <2>2, <2>5
<1> QED
  BY <1>4, <1>5

\* A step that reads nothing and does not move the time keeps the ranks, even if
\* it goes back in the log.
LEMMA RankedKept ==
    ASSUME DatedInv, LatestInv, Rows' = Rows, nRead' \in Nat, nRead' <= nRead,
           UNCHANGED <<log, now, sequenceVars, snapshotTs>>, committed' <= nRead',
           disturbed' \/ ~disturbed
    PROVE  LatestInv'
<1>1. nRead \in Nat
  BY DEF DatedInv, TypeOK
<1>2. Sorted' /\ committed' <= nRead'
  BY DEF LatestInv, Sorted
<1>3. ASSUME NEW r \in Rows, Ranked(r) PROVE Ranked(r)'
  <2>1. TimeOf(r.event)' = TimeOf(r.event)
    BY DEF TimeOf
  <2>2. Recent(r)' /\ r.version <= now' * Multiplier + sequenceNumber'
    BY <1>3, <2>1 DEF Ranked, Recent, sequenceVars
  <2>3. ASSUME NEW e \in r.event + 1 .. Len(log), Beaten(r, e) \/ Beatable(r, e)
        PROVE  Beaten(r, e)' \/ Beatable(r, e)'
    <3>1. e \in Int
      BY RowFacts
    <3> QED BY <1>1, <2>3, <3>1 DEF Beaten, Beatable, sequenceVars
  <2> QED BY <1>3, <2>2, <2>3 DEF Ranked
<1> QED
  BY <1>2, <1>3 DEF LatestInv

\* There is no row when the connector starts.
LEMMA LatestInit == Init => LatestInv
BY DEF Init, LatestInv, Sorted, Rows

\* Every step keeps the ranks.  ReadChange is the step that matters: the change it
\* reads ranks above every older row that nothing outranked.
LEMMA LatestNext == DatedInv /\ LatestInv /\ [Next]_vars => LatestInv'
<1> SUFFICES ASSUME DatedInv, LatestInv, [Next]_vars PROVE LatestInv'
    OBVIOUS
<1>t. /\ now \in Nat /\ now >= 1 /\ sequenceNumber \in Nat
      /\ nRead \in 0 .. Len(log) /\ committed \in 0 .. Len(log) /\ Len(log) \in Nat
      /\ log \in Seq(1 .. now)
      /\ TypeOK
  BY VersionAssumption, Seeds DEF DatedInv, TypeOK
<1>i. Sorted /\ committed <= nRead
  BY DEF LatestInv
<1>1. CASE Tick
  <2>1. Rows' = Rows /\ now' = now + 1 /\ UNCHANGED <<log, nRead, committed, sequenceVars,
                                                      snapshotTs, disturbed>>
    BY <1>1 DEF Tick, Rows
  <2>2. ASSUME NEW r \in Rows, Ranked(r) PROVE Ranked(r)'
    <3>1. TimeOf(r.event)' = TimeOf(r.event)
      BY <2>1 DEF TimeOf
    <3>2. Recent(r)'
      BY <2>1, <2>2, <3>1 DEF Ranked, Recent, sequenceVars
    <3>3. r.version <= now' * Multiplier + sequenceNumber'
      <4> DEFINE p == now * Multiplier
                 q == now' * Multiplier
      <4>0. now' \in Nat /\ now <= now'
        BY <1>t, <2>1
      <4>1. p \in Nat /\ q \in Nat /\ p <= q
        BY <1>t, <4>0, WorthMore
      <4>2. r.version <= p + sequenceNumber /\ r.version \in Nat
        BY <2>2, RowFacts DEF Ranked
      <4>3. sequenceNumber' = sequenceNumber
        BY <2>1 DEF sequenceVars
      <4> HIDE DEF p, q
      <4>4. r.version <= q + sequenceNumber'
        BY <1>t, <4>1, <4>2, <4>3
      <4> QED BY <4>4 DEF q
    <3>4. \A e \in r.event + 1 .. Len(log') : Beaten(r, e)' \/ Beatable(r, e)'
      BY <2>1, <2>2 DEF Ranked, Beaten, Beatable, sequenceVars
    <3> QED BY <3>2, <3>3, <3>4 DEF Ranked
  <2> QED BY <2>1, <2>2, <1>i DEF LatestInv, Sorted
<1>2. CASE Change
  <2>1. Rows' = Rows /\ log' = Append(log, now)
        /\ UNCHANGED <<now, nRead, committed, sequenceVars, snapshotTs, disturbed>>
    BY <1>2 DEF Change, Rows
  <2>2. PICK n \in Nat : n = Len(log)
    BY <1>t
  <2>3. /\ Len(log') = n + 1 /\ log'[n + 1] = now
        /\ \A i \in 1 .. n : log'[i] = log[i] /\ log[i] \in Nat /\ log[i] <= now
    BY <2>1, <2>2, <1>t
  <2>4. \A i \in 1 .. n + 1 : i \in 1 .. n \/ i = n + 1
    BY <2>2
  <2>5. Sorted'
    <3> SUFFICES ASSUME NEW i \in 1 .. n + 1, NEW j \in 1 .. n + 1, i <= j
                 PROVE  log'[i] <= log'[j]
      BY <2>3 DEF Sorted
    <3>1. CASE j \in 1 .. n
      <4>1. i \in 1 .. n
        BY <3>1
      <4> QED BY <3>1, <4>1, <2>2, <2>3, <1>i DEF Sorted
    <3>2. CASE j = n + 1
      BY <3>2, <2>3, <2>4, <1>t
    <3> QED BY <3>1, <3>2, <2>4
  <2>6. ASSUME NEW r \in Rows, Ranked(r) PROVE Ranked(r)'
    <3>1. r.event \in 1 .. n
      BY <2>2, <2>6, RowFacts DEF Ranked, Recent
    <3>2. TimeOf(r.event)' = TimeOf(r.event)
      BY <3>1, <2>3 DEF TimeOf
    <3>3. Recent(r)' /\ r.version <= now' * Multiplier + sequenceNumber'
      BY <2>1, <2>6, <3>2 DEF Ranked, Recent, sequenceVars
    <3>4. ASSUME NEW e \in r.event + 1 .. n + 1 PROVE Beaten(r, e)' \/ Beatable(r, e)'
      <4>1. e \in 1 .. n + 1
        BY <3>1
      <4>2. CASE e \in 1 .. n
        <5>1. e \in r.event + 1 .. n
          BY <3>1, <4>2
        <5>2. Beaten(r, e) \/ Beatable(r, e)
          BY <5>1, <2>2, <2>6 DEF Ranked
        <5> QED BY <5>2, <4>2, <2>1, <2>3 DEF Beaten, Beatable, sequenceVars
      <4>3. CASE e = n + 1
        <5>1. e > nRead
          BY <4>3, <2>2, <1>t
        <5>2. r.version <= now * Multiplier + sequenceNumber
          BY <2>6 DEF Ranked
        <5> QED BY <5>1, <5>2, <4>3, <2>1, <2>3 DEF Beatable, sequenceVars
      <4> QED BY <4>1, <4>2, <4>3, <2>4
    <3> QED BY <3>3, <3>4, <2>3 DEF Ranked
  <2> QED BY <2>1, <2>5, <2>6, <1>i DEF LatestInv
<1>3. CASE ReadChange
  <2>e. PICK e \in 1 .. Len(log) : e = nRead + 1
    BY <1>3, <1>t DEF ReadChange
  <2>n. PICK new : new = [event |-> e, version |-> log[e] * Multiplier + sequenceNumber']
    OBVIOUS
  <2>1. /\ nRead' = e /\ Sequence(log[e]) /\ Rows' = Rows \cup {new}
        /\ UNCHANGED <<now, log, committed, snapshotTs, disturbed>>
    BY <1>3, <2>e, <2>n DEF ReadChange, Rows, Version
  <2>2. log[e] \in Nat /\ log[e] \in 0 .. now /\ log[e] >= 1 /\ log[e] <= now
    BY <1>t, <2>e
  <2>3. \A x \in e .. Len(log) : log[x] \in Nat /\ log[x] >= log[e] /\ x \in 1 .. Len(log)
    BY <1>t, <1>i, <2>e DEF Sorted
  <2>4. sequenceNumber' \in Nat
    BY <1>t, <2>1, <2>2, SequenceType, Seeds
  <2>5. new.event = e /\ new.version = log[e] * Multiplier + sequenceNumber'
    BY <2>n
  <2>6. ASSUME NEW r \in Rows, Ranked(r) PROVE Ranked(r)'
    <3>1. TimeOf(r.event)' = TimeOf(r.event)
      BY <2>1 DEF TimeOf
    <3>2. /\ sequenceAnchorTs' # 0
          /\ TimeOf(r.event) < sequenceAnchorTs' + 4 * HalfSecond
          /\ r.version <= now * Multiplier + sequenceNumber'
          /\ \A t \in Nat : t >= log[e] /\ r.version <= t * Multiplier + sequenceNumber
                => r.version < t * Multiplier + sequenceNumber'
      BY <2>1, <2>2, <2>6, RankedAfter
    <3>3. Recent(r)' /\ r.version <= now' * Multiplier + sequenceNumber'
      BY <2>1, <2>6, <3>1, <3>2 DEF Ranked, Recent
    <3>4. ASSUME NEW x \in r.event + 1 .. Len(log) PROVE Beaten(r, x)' \/ Beatable(r, x)'
      <4>1. CASE Beaten(r, x)
        BY <4>1, <2>1 DEF Beaten
      <4>2. CASE Beatable(r, x)
        <5>0. x \in Int /\ r.event \in Nat
          BY RowFacts
        <5>1. x \in e .. Len(log)
          BY <4>2, <5>0, <2>e, <1>t DEF Beatable
        <5>2. r.version < log[x] * Multiplier + sequenceNumber'
          BY <4>2, <5>1, <2>3, <3>2 DEF Beatable
        <5>3. CASE x = e
          BY <5>2, <5>3, <2>1, <2>5 DEF Beaten
        <5>4. CASE x # e
          <6>1. x > nRead'
            BY <5>1, <5>4, <2>1
          <6>2. log[x] * Multiplier \in Nat /\ r.version \in Nat
            BY <5>1, <2>3, Seeds, RowFacts
          <6>3. r.version <= log[x] * Multiplier + sequenceNumber'
            BY <5>2, <6>2, <2>4
          <6> QED BY <6>1, <6>3, <2>1 DEF Beatable
        <5> QED BY <5>3, <5>4
      <4> QED BY <4>1, <4>2, <2>6 DEF Ranked
    <3> QED BY <3>3, <3>4, <2>1 DEF Ranked
  <2>7. Ranked(new)'
    <3>1. /\ sequenceAnchorTs' \in Nat /\ sequenceAnchorTs' # 0
          /\ log[e] < sequenceAnchorTs' + 4 * HalfSecond
      <4>1. CASE Advances(log[e])
        BY <4>1, <2>1, <2>2, Seeds DEF Sequence
      <4>2. CASE ~Advances(log[e])
        <5>1. sequenceAnchorTs' = Anchor(log[e])
          BY <4>2, <2>1 DEF Sequence
        <5>2. log[e] < Anchor(log[e]) + 4 * HalfSecond
          BY <4>2, <2>2, <1>t, AdvancesFacts
        <5>3. Anchor(log[e]) \in Nat /\ Anchor(log[e]) # 0
          BY <2>2, <1>t, VersionAssumption DEF Anchor, TypeOK
        <5> QED BY <5>1, <5>2, <5>3
      <4> QED BY <4>1, <4>2
    <3>2. TimeOf(new.event)' = log[e]
      BY <2>1, <2>5, <2>e DEF TimeOf
    <3>3. Recent(new)'
      BY <2>5, <2>e, <3>1, <3>2 DEF Recent
    <3>4. \A x \in e .. Len(log) :
             log[e] * Multiplier + sequenceNumber' <= log[x] * Multiplier + sequenceNumber'
      <4> SUFFICES ASSUME NEW x \in e .. Len(log)
                   PROVE  log[e] * Multiplier + sequenceNumber'
                             <= log[x] * Multiplier + sequenceNumber'
        OBVIOUS
      <4>1. /\ log[e] * Multiplier \in Nat /\ log[x] * Multiplier \in Nat
            /\ log[e] * Multiplier <= log[x] * Multiplier
        BY <2>2, <2>3, WorthMore
      <4> QED BY <4>1, <2>4
    <3>5. log[e] * Multiplier + sequenceNumber' <= now * Multiplier + sequenceNumber'
      <4>1. /\ log[e] * Multiplier \in Nat /\ now * Multiplier \in Nat
            /\ log[e] * Multiplier <= now * Multiplier
        BY <2>2, <1>t, WorthMore
      <4> QED BY <4>1, <2>4
    <3>6. \A x \in e + 1 .. Len(log) : x > e /\ x \in e .. Len(log)
      BY <2>e
    <3>7. \A x \in new.event + 1 .. Len(log') : Beatable(new, x)'
      BY <2>1, <2>5, <3>4, <3>6 DEF Beatable
    <3> QED BY <2>1, <2>5, <3>3, <3>5, <3>7 DEF Ranked
  <2>8. Sorted' /\ committed' <= nRead'
    BY <2>1, <2>e, <1>i, <1>t DEF Sorted
  <2> QED BY <2>1, <2>6, <2>7, <2>8 DEF LatestInv
<1>4. CASE ReadTombstone
  <2>1. /\ Rows' = Rows /\ Sequence(0)
        /\ UNCHANGED <<now, log, nRead, committed, snapshotTs, disturbed>>
    BY <1>4 DEF ReadTombstone, Rows
  <2>2. 0 \in 0 .. now
    BY <1>t
  <2>3. sequenceNumber' \in Nat
    BY <1>t, <2>1, <2>2, SequenceType, Seeds
  <2>4. ASSUME NEW r \in Rows, Ranked(r) PROVE Ranked(r)'
    <3>1. TimeOf(r.event)' = TimeOf(r.event)
      BY <2>1 DEF TimeOf
    <3>2. /\ sequenceAnchorTs' # 0
          /\ TimeOf(r.event) < sequenceAnchorTs' + 4 * HalfSecond
          /\ r.version <= now * Multiplier + sequenceNumber'
          /\ \A t \in Nat : t >= 0 /\ r.version <= t * Multiplier + sequenceNumber
                => r.version < t * Multiplier + sequenceNumber'
      BY <2>1, <2>2, <2>4, RankedAfter
    <3>3. Recent(r)' /\ r.version <= now' * Multiplier + sequenceNumber'
      BY <2>1, <2>4, <3>1, <3>2 DEF Ranked, Recent
    <3>4. ASSUME NEW x \in r.event + 1 .. Len(log) PROVE Beaten(r, x)' \/ Beatable(r, x)'
      <4>1. CASE Beaten(r, x)
        BY <4>1, <2>1 DEF Beaten
      <4>2. CASE Beatable(r, x)
        <5>1. x \in 1 .. Len(log) /\ r.version \in Nat
          BY RowFacts
        <5>2. log[x] \in Nat /\ log[x] >= 0
          BY <5>1, <1>t
        <5>3. r.version < log[x] * Multiplier + sequenceNumber'
          BY <4>2, <5>2, <3>2 DEF Beatable
        <5>4. log[x] * Multiplier \in Nat
          BY <5>2, Seeds
        <5>5. r.version <= log[x] * Multiplier + sequenceNumber'
          BY <5>1, <5>3, <5>4, <2>3
        <5> QED BY <4>2, <5>5, <2>1 DEF Beatable
      <4> QED BY <4>1, <4>2, <2>4 DEF Ranked
    <3> QED BY <3>3, <3>4, <2>1 DEF Ranked
  <2> QED BY <2>1, <2>4, <1>i DEF LatestInv, Sorted
<1>5. CASE Write
  <2>1. Rows' = Rows /\ UNCHANGED <<log, now, sequenceVars, snapshotTs, nRead, committed,
                                    disturbed>>
    BY <1>5 DEF Write, Rows
  <2> QED BY <2>1, <1>t, <1>i, RankedKept
<1>6. CASE Commit
  <2>1. Rows' = Rows /\ UNCHANGED <<log, now, sequenceVars, snapshotTs, nRead, disturbed>>
    BY <1>6 DEF Commit, Rows
  <2>2. committed' <= nRead'
    BY <1>6, <2>1, <1>t DEF Commit
  <2> QED BY <2>1, <2>2, <1>t, RankedKept
<1>7. CASE RestartEngine
  <2>1. /\ Rows' = Rows /\ UNCHANGED <<log, now, sequenceVars, snapshotTs, committed,
                                       disturbed>>
        /\ nRead' = committed
    BY <1>7 DEF RestartEngine, Rows
  <2> QED BY <2>1, <1>t, <1>i, RankedKept
<1>8. CASE ReadSnapshotRow \/ ReadHeartbeat \/ RestartProcess
  <2>1. disturbed' /\ log' = log
    BY <1>8 DEF ReadSnapshotRow, ReadHeartbeat, RestartProcess
  <2>2. committed' <= nRead'
    BY <1>8, <1>i, <1>t DEF ReadSnapshotRow, ReadHeartbeat, RestartProcess
  <2> QED BY <2>1, <2>2, <1>i DEF LatestInv, Sorted
<1>9. CASE UNCHANGED vars
  <2>1. Rows' = Rows /\ UNCHANGED <<log, now, sequenceVars, snapshotTs, nRead, committed,
                                    disturbed>>
    BY <1>9 DEF vars, Rows
  <2> QED BY <2>1, <1>t, <1>i, RankedKept
<1> QED
  BY <1>1, <1>2, <1>3, <1>4, <1>5, <1>6, <1>7, <1>8, <1>9 DEF Next

\* When everything is read and written, the row that ReplacingMergeTree keeps is
\* the last change of the key, for every order of the writers, any time between the
\* changes, any number of tombstones, and any number of restarts of the engine.
THEOREM LastChangeWins == Spec => []LatestSurvives
<1>1. Init => DatedInv /\ LatestInv
  BY DatedInit, LatestInit
<1>2. DatedInv /\ LatestInv /\ [Next]_vars => DatedInv' /\ LatestInv'
  BY DatedNext, LatestNext
<1>3. DatedInv /\ LatestInv => LatestSurvives
  <2> SUFFICES ASSUME DatedInv, LatestInv, Settled, ~disturbed,
                      NEW r \in table, r.event < Len(log)
               PROVE  \E s \in table : s.event = Len(log) /\ r.version < s.version
    BY DEF LatestSurvives
  <2>1. r \in Rows /\ Rows = table
    BY DEF Rows, Settled
  <2>2. r.event \in 0 .. Len(log) /\ Len(log) \in Nat /\ nRead = Len(log)
    BY <2>1, RowFacts DEF Settled, DatedInv, TypeOK
  <2>3. Len(log) \in r.event + 1 .. Len(log)
    BY <2>2
  <2>4. Beaten(r, Len(log)) \/ Beatable(r, Len(log))
    BY <2>1, <2>3 DEF LatestInv, Ranked
  <2>5. ~Beatable(r, Len(log))
    BY <2>2 DEF Beatable
  <2> QED BY <2>1, <2>4, <2>5 DEF Beaten
<1> QED
  BY <1>1, <1>2, <1>3, PTL DEF Spec
================================================================================
