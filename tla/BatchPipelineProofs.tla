-------------------------- MODULE BatchPipelineProofs --------------------------
(******************************************************************************)
(* Theorems about BatchPipeline, for any number of batches, timestamps,       *)
(* retries and crashes and any capacity of the queue.                         *)
(*                                                                            *)
(*   any pool      TypeCorrect, OnlyWrittenIsAcknowledged, NoBatchIsForgotten, *)
(*                 CounterIsBounded, NoneOvertakes                            *)
(*   one worker    OneWorkerIsAtLeastOnce, OneWorkerImplementsDelivery        *)
(*                                                                            *)
(* Each invariant is inductive together with the ones before it: TypeInv,     *)
(* then AckInv, then NoBatchUntracked on one side and SoloInv on the other.   *)
(* CounterInv counts the workers that hold a batch; OrderInv says that the    *)
(* batches of a first engine stand in the order of their timestamps.          *)
(******************************************************************************)
EXTENDS BatchPipeline, FiniteSetTheorems, TLAPS

(* Types                                                                      *)

\* A worker in the middle of processBatch holds a batch, a dead one does not.
HoldsBatch ==
    \A w \in Workers :
        /\ pc[w] \in {"polled", "registered", "written", "visiting"} =>
              currentBatch[w] \in Batch
        /\ pc[w] = "dead" => currentBatch[w] = NoBatch

\* TypeOK is inductive with it: the steps of a worker use the batch it holds.
TypeInv == TypeOK /\ HoldsBatch

\* The operations on the maps keep them maps of batches.
LEMMA PutRemoveType ==
    ASSUME NEW M \in SUBSET Batch, NEW b \in Batch, NEW r
    PROVE  put(M, b) \subseteq Batch /\ remove(M, r) \subseteq Batch
BY DEF put, remove

\* acknowledgeRecords keeps the type of the variables it assigns.
LEMMA AcknowledgeType ==
    ASSUME TypeOK, NEW b \in Batch, Acknowledge(b)
    PROVE  /\ staged' \in 0 .. MaxPos
           /\ committed' \in 0 .. MaxPos
           /\ inFlightBatches' \subseteq Batch
           /\ outstandingBatches' \in Nat
           /\ acked' \subseteq 1 .. MaxPos
<1>1. b.pos \in 1 .. MaxPos
  BY DEF Batch
<1>2. inFlightBatches' \subseteq Batch
  BY DEF TypeOK, Acknowledge, remove
<1>3. outstandingBatches' \in Nat
  <2>1. outstandingBatches \in Nat
    BY DEF TypeOK
  <2> QED BY <2>1 DEF Acknowledge, Released
<1>4. staged' \in 0 .. MaxPos /\ committed' \in 0 .. MaxPos
  <2>1. MaxPos \in Nat /\ committed \in 0 .. MaxPos
    BY PipelineAssumption DEF TypeOK
  <2> QED BY <1>1, <2>1 DEF Acknowledge, MarkProcessed
<1>5. acked' \subseteq 1 .. MaxPos
  BY <1>1 DEF TypeOK, Acknowledge
<1> QED
  BY <1>2, <1>3, <1>4, <1>5

\* The type invariant holds when the process starts.
LEMMA TypeInvInit == Init => TypeInv
BY PipelineAssumption DEF Init, TypeInv, TypeOK, HoldsBatch

\* Every step of every thread, and a crash, keeps it.
LEMMA TypeInvNext == TypeInv /\ [Next]_vars => TypeInv'
<1> SUFFICES ASSUME TypeInv, [Next]_vars PROVE TypeInv'
    OBVIOUS
<1> USE PipelineAssumption, NoBatchAssumption DEF TypeInv, TypeOK, HoldsBatch, Others,
     engineVars, offsetVars, mapVars, workerVars, historyVars
<1>1. CASE HandOff
  <2>1. PICK range \in Ranges : /\ clock' = range.max
          /\ records' = Append(records, [pos |-> nRead + 1, ts |-> range])
    BY <1>1 DEF HandOff
  <2>2. [pos |-> nRead + 1, ts |-> range] \in Batch /\ range.max \in 0 .. MaxTs
    BY <1>1 DEF HandOff, Batch, Ranges
  <2>3. records' \in Seq(Batch) /\ Len(records') = Len(records) + 1
    BY <2>1, <2>2
  <2>4. nRead' \in 0 .. MaxPos /\ Len(records') <= MaxQueueSize /\ outstandingBatches' \in Nat
    BY <1>1, <2>3 DEF HandOff, QueueHasRoom
  <2> QED BY <1>1, <2>1, <2>2, <2>3, <2>4 DEF HandOff
<1>2. CASE CheckQuiescent
  BY <1>2 DEF CheckQuiescent
<1>3. CASE CommitControlRecord
  BY <1>3 DEF CommitControlRecord, MarkProcessed
<1>4. CASE EngineFails
  BY <1>4, SMTT(30) DEF EngineFails
<1>5. ASSUME NEW w \in Workers, Poll(w) PROVE TypeInv'
  BY <1>5 DEF Poll
<1>6. ASSUME NEW w \in Workers, Retry(w) PROVE TypeInv'
  BY <1>6 DEF Retry
<1>7. ASSUME NEW w \in Workers, Register(w) PROVE TypeInv'
  BY <1>7, PutRemoveType DEF Register
<1>8. ASSUME NEW w \in Workers, WriteBatch(w) PROVE TypeInv'
  BY <1>8 DEF WriteBatch, Batch
<1>9. ASSUME NEW w \in Workers, Park(w) PROVE TypeInv'
  BY <1>9, PutRemoveType DEF Park
<1>10. ASSUME NEW w \in Workers, Commit(w) PROVE TypeInv'
  <2>1. currentBatch[w] \in Batch
    BY <1>10 DEF Commit
  <2>2. Acknowledge(currentBatch[w])
    BY <1>10 DEF Commit
  <2> QED BY <1>10, <2>1, <2>2, AcknowledgeType DEF Commit
<1>11. ASSUME NEW w \in Workers, Visit(w) PROVE TypeInv'
  <2>1. PICK b \in toVisit[w] :
          /\ toVisit' = [toVisit EXCEPT ![w] = @ \ {b}]
          /\ \/ UNCHANGED <<offsetVars, inFlightBatches, completedBatches,
                            outstandingBatches, acked>>
             \/ /\ Acknowledge(b)
                /\ completedBatches' = remove(completedBatches, b.ts)
    BY <1>11 DEF Visit
  <2>2. b \in Batch
    BY <2>1
  <2>3. completedBatches' \subseteq Batch
    BY <2>1 DEF remove
  <2>4. /\ staged' \in 0 .. MaxPos
        /\ committed' \in 0 .. MaxPos
        /\ inFlightBatches' \subseteq Batch
        /\ outstandingBatches' \in Nat
        /\ acked' \subseteq 1 .. MaxPos
    BY <2>1, <2>2, AcknowledgeType
  <2> QED BY <1>11, <2>1, <2>3, <2>4 DEF Visit
<1>12. ASSUME NEW w \in Workers, Finish(w) PROVE TypeInv'
  BY <1>12 DEF Finish
<1>13. ASSUME NEW w \in Workers, Fail(w) PROVE TypeInv'
  BY <1>13 DEF Fail
<1>14. ASSUME NEW w \in Workers, FailFatally(w) PROVE TypeInv'
  BY <1>14 DEF FailFatally, Batch
<1>15. ASSUME NEW w \in Workers, FlushFails(w) PROVE TypeInv'
  BY <1>15 DEF FlushFails, Batch
<1>16. CASE Crash
  BY <1>16 DEF Crash
<1>17. CASE UNCHANGED vars
  BY <1>17 DEF vars
<1> QED
  BY <1>1, <1>2, <1>3, <1>4, <1>5, <1>6, <1>7, <1>8, <1>9, <1>10, <1>11, <1>12,
     <1>13, <1>14, <1>15, <1>16, <1>17 DEF Next, Produce, Work

\* Type correctness, with the bound of the queue: appendToRecords never takes it
\* beyond sink.connector.max.queue.size.
THEOREM TypeCorrect == Spec => []TypeOK
<1>1. Spec => []TypeInv
  BY TypeInvInit, TypeInvNext, PTL DEF Spec
<1> QED
  BY <1>1, PTL DEF TypeInv

--------------------------------------------------------------------------------
(* What is acknowledged is written                                            *)

\* AckedWritten is inductive with what each stage of an acknowledgement knows: a
\* worker that is past its writes, a parked batch and a batch that a forEach has
\* yet to visit are written.
AckInv ==
    /\ AckedWritten
    /\ \A w \in Workers :
          pc[w] \in {"written", "visiting"} => currentBatch[w].pos \in written
    /\ \A w \in Workers : pc[w] = "visiting" => currentBatch[w].pos \in acked
    /\ \A b \in completedBatches : b.pos \in written
    /\ \A w \in Workers : \A b \in toVisit[w] : b.pos \in written

\* Nothing is acknowledged when the process starts.
LEMMA AckInvInit == Init => AckInv
BY DEF Init, AckInv, AckedWritten

\* Every step keeps AckInv: only Park, Commit and Visit put a batch where an
\* acknowledgement may find it, and they take written ones.
LEMMA AckInvNext == TypeInv /\ AckInv /\ [Next]_vars => AckInv'
<1> SUFFICES ASSUME TypeInv, AckInv, [Next]_vars PROVE AckInv'
    OBVIOUS
<1> USE DEF TypeInv, TypeOK, HoldsBatch, AckInv, AckedWritten, Others, engineVars,
     offsetVars, mapVars, workerVars, historyVars
<1>1. CASE HandOff
  BY <1>1 DEF HandOff
<1>2. CASE CheckQuiescent
  BY <1>2 DEF CheckQuiescent
<1>3. CASE CommitControlRecord
  BY <1>3 DEF CommitControlRecord, MarkProcessed
<1>4. CASE EngineFails
  BY <1>4 DEF EngineFails
<1>5. ASSUME NEW w \in Workers, Poll(w) PROVE AckInv'
  BY <1>5 DEF Poll
<1>6. ASSUME NEW w \in Workers, Retry(w) PROVE AckInv'
  BY <1>6 DEF Retry
<1>7. ASSUME NEW w \in Workers, Register(w) PROVE AckInv'
  BY <1>7 DEF Register
<1>8. ASSUME NEW w \in Workers, WriteBatch(w) PROVE AckInv'
  BY <1>8 DEF WriteBatch
<1>9. ASSUME NEW w \in Workers, Park(w) PROVE AckInv'
  BY <1>9 DEF Park, put
<1>10. ASSUME NEW w \in Workers, Commit(w) PROVE AckInv'
  BY <1>10 DEF Commit, Acknowledge
<1>11. ASSUME NEW w \in Workers, Visit(w) PROVE AckInv'
  <2>1. PICK b \in toVisit[w] :
          /\ toVisit' = [toVisit EXCEPT ![w] = @ \ {b}]
          /\ acked' \subseteq acked \cup {b.pos}
          /\ acked \subseteq acked'
          /\ completedBatches' \subseteq completedBatches
    BY <1>11 DEF Visit, Acknowledge, remove
  <2>2. AckedWritten'
    BY <1>11, <2>1 DEF Visit
  <2>3. \A v \in Workers : toVisit'[v] \subseteq toVisit[v]
    BY <2>1
  <2>4. UNCHANGED <<pc, currentBatch, written>>
    BY <1>11 DEF Visit
  <2> QED BY <2>1, <2>2, <2>3, <2>4
<1>12. ASSUME NEW w \in Workers, Finish(w) PROVE AckInv'
  BY <1>12 DEF Finish
<1>13. ASSUME NEW w \in Workers, Fail(w) PROVE AckInv'
  BY <1>13 DEF Fail
<1>14. ASSUME NEW w \in Workers, FailFatally(w) PROVE AckInv'
  BY <1>14 DEF FailFatally
<1>15. ASSUME NEW w \in Workers, FlushFails(w) PROVE AckInv'
  BY <1>15 DEF FlushFails
<1>16. CASE Crash
  BY <1>16 DEF Crash
<1>17. CASE UNCHANGED vars
  BY <1>17 DEF vars
<1> QED
  BY <1>1, <1>2, <1>3, <1>4, <1>5, <1>6, <1>7, <1>8, <1>9, <1>10, <1>11, <1>12,
     <1>13, <1>14, <1>15, <1>16, <1>17 DEF Next, Produce, Work

\* Both invariants hold in every state, whatever the size of the pool.
LEMMA SafeInv == Spec => [](TypeInv /\ AckInv)
BY TypeInvInit, TypeInvNext, AckInvInit, AckInvNext, PTL DEF Spec

\* checkIfBatchCanBeCommitted and acknowledgeRecords acknowledge no batch whose
\* own rows are not in ClickHouse, whatever the interleaving of the workers.
THEOREM OnlyWrittenIsAcknowledged == Spec => []AckedWritten
BY SafeInv, PTL DEF AckInv

--------------------------------------------------------------------------------
(* No batch falls out of the pipeline                                         *)

\* Nothing has been delivered when the process starts.
LEMMA TrackInit == Init => NoBatchUntracked
BY PipelineAssumption DEF Init, NoBatchUntracked

\* Every step keeps track of every batch.  Finish is the step that lets go of
\* one, and AckInv says that it has been acknowledged.
LEMMA TrackNext ==
    TypeInv /\ AckInv /\ NoBatchUntracked /\ [Next]_vars => NoBatchUntracked'
<1> SUFFICES ASSUME TypeInv, AckInv, NoBatchUntracked, [Next]_vars
             PROVE  NoBatchUntracked'
    OBVIOUS
<1> USE NoBatchAssumption DEF TypeInv, TypeOK, HoldsBatch, NoBatchUntracked, Tracked,
     NotEmpty, Others, engineVars, offsetVars, mapVars, workerVars, historyVars
<1>1. CASE HandOff
  <2>1. PICK range \in Ranges : records' = Append(records, [pos |-> nRead + 1, ts |-> range])
    BY <1>1 DEF HandOff
  <2>2. /\ Len(records') = Len(records) + 1
        /\ \A i \in 1 .. Len(records) : records'[i] = records[i]
        /\ records'[Len(records) + 1].pos = nRead + 1
    BY <2>1
  <2>3. \A p \in resumed + 1 .. nRead : Tracked(p)'
    BY <1>1, <2>2, SMTT(30) DEF HandOff
  <2>4. ASSUME NEW p, p = nRead + 1 PROVE Tracked(p)'
    <3>1. Len(records) + 1 \in 1 .. Len(records')
      BY <2>2
    <3> QED BY <2>2, <2>4, <3>1
  <2>5. nRead' = nRead + 1 /\ resumed' = resumed
    BY <1>1 DEF HandOff
  <2>6. \A p \in resumed' + 1 .. nRead' : p \in resumed + 1 .. nRead \/ p = nRead + 1
    BY <2>5
  <2> HIDE DEF Tracked
  <2> QED BY <2>3, <2>4, <2>6
<1>2. CASE CheckQuiescent
  BY <1>2 DEF CheckQuiescent
<1>3. CASE CommitControlRecord
  BY <1>3 DEF CommitControlRecord, MarkProcessed
<1>4. CASE EngineFails
  BY <1>4 DEF EngineFails
<1>5. ASSUME NEW w \in Workers, Poll(w) PROVE NoBatchUntracked'
  <2>1. /\ Len(records) > 0
        /\ currentBatch'[w] = records[1]
        /\ currentBatch'[w] # NoBatch
        /\ Len(records') = Len(records) - 1
        /\ \A i \in 2 .. Len(records) : records'[i - 1] = records[i]
    BY <1>5 DEF Poll
  <2> SUFFICES ASSUME NEW p \in resumed + 1 .. nRead PROVE Tracked(p)'
    BY <1>5 DEF Poll
  <2>2. CASE p \in acked \cup discarded
    BY <1>5, <2>2 DEF Poll
  <2>3. CASE \E v \in NotEmpty : currentBatch[v].pos = p
    BY <1>5, <2>3 DEF Poll
  <2>4. ASSUME NEW i \in 1 .. Len(records), records[i].pos = p PROVE Tracked(p)'
    <3>1. CASE i = 1
      BY <1>5, <2>1, <2>4, <3>1 DEF Poll
    <3>2. CASE i # 1
      <4>1. i - 1 \in 1 .. Len(records') /\ records'[i - 1].pos = p
        BY <2>1, <2>4, <3>2
      <4> QED BY <4>1, <1>5 DEF Poll
    <3> QED BY <3>1, <3>2
  <2> QED BY <2>2, <2>3, <2>4
<1>6. ASSUME NEW w \in Workers, Retry(w) PROVE NoBatchUntracked'
  BY <1>6 DEF Retry
<1>7. ASSUME NEW w \in Workers, Register(w) PROVE NoBatchUntracked'
  BY <1>7 DEF Register
<1>8. ASSUME NEW w \in Workers, WriteBatch(w) PROVE NoBatchUntracked'
  BY <1>8 DEF WriteBatch
<1>9. ASSUME NEW w \in Workers, Park(w) PROVE NoBatchUntracked'
  BY <1>9 DEF Park
<1>10. ASSUME NEW w \in Workers, Commit(w) PROVE NoBatchUntracked'
  BY <1>10 DEF Commit, Acknowledge
<1>11. ASSUME NEW w \in Workers, Visit(w) PROVE NoBatchUntracked'
  BY <1>11 DEF Visit, Acknowledge
<1>12. ASSUME NEW w \in Workers, Finish(w) PROVE NoBatchUntracked'
  BY <1>12 DEF Finish, AckInv
<1>13. ASSUME NEW w \in Workers, Fail(w) PROVE NoBatchUntracked'
  BY <1>13 DEF Fail
<1>14. ASSUME NEW w \in Workers, FailFatally(w) PROVE NoBatchUntracked'
  BY <1>14 DEF FailFatally
<1>15. ASSUME NEW w \in Workers, FlushFails(w) PROVE NoBatchUntracked'
  BY <1>15 DEF FlushFails
<1>16. CASE Crash
  BY <1>16 DEF Crash
<1>17. CASE UNCHANGED vars
  BY <1>17 DEF vars
<1> QED
  BY <1>1, <1>2, <1>3, <1>4, <1>5, <1>6, <1>7, <1>8, <1>9, <1>10, <1>11, <1>12,
     <1>13, <1>14, <1>15, <1>16, <1>17 DEF Next, Produce, Work

\* The run loop, the queue and the error paths of ClickHouseBatchRunnable lose no
\* batch, whatever the size of the pool.
THEOREM NoBatchIsForgotten == Spec => []NoBatchUntracked
BY SafeInv, TrackInit, TrackNext, PTL DEF Spec

--------------------------------------------------------------------------------
(* The counter of the batches that are not acknowledged                       *)

\* The workers whose batch is still counted: they hold it and have not committed
\* it, or they died with it.  The worker in Visit has given its batch back.
Holding == {w \in Workers : pc[w] = "dead" \/ (currentBatch[w] # NoBatch /\ pc[w] # "visiting")}

\* CounterNeverLeaks is not inductive: Finish would take the batch of a worker
\* away from the right hand side.  This bound is, and it is the stronger one.
CounterInv == outstandingBatches <= Len(records) + Cardinality(Holding)

\* A set of workers is finite, and counts as a number.
LEMMA WorkersCount ==
    ASSUME NEW S, S \subseteq Workers
    PROVE  IsFiniteSet(S) /\ Cardinality(S) \in Nat
BY PipelineAssumption, FS_Subset, FS_CardinalityType

\* More workers count for more.
LEMMA WorkersGrow ==
    ASSUME NEW T, T \subseteq Workers, NEW S, S \subseteq T
    PROVE  Cardinality(S) <= Cardinality(T)
BY WorkersCount, FS_Subset

\* One worker counts for one.
LEMMA WorkerCounts ==
    ASSUME NEW S, S \subseteq Workers, NEW w \in Workers
    PROVE  /\ w \notin S => Cardinality(S \cup {w}) = Cardinality(S) + 1
           /\ w \in S => Cardinality(S \ {w}) = Cardinality(S) - 1
BY WorkersCount, FS_AddElement, FS_RemoveElement

\* The queue and the counter are numbers.
LEMMA Lengths == TypeInv => Len(records) \in Nat /\ outstandingBatches \in Nat
BY DEF TypeInv, TypeOK

\* A step that neither counts a batch nor takes one from anybody keeps the bound.
LEMMA CounterKept ==
    ASSUME TypeInv, TypeInv', CounterInv, records' = records,
           outstandingBatches' <= outstandingBatches, Holding \subseteq Holding'
    PROVE  CounterInv'
<1>1. Holding' \subseteq Workers /\ Holding \subseteq Workers
  BY DEF Holding
<1>2. Cardinality(Holding) <= Cardinality(Holding')
  BY <1>1, WorkersGrow
<1>3. /\ Cardinality(Holding) \in Nat /\ Cardinality(Holding') \in Nat
      /\ Len(records) \in Nat
      /\ outstandingBatches \in Nat
  <2>1. Cardinality(Holding) \in Nat
    BY <1>1, WorkersCount
  <2>2. Cardinality(Holding') \in Nat
    BY <1>1, WorkersCount
  <2> QED BY <2>1, <2>2, Lengths
<1>4. outstandingBatches' \in Nat
  BY DEF TypeInv, TypeOK
<1>5. /\ outstandingBatches <= Len(records) + Cardinality(Holding)
      /\ outstandingBatches' <= outstandingBatches
  BY DEF CounterInv
<1>6. outstandingBatches' <= Len(records) + Cardinality(Holding')
  BY <1>2, <1>3, <1>4, <1>5
<1> QED
  BY <1>6 DEF CounterInv

\* Nothing is counted when the process starts.
LEMMA CounterInit == Init => CounterInv
<1>1. Holding \subseteq Workers
  BY DEF Holding
<1> QED
  BY <1>1, WorkersCount DEF Init, CounterInv

\* Every step keeps the bound: a batch is counted before it is queued, Poll moves
\* it from the queue to a worker, and Commit releases it.  Visit and a second
\* Commit of the batch release too much, never too little.
LEMMA CounterNext ==
    ASSUME TypeInv, TypeInv', CounterInv, [Next]_vars
    PROVE  CounterInv'
<1> USE NoBatchAssumption DEF Others, engineVars, offsetVars, mapVars, workerVars,
     historyVars
<1>s. Holding \subseteq Workers /\ Holding' \subseteq Workers
  BY DEF Holding
<1>n. /\ Cardinality(Holding) \in Nat /\ Cardinality(Holding') \in Nat
      /\ Len(records) \in Nat
      /\ outstandingBatches \in Nat
  <2>1. Cardinality(Holding) \in Nat
    BY <1>s, WorkersCount
  <2>2. Cardinality(Holding') \in Nat
    BY <1>s, WorkersCount
  <2> QED BY <2>1, <2>2, Lengths
<1>1. CASE HandOff
  <2>1. Len(records') = Len(records) + 1
    BY <1>1 DEF HandOff, TypeInv, TypeOK, Batch, Ranges
  <2>2. Holding' = Holding /\ outstandingBatches' = outstandingBatches + 1
    BY <1>1 DEF HandOff, Holding
  <2> QED BY <2>1, <2>2, <1>n DEF CounterInv
<1>2. ASSUME NEW w \in Workers, Poll(w) PROVE CounterInv'
  <2>1. /\ pc' = [pc EXCEPT ![w] = "polled"]
        /\ currentBatch' = [currentBatch EXCEPT ![w] = Head(records)]
        /\ pc[w] = "idle" /\ currentBatch[w] = NoBatch
        /\ Head(records) \in Batch
        /\ Len(records') = Len(records) - 1
        /\ outstandingBatches' = outstandingBatches
    BY <1>2 DEF Poll, TypeInv, TypeOK
  <2>2. w \notin Holding /\ Holding' = Holding \cup {w}
    BY <2>1, SMTT(30) DEF Holding, TypeInv, TypeOK
  <2>3. Cardinality(Holding') = Cardinality(Holding) + 1
    BY <2>2, <1>s, WorkerCounts
  <2> QED BY <2>1, <2>3, <1>n DEF CounterInv
<1>3. ASSUME NEW w \in Workers, Commit(w) PROVE CounterInv'
  <2>1. /\ pc' = [pc EXCEPT ![w] = "visiting"]
        /\ currentBatch' = currentBatch /\ records' = records
        /\ pc[w] = "written"
        /\ outstandingBatches' = Released
    BY <1>3 DEF Commit, Acknowledge
  <2>2. w \in Holding /\ Holding' = Holding \ {w}
    BY <2>1 DEF Holding, TypeInv, TypeOK, HoldsBatch
  <2>3. Cardinality(Holding') = Cardinality(Holding) - 1
    BY <2>2, <1>s, WorkerCounts
  <2> QED BY <2>1, <2>3, <1>n DEF CounterInv, Released
<1>4. ASSUME NEW w \in Workers, Visit(w) PROVE CounterInv'
  <2>1. Holding' = Holding /\ records' = records
    BY <1>4 DEF Visit, Holding
  <2>2. outstandingBatches' <= outstandingBatches
    BY <1>4, <1>n DEF Visit, Acknowledge, Released
  <2> QED BY <2>1, <2>2, CounterKept
<1>5. ASSUME NEW w \in Workers, Finish(w) PROVE CounterInv'
  <2>1. Holding \subseteq Holding' /\ records' = records
        /\ outstandingBatches' = outstandingBatches
    BY <1>5 DEF Finish, Holding, TypeInv, TypeOK
  <2> QED BY <2>1, <1>n, CounterKept
<1>6. ASSUME NEW w \in Workers, FailFatally(w) PROVE CounterInv'
  <2>1. Holding \subseteq Holding' /\ records' = records
        /\ outstandingBatches' = outstandingBatches
    BY <1>6 DEF FailFatally, Holding, TypeInv, TypeOK
  <2> QED BY <2>1, <1>n, CounterKept
<1>7. ASSUME NEW w \in Workers,
             Retry(w) \/ Register(w) \/ WriteBatch(w) \/ Park(w) \/ Fail(w) \/ FlushFails(w)
      PROVE  CounterInv'
  <2>1. /\ \E s \in {"polled", "registered", "written", "idle"} : pc' = [pc EXCEPT ![w] = s]
        /\ pc[w] # "dead"
        /\ currentBatch' = currentBatch /\ records' = records
        /\ outstandingBatches' = outstandingBatches
    BY <1>7 DEF Retry, Register, WriteBatch, Park, Fail, FlushFails
  <2>2. Holding \subseteq Holding'
    BY <2>1 DEF Holding, TypeInv, TypeOK
  <2> QED BY <2>1, <2>2, <1>n, CounterKept
<1>8. CASE CheckQuiescent \/ CommitControlRecord \/ EngineFails \/ UNCHANGED vars
  <2>1. Holding' = Holding /\ records' = records /\ outstandingBatches' = outstandingBatches
    BY <1>8 DEF CheckQuiescent, CommitControlRecord, EngineFails, vars, Holding
  <2> QED BY <2>1, <1>n, CounterKept
<1>9. CASE Crash
  <2>1. outstandingBatches' = 0 /\ Len(records') = 0
    BY <1>9 DEF Crash
  <2> QED BY <2>1, <1>n DEF CounterInv
<1> QED
  BY <1>1, <1>2, <1>3, <1>4, <1>5, <1>6, <1>7, <1>8, <1>9 DEF Next, Produce, Work

\* The counter that withholds the offset of a control record never exceeds the
\* batches that somebody will acknowledge or that died with their worker, for any
\* size of the pool.
THEOREM CounterIsBounded == Spec => []CounterNeverLeaks
<1>1. TypeInv /\ CounterInv => CounterNeverLeaks
  <2> SUFFICES ASSUME TypeInv, CounterInv PROVE CounterNeverLeaks
    OBVIOUS
  <2>1. PICK W : W = NotEmpty \cup {w \in Workers : pc[w] = "dead"}
    OBVIOUS
  <2>2. Holding \subseteq W /\ W \subseteq Workers /\ Holding \subseteq Workers
    BY <2>1 DEF Holding, NotEmpty
  <2>3. Cardinality(Holding) <= Cardinality(W) /\ Cardinality(W) \in Nat
        /\ Cardinality(Holding) \in Nat
    BY <2>2, WorkersGrow, WorkersCount
  <2>4. Len(records) \in Nat /\ outstandingBatches \in Nat
    BY DEF TypeInv, TypeOK
  <2> QED BY <2>1, <2>3, <2>4 DEF CounterNeverLeaks, CounterInv
<1>2. TypeInv /\ TypeInv' /\ CounterInv /\ [Next]_vars => CounterInv'
  BY CounterNext
<1> QED
  BY <1>1, <1>2, CounterInit, SafeInv, PTL DEF Spec

--------------------------------------------------------------------------------
(* No batch is acknowledged past an older one in flight                       *)
(*                                                                            *)
(* checkIfThereAreInflightRequests sees timestamps only.  What makes it right *)
(* about positions is that one engine stamps the batches in their order, and  *)
(* that the queue hands them out in that order.                               *)

\* The batches that have left the queue.
Away == {currentBatch[w] : w \in NotEmpty} \cup inFlightBatches \cup completedBatches

\* Nothing is later than what the engine has read.
Read(x) == x.pos <= nRead /\ x.ts.max <= clock

Earlier(x, y) == x.pos < y.pos /\ x.ts.max <= y.ts.min

AwayInOrder == \A x, y \in Away : x.pos < y.pos => x.ts.max <= y.ts.min

AwayBeforeQueue == \A x \in Away : \A i \in 1 .. Len(records) : Earlier(x, records[i])

QueueInOrder ==
    \A i \in 1 .. Len(records) : \A j \in i + 1 .. Len(records) :
        Earlier(records[i], records[j])

AllRead ==
    /\ \A x \in Away : Read(x)
    /\ \A i \in 1 .. Len(records) : Read(records[i])

\* As long as the engine is the first one, positions and timestamps agree.
OrderInv ==
    numRetries = 0 => AwayInOrder /\ AwayBeforeQueue /\ QueueInOrder /\ AllRead

\* One worker at a time is in the forEach, what it has yet to visit is parked, and
\* parked batches have timestamps of their own.
VisitInv ==
    /\ \A w \in Workers : toVisit[w] # {} => pc[w] = "visiting"
    /\ \A w \in Workers : toVisit[w] \subseteq completedBatches
    /\ \A v, w \in Workers : pc[v] = "visiting" /\ pc[w] = "visiting" => v = w
    /\ \A x, y \in completedBatches : x.ts = y.ts => x = y

\* Nobody visits anything when the process starts.
LEMMA VisitInit == Init => VisitInv
BY DEF Init, VisitInv

\* A step that parks nothing and visits nothing, and starts no forEach, keeps
\* VisitInv.
LEMMA VisitKept ==
    ASSUME VisitInv, completedBatches' = completedBatches, toVisit' = toVisit,
           \A w \in Workers : pc'[w] = "visiting" <=> pc[w] = "visiting"
    PROVE  VisitInv'
BY DEF VisitInv

\* Every step keeps VisitInv.  The monitor makes it so: no other worker parks a
\* batch while one is in the forEach, which removes what it acknowledges.
LEMMA VisitNext == TypeInv /\ VisitInv /\ [Next]_vars => VisitInv'
<1> SUFFICES ASSUME TypeInv, VisitInv, [Next]_vars PROVE VisitInv'
    OBVIOUS
<1> USE DEF Others, engineVars, offsetVars, mapVars, workerVars, historyVars
<1>t. pc \in [Workers -> {"idle", "polled", "registered", "written", "visiting", "dead"}]
      /\ toVisit \in [Workers -> SUBSET Batch]
  BY DEF TypeInv, TypeOK
<1>1. ASSUME NEW w \in Workers,
             Poll(w) \/ Retry(w) \/ Register(w) \/ WriteBatch(w) \/ Fail(w) \/ FailFatally(w)
      PROVE  VisitInv'
  <2>1. /\ completedBatches' = completedBatches /\ toVisit' = toVisit
        /\ pc[w] # "visiting"
        /\ \E s \in {"polled", "registered", "written", "idle", "dead"} :
              pc' = [pc EXCEPT ![w] = s]
    BY <1>1 DEF Poll, Retry, Register, WriteBatch, Fail, FailFatally
  <2> QED BY <2>1, <1>t, VisitKept
<1>2. CASE HandOff \/ CheckQuiescent \/ CommitControlRecord \/ EngineFails \/ UNCHANGED vars
  <2>1. /\ completedBatches' = completedBatches /\ toVisit' = toVisit /\ pc' = pc
    BY <1>2 DEF HandOff, CheckQuiescent, CommitControlRecord, EngineFails, vars
  <2> QED BY <2>1, VisitKept
<1>3. ASSUME NEW w \in Workers, Park(w) PROVE VisitInv'
  <2>1. /\ pc' = [pc EXCEPT ![w] = "idle"]
        /\ toVisit' = toVisit
        /\ completedBatches' = put(completedBatches, currentBatch[w])
        /\ \A v \in Workers : pc[v] # "visiting"
    BY <1>3 DEF Park, Unlocked
  <2>2. \A v \in Workers : toVisit[v] = {} /\ pc'[v] # "visiting"
    BY <2>1, <1>t DEF VisitInv
  <2>3. \A x, y \in completedBatches' : x.ts = y.ts => x = y
    BY <2>1 DEF VisitInv, put
  <2> QED BY <2>1, <2>2, <2>3 DEF VisitInv
<1>4. ASSUME NEW w \in Workers, Commit(w) PROVE VisitInv'
  <2>1. /\ pc' = [pc EXCEPT ![w] = "visiting"]
        /\ toVisit' = [toVisit EXCEPT ![w] = completedBatches]
        /\ completedBatches' = completedBatches
        /\ \A v \in Workers : pc[v] # "visiting"
    BY <1>4 DEF Commit, Unlocked
  <2>2. \A v \in Workers : v # w => toVisit'[v] = {} /\ pc'[v] # "visiting"
    BY <2>1, <1>t DEF VisitInv
  <2>3. toVisit'[w] = completedBatches /\ pc'[w] = "visiting"
    BY <2>1, <1>t
  <2> QED BY <2>1, <2>2, <2>3 DEF VisitInv
<1>5. ASSUME NEW w \in Workers, Visit(w) PROVE VisitInv'
  <2>1. PICK b \in toVisit[w] :
          /\ toVisit' = [toVisit EXCEPT ![w] = @ \ {b}]
          /\ \/ completedBatches' = completedBatches
             \/ completedBatches' = remove(completedBatches, b.ts)
    BY <1>5 DEF Visit
  <2>2. pc' = pc /\ pc[w] = "visiting"
    BY <1>5 DEF Visit
  <2>3. toVisit'[w] = toVisit[w] \ {b}
    BY <2>1, <1>t
  <2>4. \A v \in Workers : v # w => toVisit'[v] = {}
    BY <2>1, <2>2, <1>t DEF VisitInv
  <2>5. b \in completedBatches /\ toVisit[w] \subseteq completedBatches
    BY <2>1 DEF VisitInv
  <2>6. toVisit'[w] \subseteq completedBatches'
    BY <2>1, <2>3, <2>5 DEF VisitInv, remove
  <2>7. completedBatches' \subseteq completedBatches
    BY <2>1 DEF remove
  <2>8. \A v \in Workers : toVisit'[v] \subseteq completedBatches'
    BY <2>4, <2>6
  <2>9. \A v \in Workers : toVisit'[v] # {} => pc'[v] = "visiting"
    BY <2>2, <2>4
  <2> QED BY <2>2, <2>7, <2>8, <2>9 DEF VisitInv
<1>6. ASSUME NEW w \in Workers, Finish(w) \/ FlushFails(w) PROVE VisitInv'
  <2>1. /\ pc' = [pc EXCEPT ![w] = "idle"]
        /\ completedBatches' = completedBatches
        /\ \A v \in Workers : v # w => toVisit'[v] = toVisit[v]
        /\ toVisit'[w] = {}
    BY <1>6, <1>t DEF Finish, FlushFails
  <2> QED BY <2>1, <1>t DEF VisitInv
<1>7. CASE Crash
  BY <1>7 DEF Crash, VisitInv
<1> QED
  BY <1>1, <1>2, <1>3, <1>4, <1>5, <1>6, <1>7 DEF Next, Produce, Work

\* Nothing has left the queue when the process starts.
LEMMA OrderInit == Init => OrderInv
BY DEF Init, OrderInv, AwayInOrder, AwayBeforeQueue, QueueInOrder, AllRead, Away, NotEmpty

\* A step that reads nothing, queues nothing and takes no new batch into hands or
\* maps keeps the order.
LEMMA OrderKept ==
    ASSUME OrderInv, Away' \subseteq Away, records' = records, nRead' = nRead,
           clock' = clock, numRetries' = numRetries
    PROVE  OrderInv'
BY DEF OrderInv, AwayInOrder, AwayBeforeQueue, QueueInOrder, AllRead, Read

\* The positions and timestamps of whatever is around are numbers.
LEMMA BatchNumbers ==
    ASSUME NEW b \in Batch
    PROVE  b.pos \in Int /\ b.ts.min \in Int /\ b.ts.max \in Int /\ b.ts.min <= b.ts.max
BY PipelineAssumption DEF Batch, Ranges

\* What has left the queue are batches.
LEMMA AwayType == TypeInv => Away \subseteq Batch
BY DEF TypeInv, TypeOK, Away, NotEmpty

\* Every step keeps the order: HandOff stamps a batch no earlier than the one
\* before it, and Poll takes the head.
LEMMA OrderNext == TypeInv /\ OrderInv /\ [Next]_vars => OrderInv'
<1> SUFFICES ASSUME TypeInv, OrderInv, [Next]_vars PROVE OrderInv'
    OBVIOUS
<1> USE NoBatchAssumption DEF Others, engineVars, offsetVars, mapVars, workerVars,
     historyVars
<1>t. /\ currentBatch \in [Workers -> Batch \cup {NoBatch}]
      /\ numRetries \in Nat
      /\ records \in Seq(Batch)
      /\ nRead \in Nat /\ clock \in Nat
  BY PipelineAssumption DEF TypeInv, TypeOK
<1>h. \A w \in Workers :
         pc[w] \in {"polled", "registered", "written", "visiting"} => currentBatch[w] \in Away
  BY DEF TypeInv, HoldsBatch, Away, NotEmpty
<1>a. Away \subseteq Batch
  BY AwayType
<1>1. CASE HandOff
  <2> SUFFICES ASSUME numRetries = 0
               PROVE  AwayInOrder' /\ AwayBeforeQueue' /\ QueueInOrder' /\ AllRead'
    BY <1>1 DEF HandOff, OrderInv
  <2>0. AwayInOrder /\ AwayBeforeQueue /\ QueueInOrder /\ AllRead
    BY DEF OrderInv
  <2>1. PICK range \in Ranges :
          /\ range.min >= clock
          /\ clock' = range.max
          /\ records' = Append(records, [pos |-> nRead + 1, ts |-> range])
    BY <1>1 DEF HandOff
  <2>2. PICK n \in Nat : n = Len(records)
    BY <1>t
  <2>3. /\ Len(records') = n + 1
        /\ \A i \in 1 .. n : records'[i] = records[i]
        /\ records'[n + 1] = [pos |-> nRead + 1, ts |-> range]
    BY <2>1, <2>2, <1>t
  <2>4. Away' = Away /\ nRead' = nRead + 1
    BY <1>1 DEF HandOff, Away, NotEmpty
  <2>5. range.min \in Int /\ range.max \in Int /\ range.min <= range.max
    BY PipelineAssumption DEF Ranges
  <2>6. \A i \in 1 .. n : records[i] \in Batch
    BY <2>2, <1>t
  <2>7. AwayInOrder'
    BY <2>0, <2>4 DEF AwayInOrder
  <2>8. \A x \in Batch : Read(x) => Read(x)' /\ Earlier(x, [pos |-> nRead + 1, ts |-> range])
    <3> SUFFICES ASSUME NEW x \in Batch, Read(x)
                 PROVE  Read(x)' /\ Earlier(x, [pos |-> nRead + 1, ts |-> range])
      OBVIOUS
    <3>1. x.pos \in Int /\ x.ts.max \in Int
      BY BatchNumbers
    <3> QED BY <3>1, <2>1, <2>4, <2>5, <1>t DEF Read, Earlier
  <2>9. AllRead'
    <3>q. PICK q : q = records'
      OBVIOUS
    <3>1. \A x \in Away' : Read(x)'
      BY <2>0, <2>4, <2>8, <1>a DEF AllRead
    <3>2. \A i \in 1 .. n : Read(q[i])'
      BY <3>q, <2>0, <2>2, <2>3, <2>6, <2>8 DEF AllRead
    <3>3. Read(q[n + 1])'
      BY <3>q, <2>1, <2>3, <2>4, <2>5, <1>t DEF Read
    <3>4. \A i \in 1 .. n + 1 : i \in 1 .. n \/ i = n + 1
      BY <2>2
    <3>5. \A i \in 1 .. Len(records') : Read(q[i])'
      BY <3>q, <3>2, <3>3, <3>4, <2>3
    <3> QED BY <3>q, <3>1, <3>5 DEF AllRead
  <2>10. \A i \in 1 .. n + 1 : i \in 1 .. n \/ i = n + 1
    BY <2>2
  <2>11. AwayBeforeQueue'
    <3> SUFFICES ASSUME NEW x \in Away, NEW i \in 1 .. n + 1
                 PROVE  Earlier(x, records'[i])
      BY <2>3, <2>4 DEF AwayBeforeQueue, Earlier
    <3>1. CASE i \in 1 .. n
      BY <3>1, <2>0, <2>2, <2>3 DEF AwayBeforeQueue
    <3>2. CASE i = n + 1
      BY <3>2, <2>0, <2>3, <2>8, <1>a DEF AllRead
    <3> QED BY <3>1, <3>2, <2>10
  <2>12. QueueInOrder'
    <3> SUFFICES ASSUME NEW i \in 1 .. n + 1, NEW j \in i + 1 .. n + 1
                 PROVE  Earlier(records'[i], records'[j])
      BY <2>3 DEF QueueInOrder, Earlier
    <3>1. i \in 1 .. n
      BY <2>2
    <3>2. CASE j \in i + 1 .. n
      <4>1. j \in 1 .. n
        BY <3>1, <3>2, <2>2
      <4> QED BY <3>1, <3>2, <4>1, <2>0, <2>2, <2>3 DEF QueueInOrder
    <3>3. CASE j = n + 1
      BY <3>1, <3>3, <2>0, <2>2, <2>3, <2>6, <2>8 DEF AllRead
    <3> QED BY <3>2, <3>3, <2>2
  <2> QED BY <2>7, <2>9, <2>11, <2>12
<1>2. ASSUME NEW w \in Workers, Poll(w) PROVE OrderInv'
  <2> SUFFICES ASSUME numRetries = 0
               PROVE  AwayInOrder' /\ AwayBeforeQueue' /\ QueueInOrder' /\ AllRead'
    BY <1>2 DEF Poll, OrderInv
  <2>0. AwayInOrder /\ AwayBeforeQueue /\ QueueInOrder /\ AllRead
    BY DEF OrderInv
  <2>1. PICK n \in Nat : n = Len(records)
    BY <1>t
  <2>2. /\ n >= 1
        /\ records[1] \in Batch
        /\ Len(records') = n - 1
        /\ \A i \in 1 .. n - 1 : records'[i] = records[i + 1]
        /\ currentBatch' = [currentBatch EXCEPT ![w] = records[1]]
        /\ nRead' = nRead /\ clock' = clock /\ UNCHANGED mapVars
    BY <1>2, <1>t, <2>1 DEF Poll
  <2>3. Away' \subseteq Away \cup {records[1]}
    BY <2>2, <1>t DEF Away, NotEmpty
  <2>4. \A x \in Away : Earlier(x, records[1])
    BY <2>0, <2>1, <2>2 DEF AwayBeforeQueue
  <2>5. \A i \in 1 .. n - 1 : i + 1 \in 1 .. n /\ i + 1 \in 1 + 1 .. n
    BY <2>1
  <2>6. 1 \in 1 .. n
    BY <2>1, <2>2
  <2>7. \A i \in 1 .. n - 1 : Earlier(records[1], records'[i])
    BY <2>0, <2>1, <2>2, <2>5, <2>6 DEF QueueInOrder
  <2>8. AwayInOrder'
    <3> SUFFICES ASSUME NEW x \in Away \cup {records[1]}, NEW y \in Away \cup {records[1]},
                        x.pos < y.pos
                 PROVE  x.ts.max <= y.ts.min
      BY <2>3 DEF AwayInOrder
    <3>1. CASE x \in Away /\ y \in Away
      BY <3>1, <2>0 DEF AwayInOrder
    <3>2. CASE x \in Away /\ y = records[1]
      BY <3>2, <2>4 DEF Earlier
    <3>3. CASE x = records[1] /\ y \in Away
      <4>1. x.pos \in Int /\ y.pos \in Int
        BY <3>3, <2>2, <1>a, BatchNumbers
      <4>2. y.pos < x.pos
        BY <3>3, <2>4 DEF Earlier
      <4> QED BY <4>1, <4>2
    <3>4. CASE x = records[1] /\ y = records[1]
      <4>1. x.pos \in Int
        BY <3>4, <2>2, BatchNumbers
      <4> QED BY <3>4, <4>1
    <3> QED BY <3>1, <3>2, <3>3, <3>4
  <2>9. AwayBeforeQueue'
    <3> SUFFICES ASSUME NEW x \in Away \cup {records[1]}, NEW i \in 1 .. n - 1
                 PROVE  Earlier(x, records'[i])
      BY <2>2, <2>3 DEF AwayBeforeQueue, Earlier
    <3>1. CASE x \in Away
      BY <3>1, <2>0, <2>1, <2>2, <2>5 DEF AwayBeforeQueue
    <3>2. CASE x = records[1]
      BY <3>2, <2>7
    <3> QED BY <3>1, <3>2
  <2>10. QueueInOrder'
    <3> SUFFICES ASSUME NEW i \in 1 .. n - 1, NEW j \in i + 1 .. n - 1
                 PROVE  Earlier(records'[i], records'[j])
      BY <2>2 DEF QueueInOrder, Earlier
    <3>1. j \in 1 .. n - 1 /\ i + 1 \in 1 .. n /\ j + 1 \in (i + 1) + 1 .. n
      BY <2>1
    <3>2. Earlier(records[i + 1], records[j + 1])
      BY <3>1, <2>0, <2>1 DEF QueueInOrder
    <3> QED BY <3>1, <3>2, <2>2
  <2>11. AllRead'
    <3>1. \A i \in 1 .. n - 1 : Read(records'[i])
      BY <2>0, <2>1, <2>2, <2>5 DEF AllRead
    <3>2. \A x \in Away \cup {records[1]} : Read(x)
      BY <2>0, <2>1, <2>6 DEF AllRead
    <3> QED BY <3>1, <3>2, <2>2, <2>3 DEF AllRead, Read
  <2> QED BY <2>8, <2>9, <2>10, <2>11
<1>3. ASSUME NEW w \in Workers,
             \/ Retry(w) \/ WriteBatch(w) \/ Fail(w) \/ FailFatally(w) \/ Finish(w)
             \/ FlushFails(w)
      PROVE  OrderInv'
  <2>1. /\ records' = records /\ nRead' = nRead /\ clock' = clock
        /\ numRetries' = numRetries /\ UNCHANGED mapVars
        /\ currentBatch' = currentBatch \/ currentBatch' = [currentBatch EXCEPT ![w] = NoBatch]
    BY <1>3 DEF Retry, WriteBatch, Fail, FailFatally, Finish, FlushFails
  <2>2. Away' \subseteq Away
    BY <2>1, <1>t DEF Away, NotEmpty
  <2> QED BY <2>1, <2>2, OrderKept
<1>4. ASSUME NEW w \in Workers, Register(w) \/ Park(w) PROVE OrderInv'
  <2>1. /\ records' = records /\ nRead' = nRead /\ clock' = clock
        /\ numRetries' = numRetries /\ currentBatch' = currentBatch
        /\ currentBatch[w] \in Away
        /\ inFlightBatches' \subseteq inFlightBatches \cup {currentBatch[w]}
        /\ completedBatches' \subseteq completedBatches \cup {currentBatch[w]}
    BY <1>4, <1>h DEF Register, Park, put, remove
  <2>2. Away' \subseteq Away
    BY <2>1 DEF Away, NotEmpty
  <2> QED BY <2>1, <2>2, OrderKept
<1>5. ASSUME NEW w \in Workers, Commit(w) \/ Visit(w) PROVE OrderInv'
  <2>1. /\ records' = records /\ nRead' = nRead /\ clock' = clock
        /\ numRetries' = numRetries /\ currentBatch' = currentBatch
        /\ inFlightBatches' \subseteq inFlightBatches
        /\ completedBatches' \subseteq completedBatches
    BY <1>5 DEF Commit, Visit, Acknowledge, remove
  <2>2. Away' \subseteq Away
    BY <2>1 DEF Away, NotEmpty
  <2> QED BY <2>1, <2>2, OrderKept
<1>6. CASE CheckQuiescent \/ CommitControlRecord \/ UNCHANGED vars
  <2>1. /\ records' = records /\ nRead' = nRead /\ clock' = clock
        /\ numRetries' = numRetries /\ currentBatch' = currentBatch /\ UNCHANGED mapVars
    BY <1>6 DEF CheckQuiescent, CommitControlRecord, vars
  <2>2. Away' \subseteq Away
    BY <2>1 DEF Away, NotEmpty
  <2> QED BY <2>1, <2>2, OrderKept
<1>7. CASE EngineFails
  <2>1. CASE numRetries' = numRetries + 1
    BY <2>1, <1>t DEF OrderInv
  <2>2. CASE numRetries' # numRetries + 1
    <3>1. /\ records' = records /\ nRead' = nRead /\ clock' = clock
          /\ numRetries' = numRetries /\ currentBatch' = currentBatch /\ UNCHANGED mapVars
      BY <1>7, <2>2 DEF EngineFails
    <3>2. Away' \subseteq Away
      BY <3>1 DEF Away, NotEmpty
    <3> QED BY <3>1, <3>2, OrderKept
  <2> QED BY <2>1, <2>2
<1>8. CASE Crash
  BY <1>8 DEF Crash, OrderInv, AwayInOrder, AwayBeforeQueue, QueueInOrder, AllRead, Away,
     NotEmpty
<1> QED
  BY <1>1, <1>2, <1>3, <1>4, <1>5, <1>6, <1>7, <1>8 DEF Next, Produce, Work

\* Batches out of order whose timestamps do not tell: they have the same range.
LEMMA SameRange ==
    ASSUME NEW x \in Batch, NEW b \in Batch, x.ts.max <= b.ts.min,
           ~(x.ts # b.ts /\ b.ts.max > x.ts.min)
    PROVE  b.ts = x.ts
<1>1. /\ x.ts \in [min : 0 .. MaxTs, max : 0 .. MaxTs] /\ x.ts.min <= x.ts.max
      /\ b.ts \in [min : 0 .. MaxTs, max : 0 .. MaxTs] /\ b.ts.min <= b.ts.max
  BY DEF Batch, Ranges
<1>2. SUFFICES ASSUME b.ts.max <= x.ts.min PROVE b.ts = x.ts
  BY <1>1, PipelineAssumption
<1>3. b.ts.min = x.ts.min /\ b.ts.max = x.ts.max
  BY <1>1, <1>2, PipelineAssumption
<1> QED
  BY <1>1, <1>3

\* An acknowledged batch was in a hand or parked, and nothing registered is in
\* its way.
LEMMA AckedSafely ==
    ASSUME TypeInv, VisitInv, [Next]_vars, NEW p \in acked' \ acked
    PROVE  \E b \in {currentBatch[w] : w \in NotEmpty} \cup completedBatches :
              b.pos = p /\ ~checkIfThereAreInflightRequests(b.ts)
<1> USE DEF Others, historyVars
<1>1. ASSUME NEW w \in Workers, Commit(w)
      PROVE  /\ w \in NotEmpty /\ currentBatch[w].pos = p
             /\ ~checkIfThereAreInflightRequests(currentBatch[w].ts)
  BY <1>1, NoBatchAssumption DEF Commit, Acknowledge, TypeInv, HoldsBatch, NotEmpty
<1>2. ASSUME NEW w \in Workers, Visit(w)
      PROVE  \E b \in completedBatches :
                b.pos = p /\ ~checkIfThereAreInflightRequests(b.ts)
  BY <1>2 DEF Visit, Acknowledge, VisitInv
<1>3. \E w \in Workers : Commit(w) \/ Visit(w)
  BY DEF Next, Produce, Work, HandOff, CheckQuiescent, CommitControlRecord, EngineFails,
     Poll, Retry, Register, WriteBatch, Park, Finish, Fail, FailFatally, FlushFails, Crash,
     vars
<1> QED
  BY <1>1, <1>2, <1>3

\* checkIfThereAreInflightRequests holds a batch back as long as an older one is
\* registered and not written, for any size of the pool: only a batch with the
\* same timestamp range escapes it, or one that a restarted engine delivers again.
THEOREM NoneOvertakes == Spec => NoOvertaking
<1>1. TypeInv /\ VisitInv /\ OrderInv /\ [Next]_vars =>
         [numRetries = 0 =>
            \A p \in acked' \ acked : \A x \in inFlightBatches :
               x.pos < p /\ x.pos \notin written =>
                  \E b \in {currentBatch[w] : w \in NotEmpty} \cup completedBatches :
                      b.pos = p /\ b.ts = x.ts]_vars
  <2> SUFFICES ASSUME TypeInv, VisitInv, OrderInv, [Next]_vars, numRetries = 0,
                      NEW p \in acked' \ acked, NEW x \in inFlightBatches, x.pos < p
               PROVE  \E b \in {currentBatch[w] : w \in NotEmpty} \cup completedBatches :
                         b.pos = p /\ b.ts = x.ts
    OBVIOUS
  <2>1. PICK b \in {currentBatch[w] : w \in NotEmpty} \cup completedBatches :
           b.pos = p /\ ~checkIfThereAreInflightRequests(b.ts)
    BY AckedSafely
  <2>2. b \in Away /\ x \in Away
    BY <2>1 DEF Away
  <2>3. x \in Batch /\ b \in Batch
    BY <2>2, AwayType
  <2>4. x.ts.max <= b.ts.min
    BY <2>1, <2>2 DEF OrderInv, AwayInOrder
  <2>5. ~(x.ts # b.ts /\ b.ts.max > x.ts.min)
    BY <2>1 DEF checkIfThereAreInflightRequests
  <2>6. b.ts = x.ts
    BY <2>3, <2>4, <2>5, SameRange
  <2> QED BY <2>1, <2>6
<1> QED
  BY <1>1, VisitInit, VisitNext, OrderInit, OrderNext, SafeInv, PTL DEF Spec, NoOvertaking

--------------------------------------------------------------------------------
(* At-least-once delivery, with one worker                                    *)
(*                                                                            *)
(* The worker takes the batches in the order of the source and keeps each one *)
(* until it is written, so the queue, the batch in hand and what is written   *)
(* make up the log with no gap.  What is in flight is its own batch, nothing  *)
(* is ever parked, and the counter is exact: with it, isPipelineQuiescent     *)
(* means that everything read is written.                                     *)

\* The worker has a batch that it has not acknowledged.
Busy(w) == currentBatch[w] # NoBatch /\ pc[w] # "visiting"

\* Batch p is written, or the worker's, or among the first n of the queue.
InLine(w, p, n) ==
    \/ p \in written
    \/ currentBatch[w] # NoBatch /\ currentBatch[w].pos = p
    \/ \E j \in 1 .. n : records[j].pos = p

\* Whatever precedes a batch in the source precedes it in the pipeline.
SourceOrder(w) ==
    /\ currentBatch[w] # NoBatch => 1 .. currentBatch[w].pos - 1 \subseteq written
    /\ \A i \in 1 .. Len(records) : \A p \in 1 .. records[i].pos - 1 : InLine(w, p, i - 1)
    /\ \A p \in 1 .. nRead : InLine(w, p, Len(records))

\* No offset, staged or committed, covers a batch that is not written.
OffsetsWritten == 1 .. committed \subseteq written /\ 1 .. staged \subseteq written

\* The counter is the number of batches that nobody has acknowledged; a fatal
\* error never gives its batch back.
Counted(w) ==
    outstandingBatches = Len(records) + IF Busy(w) \/ pc[w] = "dead" THEN 1 ELSE 0

\* With nobody else around, no batch is ever parked.
NothingParked(w) == completedBatches = {} /\ toVisit[w] = {}

\* Only the worker's own batch is in flight.
OwnInFlight(w) == \A x \in inFlightBatches : Busy(w) /\ x = currentBatch[w]

\* Between the test and the commit of a control record everything is written.
SafeToCommit == producer = "committing" => 1 .. nRead \subseteq written

\* The inductive invariant.  After a fatal error the worker takes no batch, and
\* what stays in the queue stays counted.
SoloInv(w) ==
    /\ OffsetsWritten
    /\ Counted(w)
    /\ NothingParked(w)
    /\ SafeToCommit
    /\ pc[w] # "dead" => SourceOrder(w) /\ OwnInFlight(w)

\* Nothing is read, staged or counted when the process starts.
LEMMA SoloInit ==
    ASSUME NEW w, Workers = {w}, Init
    PROVE  SoloInv(w)
BY PipelineAssumption DEF Init, SoloInv, OffsetsWritten, Counted, NothingParked,
   SafeToCommit, SourceOrder, OwnInFlight, Busy

\* Every step keeps SoloInv.  Poll moves the head of the queue to the worker,
\* Commit needs AckInv, and a restart or a crash resumes from a written offset.
LEMMA SoloNext ==
    ASSUME NEW w, Workers = {w}, TypeInv, AckInv, SoloInv(w), [Next]_vars
    PROVE  SoloInv(w)'
<1> USE NoBatchAssumption DEF TypeInv, TypeOK, HoldsBatch, SoloInv, OffsetsWritten,
     Counted, NothingParked, SafeToCommit, SourceOrder, InLine, OwnInFlight, Busy, Others,
     engineVars, offsetVars, mapVars, workerVars, historyVars
<1>w. w \in Workers
  OBVIOUS
<1>1. CASE HandOff
  <2>1. PICK range \in Ranges : records' = Append(records, [pos |-> nRead + 1, ts |-> range])
    BY <1>1 DEF HandOff
  <2>2. /\ Len(records') = Len(records) + 1
        /\ \A i \in 1 .. Len(records) : records'[i] = records[i]
        /\ records'[Len(records) + 1].pos = nRead + 1
    BY <2>1
  <2>3. OffsetsWritten' /\ NothingParked(w)' /\ SafeToCommit' /\ Counted(w)'
    BY <1>1, <2>2 DEF HandOff
  <2>4. pc'[w] # "dead" => OwnInFlight(w)'
    BY <1>1 DEF HandOff
  <2>5. ASSUME pc'[w] # "dead" PROVE SourceOrder(w)'
    <3>1. /\ UNCHANGED <<pc, currentBatch, written>>
          /\ nRead' = nRead + 1
          /\ SourceOrder(w)
      BY <1>1, <2>5 DEF HandOff
    <3>2. ASSUME NEW p, NEW n \in 0 .. Len(records), InLine(w, p, n) PROVE InLine(w, p, n)'
      <4>1. \A j \in 1 .. n : records'[j] = records[j]
        BY <2>2
      <4> QED BY <3>1, <3>2, <4>1
    <3> DEFINE Last == Len(records) + 1
    <3>3. ASSUME NEW p \in 1 .. nRead', NEW n, n = Last PROVE InLine(w, p, n)'
      <4>1. CASE p \in 1 .. nRead
        <5>1. InLine(w, p, Len(records))
          BY <3>1, <4>1
        <5> QED BY <5>1, <3>1, <3>3, <2>2
      <4>2. CASE p = nRead + 1
        BY <4>2, <3>3, <2>2
      <4> QED BY <4>1, <4>2, <3>1
    <3>4. ASSUME NEW i \in 1 .. Len(records'), NEW p \in 1 .. records'[i].pos - 1
          PROVE  InLine(w, p, i - 1)'
      <4>1. CASE i \in 1 .. Len(records)
        <5>1. p \in 1 .. records[i].pos - 1 /\ i - 1 \in 0 .. Len(records)
          BY <4>1, <2>2
        <5>2. InLine(w, p, i - 1)
          BY <5>1, <4>1, <3>1
        <5> HIDE DEF InLine
        <5> QED BY <5>1, <5>2, <3>2
      <4>2. CASE i = Len(records) + 1
        <5>1. p \in 1 .. nRead /\ i - 1 = Len(records)
          BY <4>2, <2>2
        <5>2. InLine(w, p, i - 1)
          BY <5>1, <3>1
        <5> HIDE DEF InLine
        <5> QED BY <5>1, <5>2, <3>2
      <4> QED BY <4>1, <4>2, <2>2, SMTT(30)
    <3>5. currentBatch'[w] # NoBatch => 1 .. currentBatch'[w].pos - 1 \subseteq written'
      BY <3>1
    <3> HIDE DEF InLine
    <3>6. \A p \in 1 .. nRead' : InLine(w, p, Len(records))'
      BY <2>2, <3>3
    <3> QED BY <3>4, <3>5, <3>6
  <2> HIDE DEF OffsetsWritten, Counted, NothingParked, SafeToCommit, SourceOrder,
             OwnInFlight
  <2> QED BY <2>3, <2>4, <2>5
<1>2. CASE CheckQuiescent
  BY <1>2, <1>w DEF CheckQuiescent, isPipelineQuiescent, hasUnwrittenBatches, AckInv
<1>3. CASE CommitControlRecord
  BY <1>3, <1>w DEF CommitControlRecord, MarkProcessed
<1>4. CASE EngineFails
  BY <1>4, <1>w DEF EngineFails
<1>5. CASE Poll(w)
  <2>1. /\ Len(records) > 0
        /\ currentBatch'[w] = records[1]
        /\ currentBatch'[w] # NoBatch
        /\ Len(records') = Len(records) - 1
        /\ \A i \in 1 .. Len(records') : records'[i] = records[i + 1]
    BY <1>5, <1>w DEF Poll
  <2>2. OffsetsWritten' /\ NothingParked(w)' /\ SafeToCommit' /\ Counted(w)'
    BY <1>5, <1>w, <2>1 DEF Poll
  <2>3. OwnInFlight(w)'
    BY <1>5, <1>w DEF Poll
  <2>4. SourceOrder(w)'
    <3>1. pc[w] # "dead" /\ currentBatch[w] = NoBatch /\ UNCHANGED <<written, nRead>>
      BY <1>5 DEF Poll
    <3>2. ASSUME NEW p, NEW n \in 1 .. Len(records), InLine(w, p, n)
          PROVE  InLine(w, p, n - 1)'
      <4>1. CASE p \in written
        BY <3>1, <4>1
      <4>2. ASSUME NEW j \in 1 .. n, records[j].pos = p PROVE InLine(w, p, n - 1)'
        <5>1. CASE j = 1
          BY <2>1, <4>2, <5>1
        <5>2. CASE j # 1
          <6>1. j - 1 \in 1 .. n - 1 /\ j - 1 \in 1 .. Len(records')
            BY <5>2, <2>1
          <6>2. records'[j - 1] = records[(j - 1) + 1] /\ (j - 1) + 1 = j
            BY <6>1, <2>1
          <6>3. records'[j - 1].pos = p
            BY <6>2, <4>2
          <6> QED BY <6>1, <6>3
        <5> QED BY <5>1, <5>2
      <4> QED BY <3>1, <3>2, <4>1, <4>2
    <3>3. 1 .. currentBatch'[w].pos - 1 \subseteq written'
      BY <2>1, <3>1
    <3>4. \A i \in 1 .. Len(records') : \A p \in 1 .. records'[i].pos - 1 : InLine(w, p, i - 1)'
      <4> SUFFICES ASSUME NEW i \in 1 .. Len(records'), NEW p \in 1 .. records'[i].pos - 1
                   PROVE  InLine(w, p, i - 1)'
        OBVIOUS
      <4>1. i \in 1 .. Len(records) /\ i + 1 \in 1 .. Len(records)
        BY <2>1
      <4>2. p \in 1 .. records[i + 1].pos - 1
        BY <2>1
      <4>3. InLine(w, p, i)
        BY <4>1, <4>2, <3>1
      <4> QED BY <4>1, <4>3, <3>2
    <3>5. \A p \in 1 .. nRead : InLine(w, p, Len(records))'
      <4> SUFFICES ASSUME NEW p \in 1 .. nRead PROVE InLine(w, p, Len(records))'
        OBVIOUS
      <4>1. PICK n \in 1 .. Len(records) : n = Len(records) /\ InLine(w, p, n)
        BY <2>1, <3>1
      <4>2. InLine(w, p, n - 1)' /\ n - 1 = Len(records')
        BY <4>1, <3>2, <2>1
      <4> QED BY <4>2
    <3> QED BY <3>1, <3>3, <3>4, <3>5
  <2> QED BY <2>2, <2>3, <2>4
<1>6. CASE Retry(w)
  BY <1>6, <1>w DEF Retry
<1>7. CASE Register(w)
  BY <1>7, <1>w DEF Register, put
<1>8. CASE WriteBatch(w)
  BY <1>8, <1>w DEF WriteBatch
<1>9. CASE Park(w)
  BY <1>9, <1>w DEF Park, checkIfThereAreInflightRequests
<1>10. CASE Commit(w)
  <2>1. /\ currentBatch[w].pos \in written
        /\ 1 .. currentBatch[w].pos \subseteq written
    BY <1>10, <1>w DEF Commit, AckInv, Batch
  <2>2. OffsetsWritten'
    BY <1>10, <1>w, <2>1 DEF Commit, Acknowledge, MarkProcessed
  <2>3. Counted(w)'
    BY <1>10, <1>w DEF Commit, Acknowledge, Released
  <2>4. NothingParked(w)' /\ SafeToCommit'
    BY <1>10, <1>w DEF Commit
  <2>5. OwnInFlight(w)'
    BY <1>10, <1>w DEF Commit, Acknowledge, remove
  <2>6. SourceOrder(w)'
    BY <1>10, <1>w DEF Commit
  <2> QED BY <2>2, <2>3, <2>4, <2>5, <2>6
<1>11. CASE Visit(w)
  BY <1>11, <1>w DEF Visit
<1>12. CASE Finish(w)
  <2>1. currentBatch[w].pos \in written
    BY <1>12, <1>w DEF Finish, AckInv
  <2>2. OffsetsWritten' /\ Counted(w)' /\ NothingParked(w)' /\ SafeToCommit'
    BY <1>12, <1>w DEF Finish
  <2>3. OwnInFlight(w)'
    BY <1>12, <1>w DEF Finish
  <2>4. SourceOrder(w)'
    BY <1>12, <1>w, <2>1, SMTT(30) DEF Finish
  <2> QED BY <2>2, <2>3, <2>4
<1>13. CASE Fail(w)
  BY <1>13, <1>w DEF Fail
<1>14. CASE FailFatally(w)
  BY <1>14, <1>w DEF FailFatally
<1>15. CASE FlushFails(w)
  <2>1. /\ pc[w] = "written"
        /\ currentBatch[w].pos \in written
        /\ 1 .. currentBatch[w].pos \subseteq written
        /\ staged' = currentBatch[w].pos
    BY <1>15, <1>w DEF FlushFails, AckInv, Batch
  <2>2. OffsetsWritten'
    BY <1>15, <2>1 DEF FlushFails
  <2>3. Counted(w)' /\ NothingParked(w)' /\ SafeToCommit'
    BY <1>15, <1>w, <2>1 DEF FlushFails
  <2>4. OwnInFlight(w)' /\ SourceOrder(w)'
    BY <1>15, <1>w, <2>1 DEF FlushFails
  <2> QED BY <2>2, <2>3, <2>4
<1>16. CASE Crash
  BY <1>16, <1>w DEF Crash
<1>17. CASE UNCHANGED vars
  BY <1>17 DEF vars
<1> QED
  BY <1>1, <1>2, <1>3, <1>4, <1>5, <1>6, <1>7, <1>8, <1>9, <1>10, <1>11, <1>12,
     <1>13, <1>14, <1>15, <1>16, <1>17 DEF Next, Produce, Work

\* thread.pool.size = 1.
OneWorker == \E w : Workers = {w}

\* All the invariants of a pool with one worker.
LEMMA SoloAlways ==
    ASSUME NEW w, Workers = {w}
    PROVE  Spec => [](TypeInv /\ AckInv /\ SoloInv(w))
<1>1. Init => SoloInv(w)
  BY SoloInit
<1>2. TypeInv /\ AckInv /\ SoloInv(w) /\ [Next]_vars => SoloInv(w)'
  BY SoloNext
<1> QED
  BY <1>1, <1>2, SafeInv, PTL DEF Spec

\* With one worker, whatever lies at or before the committed offset is in
\* ClickHouse: no crash, restart, retry or fatal error loses a row.
THEOREM OneWorkerIsAtLeastOnce == OneWorker => (Spec => []AtLeastOnce)
<1> SUFFICES ASSUME NEW w, Workers = {w} PROVE Spec => []AtLeastOnce
  BY DEF OneWorker
<1>1. SoloInv(w) => AtLeastOnce
  BY DEF SoloInv, OffsetsWritten, AtLeastOnce
<1> QED
  BY <1>1, SoloAlways, PTL

\* An empty pipeline maps to an empty delivery.
LEMMA InitRefines == Init => Delivery!Init
BY DEF Init, Delivery!Init

\* A step maps to a Write if it writes rows, and to a Commit, of the same offset
\* maybe, if it does not.
LEMMA NextRefines ==
    ASSUME NEW w, Workers = {w}, TypeInv, AckInv, SoloInv(w), SoloInv(w)', TypeInv',
           [Next]_vars
    PROVE  [Delivery!Next]_(Delivery!vars)
<1>1. CASE WriteBatch(w)
  <2>1. /\ currentBatch[w].pos \in 1 .. MaxPos
        /\ 1 .. currentBatch[w].pos - 1 \subseteq written
    BY <1>1, NoBatchAssumption, SMTT(30) DEF WriteBatch, TypeInv, TypeOK, HoldsBatch, SoloInv,
       SourceOrder, Batch
  <2>2. 1 .. currentBatch[w].pos = (1 .. currentBatch[w].pos - 1) \cup {currentBatch[w].pos}
    BY <2>1
  <2>3. Delivery!Write(currentBatch[w].pos)
    BY <1>1, <2>1, <2>2 DEF WriteBatch, Delivery!Write, offsetVars
  <2> QED BY <2>1, <2>3 DEF Delivery!Next
<1>2. CASE UNCHANGED written
  <2>1. 1 .. committed' \subseteq written /\ committed' \in 0 .. MaxPos
    BY <1>2 DEF SoloInv, OffsetsWritten, TypeInv, TypeOK
  <2>2. Delivery!Commit(committed')
    BY <1>2, <2>1 DEF Delivery!Commit
  <2> QED BY <2>1, <2>2 DEF Delivery!Next
<1> QED
  BY <1>1, <1>2 DEF Next, Produce, Work, HandOff, CheckQuiescent, CommitControlRecord,
     EngineFails, Poll, Retry, Register, Park, Commit, Visit, Finish, Fail, FailFatally,
     FlushFails, Crash, vars

\* A pipeline with one worker implements the promise of acknowledgeRecords.
THEOREM OneWorkerImplementsDelivery == OneWorker => (Spec => ImplementsDelivery)
<1> SUFFICES ASSUME NEW w, Workers = {w} PROVE Spec => ImplementsDelivery
  BY DEF OneWorker
<1>1. TypeInv /\ AckInv /\ SoloInv(w) /\ TypeInv' /\ SoloInv(w)' /\ [Next]_vars
         => [Delivery!Next]_(Delivery!vars)
  BY NextRefines
<1> QED
  BY <1>1, InitRefines, SoloAlways, PTL DEF Spec, ImplementsDelivery, Delivery!Spec
================================================================================
