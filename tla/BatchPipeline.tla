----------------------------- MODULE BatchPipeline -----------------------------
(******************************************************************************)
(* The asynchronous write path of the lightweight connector.                  *)
(*                                                                            *)
(*   - The Debezium thread (cdc/DebeziumChangeEventCapture) turns every list  *)
(*     of change events into a batch, hands it over through the bounded queue *)
(*     `records', and commits the offset of a control record (a heartbeat)    *)
(*     when nothing that was read is still unwritten.                         *)
(*   - Workers (executor/ClickHouseBatchRunnable) take batches from the       *)
(*     queue, write them, and ask whether the batch can be committed.         *)
(*   - The static maps and the counter of executor/DebeziumOffsetManagement   *)
(*     decide it: a batch with an older batch still in flight is parked.      *)
(*   - Debezium's RecordCommitter stages an offset with markProcessed and     *)
(*     flushes it, now and then, with markBatchFinished.                      *)
(*                                                                            *)
(* A batch is its position in the source log and the range of the envelope    *)
(* timestamps of its records, which is all that the offset management looks   *)
(* at.  The rows of a batch are one unit: a write that fails half way has not *)
(* written the batch.                                                         *)
(******************************************************************************)
EXTENDS Integers, Sequences, FiniteSets

CONSTANTS
    Workers,            \* the runnables scheduled on the pool: thread.pool.size
    MaxPos,             \* bound: batches in the source log
    MaxTs,              \* bound: the clock that stamps the records
    MaxQueueSize,       \* sink.connector.max.queue.size
    MAX_RETRIES,        \* errors.max.retries: restarts of the engine
    MaxCrashes,         \* bound: crashes of the process
    NoBatch             \* null

\* The pool is finite, the queue holds a batch at least, the bounds are numbers,
\* null is no batch.
ASSUME PipelineAssumption ==
    /\ IsFiniteSet(Workers)
    /\ MaxPos \in Nat
    /\ MaxTs \in Nat
    /\ MaxQueueSize \in Nat \ {0}
    /\ MAX_RETRIES \in Int
    /\ MaxCrashes \in Nat

Ranges == {r \in [min : 0 .. MaxTs, max : 0 .. MaxTs] : r.min <= r.max}

Batch == [pos : 1 .. MaxPos, ts : Ranges]

ASSUME NoBatchAssumption == NoBatch \notin Batch

VARIABLES
    \* The Debezium engine and its offset storage
    nRead,              \* position of the last batch the engine delivered
    resumed,            \* position this engine started after
    clock,              \* envelope timestamp of the last record read
    staged,             \* offset in the OffsetStorageWriter
    committed,          \* offset in the table replica_source_info
    producer,           \* "reading", "committing" or "stopped"
    numRetries,         \* restarts of the engine so far
    \* Handoff
    records,            \* the LinkedBlockingQueue
    outstandingBatches, \* handed off and not acknowledged
    \* DebeziumOffsetManagement: maps with the timestamp range as the key
    inFlightBatches,
    completedBatches,
    \* ClickHouseBatchRunnable
    pc,                 \* where each worker is in its run loop
    currentBatch,       \* the batch it works on, or NoBatch
    toVisit,            \* completed batches its forEach has yet to visit
    \* ClickHouse
    written,            \* positions whose rows are all in ClickHouse
    \* What an observer remembers
    acked,              \* positions acknowledged since the process started
    discarded,          \* positions dropped after a fatal error
    crashes

engineVars == <<nRead, resumed, clock, numRetries>>
offsetVars == <<staged, committed>>
workerVars == <<pc, currentBatch, toVisit>>
mapVars    == <<inFlightBatches, completedBatches>>
historyVars == <<acked, discarded, crashes>>
vars == <<engineVars, offsetVars, producer, records, outstandingBatches, mapVars,
          workerVars, written, historyVars>>

Init ==
    /\ nRead = 0
    /\ resumed = 0
    /\ clock = 0
    /\ staged = 0
    /\ committed = 0
    /\ producer = "reading"
    /\ numRetries = 0
    /\ records = <<>>
    /\ outstandingBatches = 0
    /\ inFlightBatches = {}
    /\ completedBatches = {}
    /\ pc = [w \in Workers |-> "idle"]
    /\ currentBatch = [w \in Workers |-> NoBatch]
    /\ toVisit = [w \in Workers |-> {}]
    /\ written = {}
    /\ acked = {}
    /\ discarded = {}
    /\ crashes = 0

--------------------------------------------------------------------------------
(* DebeziumOffsetManagement                                                   *)

\* HashMap.put and HashMap.remove, for a map with the timestamp range as key.
put(map, b) == {x \in map : x.ts # b.ts} \cup {b}

\* Mutant: the entry stays in the map.
KeepEntry(map, range) == map

remove(map, range) == {x \in map : x.ts # range}

\* Mutant: the batch's own entry holds it back as well.
AnythingInFlight(range) ==
    \E x \in inFlightBatches : range.max > x.ts.min

\* Mutant: the wrong ends of the two ranges are compared.
EndsSwapped(range) ==
    \E x \in inFlightBatches : x.ts # range /\ range.min > x.ts.max

\* Is a batch in flight that may be older than one with this range?  The entry
\* with the same range counts as the batch itself.
checkIfThereAreInflightRequests(range) ==
    \E x \in inFlightBatches : x.ts # range /\ range.max > x.ts.min

hasUnwrittenBatches ==
    \/ outstandingBatches > 0
    \/ inFlightBatches # {}
    \/ completedBatches # {}

\* markProcessed stages the offset of the batch; markBatchFinished flushes it or
\* not: the flush interval may not have passed, and a batch whose last record
\* was not the last of the list Debezium delivered asks for no flush.
MarkProcessed(pos) ==
    /\ staged' = pos
    /\ committed' \in {committed, pos}

\* Mutant: an acknowledged batch stays counted.
StillCounted == outstandingBatches

\* The counter after an acknowledgement, floored at zero.
Released == IF outstandingBatches > 0 THEN outstandingBatches - 1 ELSE 0

\* acknowledgeRecords
Acknowledge(b) ==
    /\ MarkProcessed(b.pos)
    /\ inFlightBatches' = remove(inFlightBatches, b.ts)
    /\ outstandingBatches' = Released
    /\ acked' = acked \cup {b.pos}

\* The monitor of the static synchronized methods is free.
Unlocked == \A w \in Workers : pc[w] # "visiting"

--------------------------------------------------------------------------------
(* The Debezium thread                                                        *)

\* Mutant: one batch more than the queue holds.
RoomForOneMore == Len(records) <= MaxQueueSize

QueueHasRoom == Len(records) < MaxQueueSize

\* handleChangeEventBatch for a list with rows, and appendToRecords: the batch
\* is counted before it is visible.  put blocks while the queue is full.  A put
\* that is interrupted gives the count back and drops the batch.  Nothing but the
\* close of the engine interrupts this thread: the engine reads no more, and the
\* next one reads the batch again, which is what EngineFails does to it.
HandOff ==
    /\ producer = "reading"
    /\ nRead < MaxPos
    /\ QueueHasRoom
    /\ \E range \in Ranges :
          /\ range.min >= clock
          /\ clock' = range.max
          /\ records' = Append(records, [pos |-> nRead + 1, ts |-> range])
    /\ nRead' = nRead + 1
    /\ outstandingBatches' = outstandingBatches + 1
    /\ UNCHANGED <<resumed, numRetries, offsetVars, producer, mapVars, workerVars,
                   written, historyVars>>

\* Mutant: the maps are looked at and the counter is not.
MapsAreQuiescent == records = <<>> /\ inFlightBatches = {} /\ completedBatches = {}

isPipelineQuiescent == records = <<>> /\ ~hasUnwrittenBatches

\* A list with no rows ends in commitControlRecordOffset.  The test takes no
\* lock, the commit that follows it does.
CheckQuiescent ==
    /\ producer = "reading"
    /\ isPipelineQuiescent
    /\ producer' = "committing"
    /\ UNCHANGED <<engineVars, offsetVars, records, outstandingBatches, mapVars,
                   workerVars, written, historyVars>>

\* A control record carries the current position of the source.
CommitControlRecord ==
    /\ producer = "committing"
    /\ Unlocked
    /\ MarkProcessed(nRead)
    /\ producer' = "reading"
    /\ UNCHANGED <<engineVars, records, outstandingBatches, mapVars, workerVars,
                   written, historyVars>>

\* The engine fails, which flushes what is staged or not.  The completion
\* callback builds another engine, which resumes after the committed offset: the
\* queue, the workers and the maps stay as they are.  The retries are never given
\* back, and after the last one nothing is read any more.
EngineFails ==
    /\ producer = "reading"
    /\ committed' \in {committed, staged}
    /\ IF numRetries <= MAX_RETRIES
       THEN /\ numRetries' = numRetries + 1
            /\ nRead' = committed'
            /\ resumed' = committed'
            /\ staged' = committed'
            /\ UNCHANGED producer
       ELSE /\ producer' = "stopped"
            /\ UNCHANGED <<numRetries, nRead, resumed, staged>>
    /\ UNCHANGED <<clock, records, outstandingBatches, mapVars, workerVars, written,
                   historyVars>>

--------------------------------------------------------------------------------
(* A worker: ClickHouseBatchRunnable.run, runLegacyMode and processBatch.     *)
(*                                                                            *)
(*   idle        between two batches, or two attempts at one                  *)
(*   polled      in addRecordsToHistoryTable: not registered yet              *)
(*   registered  in inFlightBatches, writing the rows of each topic           *)
(*   written     every topic done, about to call checkIfBatchCanBeCommitted   *)
(*   visiting    in that method, acknowledging what was parked                *)
(*   dead        the schedule is cancelled                                    *)

Others == <<engineVars, producer, crashes>>

Poll(w) ==
    /\ pc[w] = "idle"
    /\ currentBatch[w] = NoBatch
    /\ records # <<>>
    /\ currentBatch' = [currentBatch EXCEPT ![w] = Head(records)]
    /\ records' = Tail(records)
    /\ pc' = [pc EXCEPT ![w] = "polled"]
    /\ UNCHANGED <<Others, offsetVars, outstandingBatches, mapVars, toVisit, written,
                   acked, discarded>>

\* The next round of the loop, or the next run of the schedule, keeps the batch.
Retry(w) ==
    /\ pc[w] = "idle"
    /\ currentBatch[w] # NoBatch
    /\ pc' = [pc EXCEPT ![w] = "polled"]
    /\ UNCHANGED <<Others, offsetVars, records, outstandingBatches, mapVars, currentBatch,
                   toVisit, written, acked, discarded>>

\* addToBatchTimestamps, once the history rows are written.
Register(w) ==
    /\ pc[w] = "polled"
    /\ inFlightBatches' = put(inFlightBatches, currentBatch[w])
    /\ pc' = [pc EXCEPT ![w] = "registered"]
    /\ UNCHANGED <<Others, offsetVars, records, outstandingBatches, completedBatches,
                   currentBatch, toVisit, written, acked, discarded>>

WriteBatch(w) ==
    /\ pc[w] = "registered"
    /\ written' = written \cup {currentBatch[w].pos}
    /\ pc' = [pc EXCEPT ![w] = "written"]
    /\ UNCHANGED <<Others, offsetVars, records, outstandingBatches, mapVars, currentBatch,
                   toVisit, acked, discarded>>

\* Mutant: the worker lets go of a batch that failed.
FailAndForget(w) ==
    /\ pc[w] \in {"polled", "registered"}
    /\ pc' = [pc EXCEPT ![w] = "idle"]
    /\ currentBatch' = [currentBatch EXCEPT ![w] = NoBatch]
    /\ UNCHANGED <<Others, offsetVars, records, outstandingBatches, mapVars, toVisit,
                   written, acked, discarded>>

\* Mutant: the result of processRecordsByTopic is not looked at.
FailUnnoticed(w) ==
    /\ pc[w] \in {"polled", "registered"}
    /\ pc' = [pc EXCEPT ![w] = "written"]
    /\ UNCHANGED <<Others, offsetVars, records, outstandingBatches, mapVars, currentBatch,
                   toVisit, written, acked, discarded>>

\* The history table or a topic fails with an error worth a retry, or the
\* metadata of the table is not there yet.
Fail(w) ==
    /\ pc[w] \in {"polled", "registered"}
    /\ pc' = [pc EXCEPT ![w] = "idle"]
    /\ UNCHANGED <<Others, offsetVars, records, outstandingBatches, mapVars, currentBatch,
                   toVisit, written, acked, discarded>>

\* A fatal error drops the batch and cancels the schedule of this runnable only.
\* An entry in inFlightBatches stays.
FailFatally(w) ==
    /\ pc[w] \in {"polled", "registered"}
    /\ pc' = [pc EXCEPT ![w] = "dead"]
    /\ currentBatch' = [currentBatch EXCEPT ![w] = NoBatch]
    /\ discarded' = discarded \cup {currentBatch[w].pos}
    /\ UNCHANGED <<Others, offsetVars, records, outstandingBatches, mapVars, toVisit,
                   written, acked>>

\* checkIfBatchCanBeCommitted, an older batch in flight: the batch is parked, and
\* the worker keeps it and will write it again.
Park(w) ==
    /\ pc[w] = "written"
    /\ Unlocked
    /\ checkIfThereAreInflightRequests(currentBatch[w].ts)
    /\ inFlightBatches' = remove(inFlightBatches, currentBatch[w].ts)
    /\ completedBatches' = put(completedBatches, currentBatch[w])
    /\ pc' = [pc EXCEPT ![w] = "idle"]
    /\ UNCHANGED <<Others, offsetVars, records, outstandingBatches, currentBatch, toVisit,
                   written, acked, discarded>>

\* checkIfBatchCanBeCommitted, nothing older in flight: the batch is acknowledged
\* and the parked ones are looked at.
Commit(w) ==
    /\ pc[w] = "written"
    /\ Unlocked
    /\ ~checkIfThereAreInflightRequests(currentBatch[w].ts)
    /\ Acknowledge(currentBatch[w])
    /\ pc' = [pc EXCEPT ![w] = "visiting"]
    /\ toVisit' = [toVisit EXCEPT ![w] = completedBatches]
    /\ UNCHANGED <<Others, records, completedBatches, currentBatch, written, discarded>>

\* One step of completedBatches.forEach, in the order of the hash map.
Visit(w) ==
    /\ pc[w] = "visiting"
    /\ \E b \in toVisit[w] :
          /\ toVisit' = [toVisit EXCEPT ![w] = @ \ {b}]
          /\ IF checkIfThereAreInflightRequests(b.ts)
             THEN UNCHANGED <<offsetVars, inFlightBatches, completedBatches,
                              outstandingBatches, acked>>
             ELSE /\ Acknowledge(b)
                  /\ completedBatches' = remove(completedBatches, b.ts)
    /\ UNCHANGED <<Others, records, pc, currentBatch, written, discarded>>

Finish(w) ==
    /\ pc[w] = "visiting"
    /\ toVisit[w] = {}
    /\ pc' = [pc EXCEPT ![w] = "idle"]
    /\ currentBatch' = [currentBatch EXCEPT ![w] = NoBatch]
    /\ UNCHANGED <<Others, offsetVars, records, outstandingBatches, mapVars, toVisit,
                   written, acked, discarded>>

\* markBatchFinished throws: the offset is staged, nothing else of the
\* acknowledgement happens, and the batch is tried again.
FlushFails(w) ==
    /\ \/ /\ pc[w] = "written"
          /\ Unlocked
          /\ ~checkIfThereAreInflightRequests(currentBatch[w].ts)
          /\ staged' = currentBatch[w].pos
       \/ /\ pc[w] = "visiting"
          /\ \E b \in toVisit[w] :
                /\ ~checkIfThereAreInflightRequests(b.ts)
                /\ staged' = b.pos
    /\ pc' = [pc EXCEPT ![w] = "idle"]
    /\ toVisit' = [toVisit EXCEPT ![w] = {}]
    /\ UNCHANGED <<Others, committed, records, outstandingBatches, mapVars, currentBatch,
                   written, acked, discarded>>

--------------------------------------------------------------------------------

\* The process dies at any point, and restarts from the committed offset.
Crash ==
    /\ crashes < MaxCrashes
    /\ crashes' = crashes + 1
    /\ nRead' = committed
    /\ resumed' = committed
    /\ clock' = 0
    /\ staged' = committed
    /\ producer' = "reading"
    /\ numRetries' = 0
    /\ records' = <<>>
    /\ outstandingBatches' = 0
    /\ inFlightBatches' = {}
    /\ completedBatches' = {}
    /\ pc' = [w \in Workers |-> "idle"]
    /\ currentBatch' = [w \in Workers |-> NoBatch]
    /\ toVisit' = [w \in Workers |-> {}]
    /\ acked' = {}
    /\ discarded' = {}
    /\ UNCHANGED <<committed, written>>

Produce == HandOff \/ CheckQuiescent \/ CommitControlRecord

Work(w) ==
    \/ Poll(w) \/ Retry(w) \/ Register(w) \/ WriteBatch(w)
    \/ Park(w) \/ Commit(w) \/ Visit(w) \/ Finish(w)

Next ==
    \/ Produce
    \/ EngineFails
    \/ \E w \in Workers : Work(w) \/ Fail(w) \/ FailFatally(w) \/ FlushFails(w)
    \/ Crash

Spec == Init /\ [][Next]_vars

(* The threads are scheduled at a fixed rate and never starve.  Errors are not *)
(* permanent unless they are fatal: a write, a history row and a flush tried   *)
(* again and again succeed in the end.                                         *)
Fairness ==
    /\ WF_vars(HandOff)
    /\ WF_vars(CheckQuiescent)
    /\ WF_vars(CommitControlRecord)
    /\ \A w \in Workers :
          /\ WF_vars(Poll(w) \/ Retry(w) \/ Finish(w))
          /\ SF_vars(Register(w))
          /\ SF_vars(WriteBatch(w))
          /\ SF_vars(Park(w) \/ Commit(w))
          /\ SF_vars(Visit(w))

FairSpec == Spec /\ Fairness

--------------------------------------------------------------------------------
(* Properties                                                                 *)

\* The workers that hold a batch.
NotEmpty == {w \in Workers : currentBatch[w] # NoBatch}

\* Every variable has its type, and the queue stays within its capacity.
TypeOK ==
    /\ nRead \in 0 .. MaxPos
    /\ resumed \in 0 .. MaxPos
    /\ clock \in 0 .. MaxTs
    /\ staged \in 0 .. MaxPos
    /\ committed \in 0 .. MaxPos
    /\ producer \in {"reading", "committing", "stopped"}
    /\ numRetries \in Nat
    /\ records \in Seq(Batch)
    /\ Len(records) <= MaxQueueSize
    /\ outstandingBatches \in Nat
    /\ inFlightBatches \subseteq Batch
    /\ completedBatches \subseteq Batch
    /\ pc \in [Workers -> {"idle", "polled", "registered", "written", "visiting", "dead"}]
    /\ currentBatch \in [Workers -> Batch \cup {NoBatch}]
    /\ toVisit \in [Workers -> SUBSET Batch]
    /\ written \subseteq 1 .. MaxPos
    /\ acked \subseteq 1 .. MaxPos
    /\ discarded \subseteq 1 .. MaxPos
    /\ crashes \in 0 .. MaxCrashes

\* A crash loses nothing: whatever lies at or before the committed offset, where
\* the next engine resumes, is in ClickHouse.  One worker keeps this.  A pool
\* does not: a batch that a worker has polled and not registered yet does not
\* hold back a newer one.
AtLeastOnce == 1 .. committed \subseteq written

\* A batch is a record of the abstract log, and it has rows.
Delivery == INSTANCE AtLeastOnceDelivery WITH
    MaxPos <- MaxPos, Rowless <- {}, written <- written, committed <- committed

\* Through retries, restarts of the engine and crashes, batches reach ClickHouse
\* for the first time in the order of the source, and every commit covers
\* written batches only.
ImplementsDelivery == Delivery!Spec

\* No offset of a batch is acknowledged before its own rows are in ClickHouse,
\* whichever worker does it: the one that wrote it, or another that finds it
\* parked.
AckedWritten == acked \subseteq written

Tracked(p) ==
    \/ p \in acked \cup discarded
    \/ \E i \in 1 .. Len(records) : records[i].pos = p
    \/ \E w \in NotEmpty : currentBatch[w].pos = p

\* No batch falls out of the pipeline: one the engine has delivered is queued,
\* with a worker, acknowledged, or dropped with a fatal error.
NoBatchUntracked == \A p \in resumed + 1 .. nRead : Tracked(p)

\* The comment of hasUnwrittenBatches: the predicate can only ever withhold the
\* offset of a control record, never permit an unsafe one.  One worker keeps this.
\* In a pool a batch that was parked is released twice, by the worker that finds
\* it parked and by the one that parked it, and the counter misses another batch.
QuiescentIsWritten ==
    isPipelineQuiescent => resumed + 1 .. nRead \subseteq written \cup discarded

\* The counter never exceeds the batches that somebody will still acknowledge,
\* or that died with their worker: an excess would withhold the offsets of
\* control records for the life of the process.
CounterNeverLeaks ==
    outstandingBatches <=
        Len(records) + Cardinality(NotEmpty \cup {w \in Workers : pc[w] = "dead"})

\* A batch is never acknowledged past an older one that is registered in flight
\* and not written yet.  The one exception is an older batch with the very same
\* timestamp range, which the maps take for the same batch.  It takes one engine: a
\* restarted one delivers the older batches again with later timestamps.
NoOvertaking ==
    [][numRetries = 0 =>
         \A p \in acked' \ acked : \A x \in inFlightBatches :
            x.pos < p /\ x.pos \notin written =>
               \E b \in {currentBatch[w] : w \in NotEmpty} \cup completedBatches :
                   b.pos = p /\ b.ts = x.ts]_vars

\* A batch that was delivered is acknowledged in the end, unless a restart takes
\* it back to the source, or a fatal error stops a worker.
EventuallyAcked ==
    \A p \in 1 .. MaxPos :
       (p \in resumed + 1 .. nRead) ~>
          (p \in acked \/ p \notin resumed + 1 .. nRead \/ discarded # {})

\* On an idle source the pipeline comes to rest, so that the offset of a
\* heartbeat is committed: without it a finished snapshot is never recorded as
\* finished.
EventuallyQuiescent == <>[](isPipelineQuiescent \/ discarded # {})
================================================================================
