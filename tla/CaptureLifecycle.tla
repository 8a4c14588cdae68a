---------------------------- MODULE CaptureLifecycle ----------------------------
(******************************************************************************)
(* Stops, starts and restarts of the lightweight connector in one process.    *)
(*                                                                            *)
(* ClickHouseDebeziumEmbeddedApplication keeps the current capture in a       *)
(* static field.  The main thread starts the first one; a request of the REST *)
(* API and the monitoring timer stop the one they find there and start        *)
(* another.  A capture (cdc/DebeziumChangeEventCapture) has an engine with an *)
(* executor of its own, a queue and workers; when the engine fails, its       *)
(* completion callback submits another one.  The maps and the counter of      *)
(* executor/DebeziumOffsetManagement, and the flag that replication is        *)
(* running, are static: they are shared by the captures of the process, and   *)
(* nothing resets them.                                                       *)
(*                                                                            *)
(* Every capture has one worker (thread.pool.size = 1).  A batch is the range *)
(* of the positions of its records in the source log, which also stand for    *)
(* their timestamps; an engine that reads them again may cut them otherwise.  *)
(******************************************************************************)
EXTENDS Integers, Sequences, FiniteSets

CONSTANTS
    Requests,           \* threads that start and stop: Main, the timer, the REST API's
    Main,               \* the thread of main()
    MaxCaptures,        \* bound: captures of the process
    MaxAsked,           \* bound: requests to stop, start or restart
    MaxPos,             \* bound: records in the source log
    MaxQueueSize,       \* sink.connector.max.queue.size
    MAX_RETRIES,        \* errors.max.retries
    MaxFaults,          \* bound: failures of engines and workers
    NoBatch             \* null

\* The bounds are numbers, the queue holds a batch.
ASSUME LifecycleAssumption ==
    /\ Main \in Requests
    /\ MaxCaptures \in Nat \ {0}
    /\ MaxAsked \in Nat
    /\ MaxPos \in Nat
    /\ MaxQueueSize \in Nat \ {0}
    /\ MAX_RETRIES \in Int
    /\ MaxFaults \in Nat

Captures == 1 .. MaxCaptures

\* The records of a batch, from the first to the last: its entry in the maps.
Batch == {b \in [min : 1 .. MaxPos, max : 1 .. MaxPos] : b.min <= b.max}

ASSUME NoBatchAssumption == NoBatch \notin Batch

VARIABLES
    \* ClickHouseDebeziumEmbeddedApplication
    created,            \* captures made so far
    theCapture,         \* debeziumChangeEventCapture, 0 for null
    request,            \* where each thread is with its request
    target,             \* the capture that it stops, or sets up
    follow,             \* what it does once that capture is stopped
    \* A capture
    executor,           \* "null", "open", "shutdown": the pool of its worker
    eventExecutor,      \* "open", "shutdown": the thread of its engine
    engine,             \* "none", "submitted", "running", "closing", "failed", "ended"
    numRetries,         \* restarts by its completion callback
    nRead,              \* position of the last record its engine delivered
    records,            \* its queue
    pc,                 \* where its worker is
    currentBatch,       \* what its worker holds
    toVisit,            \* parked batches its worker has yet to look at
    \* Static
    inFlightBatches,
    completedBatches,
    outstandingBatches,
    isReplicationRunning,
    \* ClickHouse
    committed,          \* offset in the table replica_source_info
    written,            \* records whose rows are in ClickHouse
    \* What an observer remembers
    asked,
    faults,
    stopped,            \* captures that a stop has left with no engine
    raced,              \* two requests have overlapped, or a close has been given up
    recounted           \* a parked batch was acknowledged, or should have been

requestVars == <<created, theCapture, request, target, follow, asked, stopped, raced>>
workerVars  == <<pc, currentBatch, toVisit>>
staticVars  == <<inFlightBatches, completedBatches, outstandingBatches, recounted>>
vars == <<requestVars, executor, eventExecutor, engine, numRetries, nRead, records,
          workerVars, staticVars, isReplicationRunning, committed, written, faults>>

\* main() sets the timer up and then calls start().
Init ==
    /\ created = 0
    /\ theCapture = 0
    /\ request = [r \in Requests |-> IF r = Main THEN "create" ELSE "idle"]
    /\ target = [r \in Requests |-> 0]
    /\ follow = [r \in Requests |-> "none"]
    /\ executor = [c \in Captures |-> "null"]
    /\ eventExecutor = [c \in Captures |-> "open"]
    /\ engine = [c \in Captures |-> "none"]
    /\ numRetries = [c \in Captures |-> 0]
    /\ nRead = [c \in Captures |-> 0]
    /\ records = [c \in Captures |-> <<>>]
    /\ pc = [c \in Captures |-> "rest"]
    /\ currentBatch = [c \in Captures |-> NoBatch]
    /\ toVisit = [c \in Captures |-> {}]
    /\ inFlightBatches = {}
    /\ completedBatches = {}
    /\ outstandingBatches = 0
    /\ isReplicationRunning = FALSE
    /\ committed = 0
    /\ written = {}
    /\ asked = 0
    /\ faults = 0
    /\ stopped = {}
    /\ raced = FALSE
    /\ recounted = FALSE

--------------------------------------------------------------------------------
(* Requests                                                                   *)

Busy == {r \in Requests : request[r] # "idle"}

\* GET /stop, /start and /restart of the REST API, which is up once main has
\* started a capture.  The timer, which may be earlier, restarts a capture when no
\* record has come for restart.event.loop.timeout.period.secs, or none at all.
Ask(r, what) ==
    /\ r # Main
    /\ request[r] = "idle"
    /\ theCapture # 0
    /\ what = "start" \/ request[Main] = "idle"
    /\ asked < MaxAsked
    /\ asked' = asked + 1
    /\ request' = [request EXCEPT ![r] = "stop"]
    /\ follow' = [follow EXCEPT ![r] = what]
    /\ raced' = (raced \/ Busy # {})
    /\ UNCHANGED <<created, theCapture, target, stopped, executor, eventExecutor,
                   engine, numRetries, nRead, records, workerVars, staticVars,
                   isReplicationRunning, committed, written, faults>>

\* stop() of the capture that is current now: the pool takes no more work, and a
\* run of the worker goes on to its end.
Stop(r) ==
    /\ request[r] = "stop"
    /\ target' = [target EXCEPT ![r] = theCapture]
    /\ executor' = [executor EXCEPT ![theCapture] = IF @ = "open" THEN "shutdown" ELSE @]
    /\ request' = [request EXCEPT ![r] = "awaitWorkers"]
    /\ UNCHANGED <<created, theCapture, follow, asked, stopped, raced,
                   eventExecutor, engine, numRetries, nRead, records, workerVars,
                   staticVars, isReplicationRunning, committed, written, faults>>

\* The worker's run has ended or a minute has passed.
AwaitWorkers(r) ==
    /\ request[r] = "awaitWorkers"
    /\ eventExecutor' = [eventExecutor EXCEPT ![target[r]] = "shutdown"]
    /\ request' = [request EXCEPT ![r] = "awaitEvents"]
    /\ UNCHANGED <<created, theCapture, target, follow, asked, stopped, raced, executor,
                   engine, numRetries, nRead, records, workerVars, staticVars,
                   isReplicationRunning, committed, written, faults>>

\* The thread of the engine is done or a minute has passed, in which an engine
\* that was submitted has begun to run.  engine.close() asks a running one to end.
Close(r) ==
    /\ request[r] = "awaitEvents"
    /\ engine[target[r]] # "submitted"
    /\ engine' = [engine EXCEPT ![target[r]] = IF @ = "running" THEN "closing" ELSE @]
    /\ request' = [request EXCEPT ![r] = "closing"]
    /\ UNCHANGED <<created, theCapture, target, follow, asked, stopped, raced, executor,
                   eventExecutor, numRetries, nRead, records, workerVars, staticVars,
                   isReplicationRunning, committed, written, faults>>

\* stop() returns.  /restart has stopped the capture on the thread of the
\* request and stops it again on the one that starts the next.
Returned(r) ==
    /\ request' = [request EXCEPT ![r] =
                      IF follow[r] = "stop" THEN "idle"
                      ELSE IF follow[r] = "start" THEN "create" ELSE "stop"]
    /\ follow' = [follow EXCEPT ![r] = IF @ = "restart" THEN "start" ELSE "none"]
    /\ target' = [target EXCEPT ![r] = 0]

\* Mutant: stop() does not wait for the engine to end.
CloseUnawaited(r) ==
    /\ request[r] = "closing"
    /\ Returned(r)
    /\ UNCHANGED <<stopped, created, theCapture, asked, raced, executor,
                   eventExecutor, engine, numRetries, nRead, records, workerVars,
                   staticVars, isReplicationRunning, committed, written, faults>>

\* The engine has ended, or it takes longer than close() waits.
Closed(r) ==
    /\ request[r] = "closing"
    /\ Returned(r)
    /\ IF engine[target[r]] = "closing"
       THEN raced' = TRUE /\ UNCHANGED stopped
       ELSE stopped' = stopped \cup {target[r]} /\ UNCHANGED raced
    /\ UNCHANGED <<created, theCapture, asked, executor, eventExecutor,
                   engine, numRetries, nRead, records, workerVars, staticVars,
                   isReplicationRunning, committed, written, faults>>

\* Mutant: a capture that was stopped is set up again.
SameCapture == IF created = 0 THEN 1 ELSE theCapture

\* new DebeziumChangeEventCapture()
NewCapture == created + 1

\* start() replaces the static capture before it sets the new one up.
Create(r) ==
    /\ request[r] = "create"
    /\ created < MaxCaptures
    /\ created' = NewCapture
    /\ theCapture' = NewCapture
    /\ target' = [target EXCEPT ![r] = NewCapture]
    /\ request' = [request EXCEPT ![r] = "setup"]
    /\ UNCHANGED <<follow, asked, stopped, raced, executor, eventExecutor, engine,
                   numRetries, nRead, records, workerVars, staticVars,
                   isReplicationRunning, committed, written, faults>>

\* setupProcessingThread; only main heeds skip.replica.start.
SetUpWorkers(r) ==
    /\ request[r] = "setup"
    /\ executor' = [executor EXCEPT ![target[r]] = "open"]
    /\ request' = [request EXCEPT ![r] = "submit"]
    /\ UNCHANGED <<created, theCapture, target, follow, asked, stopped, raced,
                   eventExecutor, engine, numRetries, nRead, records, workerVars,
                   staticVars, isReplicationRunning, committed, written, faults>>

SkipStart ==
    /\ request[Main] = "setup"
    /\ request' = [request EXCEPT ![Main] = "idle"]
    /\ target' = [target EXCEPT ![Main] = 0]
    /\ UNCHANGED <<created, theCapture, follow, asked, stopped, raced,
                   executor, eventExecutor, engine, numRetries, nRead, records, workerVars,
                   staticVars, isReplicationRunning, committed, written, faults>>

\* Mutant: an executor that has been shut down takes another engine.
SubmittedAnyway(c) == "submitted"

\* The end of setupDebeziumEventCapture: an executor that has been shut down
\* rejects the engine, which is closed before it has run.
Submitted(c) == IF eventExecutor[c] = "open" THEN "submitted" ELSE "ended"

SubmitEngine(r) ==
    /\ request[r] = "submit"
    /\ engine' = [engine EXCEPT ![target[r]] = Submitted(target[r])]
    /\ request' = [request EXCEPT ![r] = "idle"]
    /\ target' = [target EXCEPT ![r] = 0]
    /\ UNCHANGED <<created, theCapture, follow, asked, stopped, raced,
                   executor, eventExecutor, numRetries, nRead, records, workerVars,
                   staticVars, isReplicationRunning, committed, written, faults>>

--------------------------------------------------------------------------------
(* The engine of a capture                                                    *)

\* Mutant: the end of an engine is not told.
NotTold == UNCHANGED isReplicationRunning

connectorStopped == isReplicationRunning' = FALSE

\* connectorStarted: the engine resumes after the committed offset.
EngineStarts(c) ==
    /\ engine[c] = "submitted"
    /\ engine' = [engine EXCEPT ![c] = "running"]
    /\ nRead' = [nRead EXCEPT ![c] = committed]
    /\ isReplicationRunning' = TRUE
    /\ UNCHANGED <<requestVars, executor, eventExecutor, numRetries, records, workerVars,
                   staticVars, committed, written, faults>>

Fault == faults < MaxFaults /\ faults' = faults + 1

Reading(c) == engine[c] \in {"running", "closing"}

\* Mutant: one batch more than the queue holds.
RoomForOneMore(c) == Len(records[c]) <= MaxQueueSize

QueueHasRoom(c) == Len(records[c]) < MaxQueueSize

\* handleChangeEventBatch for a list with rows.
HandOff(c) ==
    /\ Reading(c)
    /\ QueueHasRoom(c)
    /\ \E last \in nRead[c] + 1 .. MaxPos :
          /\ nRead' = [nRead EXCEPT ![c] = last]
          /\ records' = [records EXCEPT ![c] = Append(@, [min |-> nRead[c] + 1, max |-> last])]
    /\ outstandingBatches' = outstandingBatches + 1
    /\ UNCHANGED <<requestVars, executor, eventExecutor, engine, numRetries, workerVars,
                   inFlightBatches, completedBatches, recounted, isReplicationRunning,
                   committed, written, faults>>

hasUnwrittenBatches ==
    \/ outstandingBatches > 0
    \/ inFlightBatches # {}
    \/ completedBatches # {}

\* Mutant: the queue of the capture is looked at, and not what is static.
QueueIsEmpty(c) == records[c] = <<>>

\* The queue is that of the capture, the rest is shared.
isPipelineQuiescent(c) == records[c] = <<>> /\ ~hasUnwrittenBatches

\* handleChangeEventBatch for a heartbeat.
CommitControlRecord(c) ==
    /\ Reading(c)
    /\ isPipelineQuiescent(c)
    /\ committed' = nRead[c]
    /\ UNCHANGED <<requestVars, executor, eventExecutor, engine, numRetries, nRead, records,
                   workerVars, staticVars, isReplicationRunning, written, faults>>

\* The engine ends with an error.  The completion callback sleeps, on the thread
\* of the engine, if there are retries left; else the capture is done, and what
\* it has counted and read is of no use to anyone.
EngineFails(c) ==
    /\ engine[c] = "running"
    /\ IF numRetries[c] <= MAX_RETRIES
       THEN /\ engine' = [engine EXCEPT ![c] = "failed"]
            /\ numRetries' = [numRetries EXCEPT ![c] = @ + 1]
       ELSE /\ engine' = [engine EXCEPT ![c] = "ended"]
            /\ numRetries' = [numRetries EXCEPT ![c] = 0]
    /\ nRead' = [nRead EXCEPT ![c] = 0]
    /\ connectorStopped
    /\ Fault
    /\ UNCHANGED <<requestVars, executor, eventExecutor, records, workerVars, staticVars,
                   committed, written>>

\* The callback submits another engine.
RetryEngine(c) ==
    /\ engine[c] = "failed"
    /\ engine' = [engine EXCEPT ![c] = Submitted(c)]
    /\ UNCHANGED <<requestVars, executor, eventExecutor, numRetries, nRead, records,
                   workerVars, staticVars, isReplicationRunning, committed, written, faults>>

EngineEnds(c) ==
    /\ engine[c] = "closing"
    /\ engine' = [engine EXCEPT ![c] = "ended"]
    /\ numRetries' = [numRetries EXCEPT ![c] = 0]
    /\ nRead' = [nRead EXCEPT ![c] = 0]
    /\ connectorStopped
    /\ UNCHANGED <<requestVars, executor, eventExecutor, records,
                   workerVars, staticVars, committed, written, faults>>

--------------------------------------------------------------------------------
(* The worker of a capture, as in BatchPipeline but in fewer steps.           *)
(*                                                                            *)
(*   rest        between two runs: a pool that is shut down begins no other   *)
(*   top         at the top of the loop of a run, with nothing in hand        *)
(*   polled      with a batch that is not registered yet                      *)
(*   registered  in inFlightBatches, writing                                  *)
(*   visiting    written and acknowledged, looking at what was parked         *)
(*   dead        a fatal error has cancelled the schedule                     *)

Around == <<requestVars, executor, eventExecutor, engine, numRetries, nRead,
            isReplicationRunning>>

\* The worker is in a run, or the schedule begins one.
Round(c) == pc[c] = "top" \/ (pc[c] = "rest" /\ executor[c] = "open")

Poll(c) ==
    /\ Round(c)
    /\ currentBatch[c] = NoBatch
    /\ records[c] # <<>>
    /\ currentBatch' = [currentBatch EXCEPT ![c] = Head(records[c])]
    /\ records' = [records EXCEPT ![c] = Tail(@)]
    /\ pc' = [pc EXCEPT ![c] = "polled"]
    /\ UNCHANGED <<Around, toVisit, staticVars, committed, written, faults>>

Retry(c) ==
    /\ Round(c)
    /\ currentBatch[c] # NoBatch
    /\ pc' = [pc EXCEPT ![c] = "polled"]
    /\ UNCHANGED <<Around, records, currentBatch, toVisit, staticVars, committed, written, faults>>

\* addToBatchTimestamps: a batch of the same range takes the place of another's entry.
Register(c) ==
    /\ pc[c] = "polled"
    /\ inFlightBatches' = inFlightBatches \cup {currentBatch[c]}
    /\ pc' = [pc EXCEPT ![c] = "registered"]
    /\ UNCHANGED <<Around, records, currentBatch, toVisit, completedBatches,
                   outstandingBatches, recounted, committed, written, faults>>

Rows(b) == b.min .. b.max

\* An exception ends the run, with the rows written or not: a topic fails, or the
\* offset cannot be flushed because the engine that read the batch has ended.
\* The next run has the batch, and there is none if the pool is shut down.  A
\* topic that is not written without an exception keeps the run going.
Fail(c) ==
    /\ pc[c] \in {"polled", "registered"}
    /\ \E next \in {"rest"} \cup (IF pc[c] = "registered" THEN {"polled"} ELSE {}) :
          pc' = [pc EXCEPT ![c] = next]
    /\ \E rows \in {{}} \cup (IF pc[c] = "registered" THEN {Rows(currentBatch[c])} ELSE {}) :
          written' = written \cup rows
    /\ Fault
    /\ UNCHANGED <<Around, records, currentBatch, toVisit, staticVars, committed>>

FailFatally(c) ==
    /\ pc[c] \in {"polled", "registered"}
    /\ pc' = [pc EXCEPT ![c] = "dead"]
    /\ currentBatch' = [currentBatch EXCEPT ![c] = NoBatch]
    /\ Fault
    /\ UNCHANGED <<Around, records, toVisit, staticVars, committed, written>>

\* An entry of another range that may be older.
checkIfThereAreInflightRequests(b) ==
    \E x \in inFlightBatches : x # b /\ b.max > x.min

\* The monitor of the static synchronized methods is free.
Unlocked == \A c \in Captures : pc[c] # "visiting"

\* The batch is written and parked: the loop goes round with it.
Park(c) ==
    /\ pc[c] = "registered"
    /\ Unlocked
    /\ checkIfThereAreInflightRequests(currentBatch[c])
    /\ written' = written \cup Rows(currentBatch[c])
    /\ inFlightBatches' = inFlightBatches \ {currentBatch[c]}
    /\ completedBatches' = completedBatches \cup {currentBatch[c]}
    /\ pc' = [pc EXCEPT ![c] = "polled"]
    /\ UNCHANGED <<Around, records, currentBatch, toVisit, outstandingBatches, recounted,
                   committed, faults>>

\* Mutant: an acknowledged batch stays counted.
StillCounted == outstandingBatches

Released == IF outstandingBatches > 0 THEN outstandingBatches - 1 ELSE 0

\* acknowledgeRecords, through the committer of the engine that read the batch.
Acknowledge(b) ==
    /\ committed' = b.max
    /\ inFlightBatches' = inFlightBatches \ {b}
    /\ outstandingBatches' = Released

\* The batch is written and acknowledged.
Commit(c) ==
    /\ pc[c] = "registered"
    /\ Unlocked
    /\ ~checkIfThereAreInflightRequests(currentBatch[c])
    /\ written' = written \cup Rows(currentBatch[c])
    /\ Acknowledge(currentBatch[c])
    /\ pc' = [pc EXCEPT ![c] = "visiting"]
    /\ toVisit' = [toVisit EXCEPT ![c] = completedBatches]
    /\ UNCHANGED <<Around, records, currentBatch, completedBatches, recounted, faults>>

\* One step of completedBatches.forEach: the batch stays, or is acknowledged, or
\* its offset cannot be flushed, which ends the run with the batch of the worker
\* in its hands.
Visit(c) ==
    /\ pc[c] = "visiting"
    /\ \E b \in toVisit[c] :
          /\ toVisit' = [toVisit EXCEPT ![c] = @ \ {b}]
          /\ IF checkIfThereAreInflightRequests(b)
             THEN UNCHANGED <<staticVars, committed>>
             ELSE /\ Acknowledge(b)
                  /\ completedBatches' = completedBatches \ {b}
                  /\ recounted' = TRUE
    /\ UNCHANGED <<Around, records, pc, currentBatch, written, faults>>

VisitFails(c) ==
    /\ pc[c] = "visiting"
    /\ \E b \in toVisit[c] : ~checkIfThereAreInflightRequests(b)
    /\ pc' = [pc EXCEPT ![c] = "rest"]
    /\ toVisit' = [toVisit EXCEPT ![c] = {}]
    /\ recounted' = TRUE
    /\ Fault
    /\ UNCHANGED <<Around, records, currentBatch, inFlightBatches, completedBatches,
                   outstandingBatches, committed, written>>

\* The loop goes on unless the queue is empty.
Finish(c) ==
    /\ pc[c] = "visiting"
    /\ toVisit[c] = {}
    /\ pc' = [pc EXCEPT ![c] = IF records[c] # <<>> THEN "top" ELSE "rest"]
    /\ currentBatch' = [currentBatch EXCEPT ![c] = NoBatch]
    /\ UNCHANGED <<Around, records, toVisit, staticVars, committed, written, faults>>

--------------------------------------------------------------------------------

Serve(r) ==
    \/ Stop(r) \/ AwaitWorkers(r) \/ Close(r) \/ Closed(r)
    \/ Create(r) \/ SetUpWorkers(r) \/ SubmitEngine(r)

Run(c) == EngineStarts(c) \/ RetryEngine(c) \/ EngineEnds(c)

Work(c) ==
    \/ Poll(c) \/ Retry(c) \/ Register(c) \/ Park(c) \/ Commit(c) \/ Visit(c) \/ Finish(c)

Next ==
    \/ \E r \in Requests :
          \/ \E what \in {"stop", "start", "restart"} : Ask(r, what)
          \/ Serve(r)
    \/ SkipStart
    \/ \E c \in Captures :
          \/ Run(c) \/ EngineFails(c) \/ HandOff(c) \/ CommitControlRecord(c)
          \/ Work(c) \/ Fail(c) \/ FailFatally(c) \/ VisitFails(c)

Spec == Init /\ [][Next]_vars

(* Threads are scheduled, and a batch that fails is tried again.               *)
Fairness ==
    /\ \A r \in Requests : WF_vars(Serve(r))
    /\ \A c \in Captures :
          /\ WF_vars(Run(c))
          /\ WF_vars(Poll(c) \/ Retry(c) \/ Finish(c))
          /\ SF_vars(Register(c))
          /\ SF_vars(Park(c) \/ Commit(c))
          /\ SF_vars(Visit(c))

FairSpec == Spec /\ Fairness

--------------------------------------------------------------------------------
(* Properties                                                                 *)

\* Every variable has its type, and a queue stays within its capacity.
TypeOK ==
    /\ created \in 0 .. MaxCaptures
    /\ theCapture \in 0 .. created
    /\ request \in [Requests -> {"idle", "stop", "awaitWorkers", "awaitEvents", "closing",
                                 "create", "setup", "submit"}]
    /\ target \in [Requests -> 0 .. created]
    /\ follow \in [Requests -> {"none", "stop", "start", "restart"}]
    /\ executor \in [Captures -> {"null", "open", "shutdown"}]
    /\ eventExecutor \in [Captures -> {"open", "shutdown"}]
    /\ engine \in [Captures -> {"none", "submitted", "running", "closing", "failed", "ended"}]
    /\ numRetries \in [Captures -> Nat]
    /\ nRead \in [Captures -> 0 .. MaxPos]
    /\ records \in [Captures -> Seq(Batch)]
    /\ \A c \in Captures : Len(records[c]) <= MaxQueueSize
    /\ pc \in [Captures -> {"rest", "top", "polled", "registered", "visiting", "dead"}]
    /\ currentBatch \in [Captures -> Batch \cup {NoBatch}]
    /\ toVisit \in [Captures -> SUBSET Batch]
    /\ inFlightBatches \subseteq Batch
    /\ completedBatches \subseteq Batch
    /\ outstandingBatches \in Nat
    /\ isReplicationRunning \in BOOLEAN
    /\ committed \in 0 .. MaxPos
    /\ written \subseteq 1 .. MaxPos
    /\ asked \in 0 .. MaxAsked
    /\ faults \in 0 .. MaxFaults
    /\ stopped \subseteq Captures
    /\ raced \in BOOLEAN
    /\ recounted \in BOOLEAN

\* Restarts lose nothing: whatever lies at or before the committed offset, where
\* the next engine resumes, is in ClickHouse, although the workers of a stopped
\* capture may still be writing and acknowledging next to those of the current
\* one, through the same maps and the same counter.  The exception is a batch that
\* was parked: the capture that parked it still holds it and releases it as well,
\* so that the counter misses another batch from then on.
AtLeastOnce == recounted \/ 1 .. committed \subseteq written

\* A capture that stop() has left without an engine gets none any more: not from
\* a completion callback that wakes up later, and not from a thread that was in
\* the middle of setting the capture up.
StoppedForGood == \A c \in stopped : engine[c] \notin {"submitted", "running", "closing"}

Engines == {c \in Captures : Reading(c)}

\* Two engines never read at once, unless two requests overlapped or close() gave
\* up waiting: requests are not serialised, so two of them stop the same capture
\* and start one each, and only one of the two can be reached from then on.
OneEngine == raced \/ Cardinality(Engines) <= 1

\* The flag that admits an edit of the stored offset (POST /binlog) is down
\* exactly when no engine reads, with the same exceptions: an engine that ends
\* late lowers the flag of the one that has replaced it.
FlagTells == raced \/ (isReplicationRunning <=> Engines # {})

\* A request to start, and the start of the process, end with an engine, unless
\* another request overlapped.
EngineComes ==
    \A r \in Requests : request[r] = "submit" ~> (Engines # {} \/ raced)

\* A batch that nobody will take again: a fatal error has ended the schedule of
\* its worker, or its pool was shut down between two runs.
Forsaken(c) ==
    \/ pc[c] = "dead"
    \/ /\ executor[c] = "shutdown"
       /\ pc[c] = "rest"
       /\ currentBatch[c] # NoBatch \/ records[c] # <<>>

\* Everything that was read comes to rest, in every capture of the process, unless
\* a batch was left behind by a fatal error or by a stop: such a batch stays
\* counted, and its entry may hold newer ones back, for the life of the process.
EventuallyQuiescent ==
    []<>(~hasUnwrittenBatches \/ \E c \in Captures : Forsaken(c))
================================================================================
