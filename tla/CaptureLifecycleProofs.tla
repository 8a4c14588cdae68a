------------------------- MODULE CaptureLifecycleProofs -------------------------
(* Proofs about CaptureLifecycle, for any number of threads that start and    *)
(* stop, of captures, records and failures.                                   *)
EXTENDS CaptureLifecycle, FiniteSetTheorems, TLAPS

--------------------------------------------------------------------------------
(* Types                                                                      *)

\* What happens to the queue and the worker of a capture.
WorkerStep(c) ==
    \/ HandOff(c) \/ CommitControlRecord(c) \/ Work(c)
    \/ Fail(c) \/ FailFatally(c) \/ VisitFails(c)

\* Where a request has a capture in its hands.
WithTarget == {"awaitWorkers", "awaitEvents", "closing", "setup", "submit"}

\* Where a worker has a batch in its hands.
WithBatch == {"polled", "registered", "visiting"}

\* The static field is the last capture made, a stop finds one, and a thread in
\* the middle of a request, or of a batch, has it.
InHands ==
    /\ theCapture = created
    /\ \A r \in Requests :
          /\ request[r] = "stop" => created # 0
          /\ request[r] \in WithTarget => target[r] # 0
    /\ \A c \in Captures : pc[c] \in WithBatch => currentBatch[c] # NoBatch

TypeInv == TypeOK /\ InHands

LEMMA TypeInit == Init => TypeInv
<1> SUFFICES ASSUME Init PROVE TypeInv
  OBVIOUS
<1> USE LifecycleAssumption DEF LifecycleAssumption
<1>1. records \in [Captures -> Seq(Batch)] /\ \A c \in Captures : Len(records[c]) <= MaxQueueSize
  BY DEF Init
<1>2. /\ created \in 0 .. MaxCaptures /\ theCapture \in 0 .. created
      /\ target \in [Requests -> 0 .. created]
      /\ nRead \in [Captures -> 0 .. MaxPos] /\ committed \in 0 .. MaxPos
      /\ asked \in 0 .. MaxAsked /\ faults \in 0 .. MaxFaults
  BY DEF Init
<1>3. currentBatch \in [Captures -> Batch \cup {NoBatch}] /\ toVisit \in [Captures -> SUBSET Batch]
  BY DEF Init
<1>4. TypeOK
  BY <1>1, <1>2, <1>3 DEF Init, TypeOK
<1>5. InHands
  BY DEF Init, InHands, WithTarget, WithBatch
<1> QED
  BY <1>4, <1>5 DEF TypeInv

\* The records of a batch are records of the source.
LEMMA RowsInLog == \A b \in Batch : Rows(b) \subseteq 1 .. MaxPos
  BY LifecycleAssumption DEF LifecycleAssumption, Batch, Rows

\* Every step keeps the types.
LEMMA TypeNext ==
    ASSUME TypeInv, [Next]_vars
    PROVE  TypeInv'
<1> USE LifecycleAssumption, NoBatchAssumption DEF LifecycleAssumption, NoBatchAssumption
<1>1. CASE UNCHANGED vars
  BY <1>1 DEF vars, requestVars, workerVars, staticVars, TypeInv, TypeOK, InHands,
              WithTarget, WithBatch
<1>2. ASSUME NEW r \in Requests,
             (\E what \in {"stop", "start", "restart"} : Ask(r, what)) \/ Serve(r)
      PROVE  TypeInv'
  <2>1. ASSUME NEW what \in {"stop", "start", "restart"}, Ask(r, what)
        PROVE  TypeInv'
    BY <2>1 DEF Ask, workerVars, staticVars, TypeInv, TypeOK, InHands, WithTarget,
                WithBatch
  <2>2. CASE Stop(r)
    BY <2>2 DEF Stop, workerVars, staticVars, TypeInv, TypeOK, InHands, WithTarget,
                WithBatch
  <2>3. CASE AwaitWorkers(r)
    BY <2>3 DEF AwaitWorkers, workerVars, staticVars, TypeInv, TypeOK, InHands,
                WithTarget, WithBatch
  <2>4. CASE Close(r)
    BY <2>4 DEF Close, workerVars, staticVars, TypeInv, TypeOK, InHands, WithTarget,
                WithBatch
  <2>5. CASE Closed(r)
    <3>1. request[r] = "closing" /\ target[r] \in Captures
      BY <2>5, SMTT(30) DEF Closed, TypeInv, TypeOK, InHands, WithTarget, Captures
    <3>2. stopped' \subseteq Captures
      BY <2>5, <3>1 DEF Closed, TypeInv, TypeOK
    <3>3. raced' \in BOOLEAN
      BY <2>5, <3>1 DEF Closed, TypeInv, TypeOK
    <3>4. request'[r] = "stop" => created # 0
      BY <2>5, <3>1 DEF Closed, Returned, Captures, TypeInv, TypeOK
    <3>5. /\ request' \in [Requests -> {"idle", "stop", "awaitWorkers", "awaitEvents", "closing",
                                     "create", "setup", "submit"}]
          /\ target' \in [Requests -> 0 .. created]
          /\ follow' \in [Requests -> {"none", "stop", "start", "restart"}]
      BY <2>5 DEF Closed, Returned, TypeInv, TypeOK
    <3> QED
      BY <2>5, <3>1, <3>2, <3>3, <3>4, <3>5 DEF Closed, Returned, workerVars,
                                               staticVars, TypeInv, TypeOK, InHands,
                                               WithTarget, WithBatch
  <2>6. CASE Create(r)
    BY <2>6 DEF Create, NewCapture, workerVars, staticVars, TypeInv, TypeOK, InHands,
                WithTarget, WithBatch
  <2>7. CASE SetUpWorkers(r)
    BY <2>7 DEF SetUpWorkers, workerVars, staticVars, TypeInv, TypeOK, InHands,
                WithTarget, WithBatch
  <2>8. CASE SubmitEngine(r)
    <3>1. engine' \in [Captures -> {"none", "submitted", "running", "closing", "failed", "ended"}]
      BY <2>8 DEF SubmitEngine, Submitted, TypeInv, TypeOK
    <3>2. 0 \in 0 .. created
      BY <2>8 DEF TypeInv, TypeOK
    <3>3. target' \in [Requests -> 0 .. created]
      BY <2>8, <3>2 DEF SubmitEngine, TypeInv, TypeOK
    <3> QED
      BY <2>8, <3>1, <3>2, <3>3 DEF SubmitEngine, Submitted, workerVars, staticVars,
                                   TypeInv, TypeOK, InHands, WithTarget, WithBatch
  <2> QED
    BY <1>2, <2>1, <2>2, <2>3, <2>4, <2>5, <2>6, <2>7, <2>8 DEF Serve
<1>3. CASE SkipStart
  BY <1>3 DEF SkipStart, workerVars, staticVars, TypeInv, TypeOK, InHands, WithTarget,
              WithBatch
<1>4. ASSUME NEW c \in Captures,
             Run(c) \/ EngineFails(c) \/ WorkerStep(c)
      PROVE  TypeInv'
  <2>1. CASE EngineStarts(c)
    BY <2>1 DEF EngineStarts, requestVars, workerVars, staticVars, TypeInv, TypeOK,
                InHands, WithTarget, WithBatch
  <2>2. CASE RetryEngine(c)
    BY <2>2 DEF RetryEngine, Submitted, requestVars, workerVars, staticVars, TypeInv,
                TypeOK, InHands, WithTarget, WithBatch
  <2>3. CASE EngineEnds(c)
    <3>1. nRead' \in [Captures -> 0 .. MaxPos] /\ numRetries' \in [Captures -> Nat]
      BY <2>3 DEF EngineEnds, TypeInv, TypeOK
    <3>2. isReplicationRunning' \in BOOLEAN
      BY <2>3 DEF EngineEnds, connectorStopped
    <3> QED
      BY <2>3, <3>1, <3>2 DEF EngineEnds, connectorStopped, requestVars, workerVars,
                             staticVars, TypeInv, TypeOK, InHands, WithTarget,
                             WithBatch
  <2>4. CASE EngineFails(c)
    <3>1. nRead' \in [Captures -> 0 .. MaxPos]
      BY <2>4 DEF EngineFails, TypeInv, TypeOK
    <3>2. 0 \in Nat /\ numRetries[c] + 1 \in Nat
      BY <2>4 DEF TypeInv, TypeOK
    <3>3. numRetries' \in [Captures -> Nat]
      <4>1. numRetries \in [Captures -> Nat]
        BY DEF TypeInv, TypeOK
      <4>2. \/ numRetries' = [numRetries EXCEPT ![c] = numRetries[c] + 1]
            \/ numRetries' = [numRetries EXCEPT ![c] = 0]
        BY <2>4 DEF EngineFails
      <4> QED
        BY <3>2, <4>1, <4>2
    <3>4. engine' \in [Captures ->
                         {"none", "submitted", "running", "closing", "failed", "ended"}]
      <4>1. engine \in [Captures ->
                         {"none", "submitted", "running", "closing", "failed", "ended"}]
        BY DEF TypeInv, TypeOK
      <4>2. \/ engine' = [engine EXCEPT ![c] = "failed"]
            \/ engine' = [engine EXCEPT ![c] = "ended"]
        BY <2>4 DEF EngineFails
      <4> QED
        BY <4>1, <4>2
    <3>5. isReplicationRunning' \in BOOLEAN
      BY <2>4 DEF EngineFails, connectorStopped
    <3>6. faults' \in 0 .. MaxFaults
      BY <2>4 DEF EngineFails, Fault, TypeInv, TypeOK
    <3> QED
      BY <2>4, <3>1, <3>2, <3>3, <3>4, <3>5, <3>6 DEF EngineFails, connectorStopped,
                                                     Fault, requestVars, workerVars,
                                                     staticVars, TypeInv, TypeOK,
                                                     InHands, WithTarget, WithBatch
  <2>5. CASE HandOff(c)
    <3>1. PICK last \in nRead[c] + 1 .. MaxPos : HandOff(c)!3!(last)
      BY <2>5 DEF HandOff
    <3>2. nRead[c] \in 0 .. MaxPos /\ records[c] \in Seq(Batch) /\ Len(records[c]) < MaxQueueSize
      BY <2>5 DEF HandOff, QueueHasRoom, TypeInv, TypeOK
    <3>3. [min |-> nRead[c] + 1, max |-> last] \in Batch
      BY <3>2 DEF Batch
    <3>4. /\ Append(records[c], [min |-> nRead[c] + 1, max |-> last]) \in Seq(Batch)
          /\ Len(Append(records[c], [min |-> nRead[c] + 1, max |-> last])) <= MaxQueueSize
      BY <3>2, <3>3
    <3>5. /\ records' \in [Captures -> Seq(Batch)]
          /\ \A d \in Captures : Len(records'[d]) <= MaxQueueSize
      BY <3>1, <3>4 DEF TypeInv, TypeOK
    <3>6. nRead' \in [Captures -> 0 .. MaxPos] /\ outstandingBatches' \in Nat
      BY <2>5, <3>1, <3>2 DEF HandOff, TypeInv, TypeOK
    <3> QED
      BY <2>5, <3>5, <3>6 DEF HandOff, requestVars, workerVars, TypeInv, TypeOK, InHands,
                           WithTarget, WithBatch
  <2>6. CASE CommitControlRecord(c)
    BY <2>6 DEF CommitControlRecord, Reading, requestVars, workerVars, staticVars,
                TypeInv, TypeOK, InHands, WithTarget, WithBatch
  <2>7. CASE Poll(c)
    BY <2>7 DEF Poll, Round, Around, staticVars, requestVars, TypeInv, TypeOK,
                InHands, WithTarget, WithBatch
  <2>8. CASE Retry(c)
    BY <2>8 DEF Retry, Round, Around, staticVars, requestVars, TypeInv, TypeOK,
                InHands, WithTarget, WithBatch
  <2>9. CASE Register(c)
    BY <2>9 DEF Register, Around, requestVars, TypeInv, TypeOK, InHands, WithTarget,
                WithBatch
  <2>10. CASE Park(c)
    <3>1. currentBatch[c] \in Batch
      BY <2>10 DEF Park, InHands, WithBatch, TypeInv, TypeOK
    <3>2. written' \subseteq 1 .. MaxPos
      BY <2>10, <3>1, RowsInLog DEF Park, TypeInv, TypeOK
    <3>3. inFlightBatches' \subseteq Batch /\ completedBatches' \subseteq Batch
      BY <2>10, <3>1 DEF Park, TypeInv, TypeOK
    <3> QED
      BY <2>10, <3>1, <3>2, <3>3 DEF Park, Rows, Around, requestVars, TypeInv, TypeOK,
                                   InHands, WithTarget, WithBatch
  <2>11. CASE Commit(c)
    <3>1. currentBatch[c] \in Batch
      BY <2>11 DEF Commit, InHands, WithBatch, TypeInv, TypeOK
    <3>2. written' \subseteq 1 .. MaxPos
      BY <2>11, <3>1, RowsInLog DEF Commit, TypeInv, TypeOK
    <3>3. committed' \in 0 .. MaxPos
      BY <2>11, <3>1 DEF Commit, Acknowledge, Batch, TypeInv, TypeOK
    <3>4. outstandingBatches' \in Nat
      BY <2>11, <3>1 DEF Commit, Acknowledge, Released, TypeInv, TypeOK
    <3>5. toVisit' \in [Captures -> SUBSET Batch]
      BY <2>11, <3>1 DEF Commit, TypeInv, TypeOK
    <3> QED
      BY <2>11, <3>1, <3>2, <3>3, <3>4, <3>5 DEF Commit, Rows, Acknowledge, Around,
                                               Released, requestVars, TypeInv, TypeOK,
                                               InHands, WithTarget, WithBatch
  <2>12. CASE Visit(c)
    <3>1. PICK b \in toVisit[c] : Visit(c)!2!(b)
      BY <2>12 DEF Visit
    <3>2. b \in Batch /\ toVisit' \in [Captures -> SUBSET Batch]
      BY <3>1 DEF TypeInv, TypeOK
    <3>3. /\ inFlightBatches' \subseteq Batch /\ completedBatches' \subseteq Batch
          /\ committed' \in 0 .. MaxPos /\ outstandingBatches' \in Nat
      BY <3>1, <3>2 DEF Acknowledge, Released, Batch, staticVars, TypeInv, TypeOK
    <3>4. recounted' \in BOOLEAN
      BY <3>1 DEF staticVars, TypeInv, TypeOK
    <3> QED
      BY <2>12, <3>2, <3>3, <3>4 DEF Visit, Around, requestVars, TypeInv, TypeOK, InHands,
                           WithTarget, WithBatch
  <2>13. CASE Finish(c)
    BY <2>13 DEF Finish, Around, staticVars, requestVars, TypeInv, TypeOK, InHands,
                 WithTarget, WithBatch
  <2>14. CASE Fail(c)
    <3>1. currentBatch[c] \in Batch
      BY <2>14 DEF Fail, InHands, WithBatch, TypeInv, TypeOK
    <3>2. written' \subseteq 1 .. MaxPos
      <4>1. PICK rows \in {{}} \cup (IF pc[c] = "registered"
                                    THEN {Rows(currentBatch[c])} ELSE {}) :
               written' = written \cup rows
        BY <2>14 DEF Fail
      <4>2. rows \subseteq 1 .. MaxPos
        BY <3>1, RowsInLog, <4>1
      <4> QED
        BY <4>1, <4>2 DEF TypeInv, TypeOK
    <3>3. pc' \in [Captures -> {"rest", "top", "polled", "registered", "visiting", "dead"}]
      BY <2>14 DEF Fail, TypeInv, TypeOK
    <3>4. \A d \in Captures : pc'[d] \in WithBatch => currentBatch[d] # NoBatch
      BY <2>14 DEF Fail, InHands, WithBatch, TypeInv, TypeOK
    <3>5. faults' \in 0 .. MaxFaults
      BY <2>14 DEF Fail, Fault, TypeInv, TypeOK
    <3> QED
      BY <2>14, <3>1, <3>2, <3>3, <3>4, <3>5 DEF Fail, Fault, Rows, Around, staticVars,
                                               requestVars, TypeInv, TypeOK, InHands,
                                               WithTarget, WithBatch
  <2>15. CASE FailFatally(c)
    BY <2>15 DEF FailFatally, Fault, Around, staticVars, requestVars, TypeInv, TypeOK,
                 InHands, WithTarget, WithBatch
  <2>16. CASE VisitFails(c)
    BY <2>16 DEF VisitFails, Fault, Around, staticVars, requestVars, TypeInv, TypeOK,
                 InHands, WithTarget, WithBatch
  <2> QED
    BY <1>4, <2>1, <2>2, <2>3, <2>4, <2>5, <2>6, <2>7, <2>8, <2>9, <2>10, <2>11,
             <2>12, <2>13, <2>14, <2>15, <2>16 DEF Run, WorkerStep, Work
<1> QED
  BY <1>1, <1>2, <1>3, <1>4 DEF Next, WorkerStep

\* Every variable of the captures, the requests and what they share has its type,
\* and a queue stays within its capacity.
THEOREM TypeCorrect == Spec => []TypeOK
<1>1. Init => TypeInv
  BY TypeInit
<1>2. TypeInv /\ [Next]_vars => TypeInv'
  BY TypeNext
<1>3. TypeInv => TypeOK
  BY DEF TypeInv
<1> QED
  BY <1>1, <1>2, <1>3, PTL DEF Spec

\* The queue and the worker of a capture leave requests and engines alone.
LEMMA WorkersKeep ==
    ASSUME NEW c \in Captures, WorkerStep(c)
    PROVE  UNCHANGED <<requestVars, eventExecutor, engine, isReplicationRunning>>
<1>1. CASE HandOff(c)
  BY <1>1 DEF HandOff
<1>2. CASE CommitControlRecord(c)
  BY <1>2 DEF CommitControlRecord
<1>3. CASE Poll(c)
  BY <1>3 DEF Poll, Around
<1>4. CASE Retry(c)
  BY <1>4 DEF Retry, Around
<1>5. CASE Register(c)
  BY <1>5 DEF Register, Around
<1>6. CASE Park(c)
  BY <1>6 DEF Park, Around
<1>7. CASE Commit(c)
  BY <1>7 DEF Commit, Around
<1>8. CASE Visit(c)
  BY <1>8 DEF Visit, Around
<1>9. CASE Finish(c)
  BY <1>9 DEF Finish, Around
<1>10. CASE Fail(c)
  BY <1>10 DEF Fail, Around
<1>11. CASE FailFatally(c)
  BY <1>11 DEF FailFatally, Around
<1>12. CASE VisitFails(c)
  BY <1>12 DEF VisitFails, Around
<1> QED
  BY <1>1, <1>2, <1>3, <1>4, <1>5, <1>6, <1>7, <1>8, <1>9, <1>10, <1>11, <1>12 DEF WorkerStep, Work

--------------------------------------------------------------------------------
(* A capture that has been stopped                                            *)

\* What the rest is about: requests, and the engines that they stop and start.
Shape ==
    /\ created \in Nat /\ theCapture = created
    /\ request \in [Requests -> {"idle", "stop", "awaitWorkers", "awaitEvents", "closing",
                                 "create", "setup", "submit"}]
    /\ target \in [Requests -> Nat]
    /\ eventExecutor \in [Captures -> {"open", "shutdown"}]
    /\ engine \in [Captures -> {"none", "submitted", "running", "closing", "failed", "ended"}]
    /\ \A r \in Requests : request[r] \in WithTarget => target[r] \in Captures
    /\ \A r \in Requests : request[r] = "stop" => created \in Captures
    /\ \A c \in Captures : c \in Nat
    /\ created < MaxCaptures => created + 1 \in Captures
    /\ created # 0 => created \in Captures
    /\ 0 \notin Captures
    /\ isReplicationRunning \in BOOLEAN /\ raced \in BOOLEAN

LEMMA TypeShape == TypeInv => Shape
<1> SUFFICES ASSUME TypeInv PROVE Shape
  OBVIOUS
<1>1. /\ created \in 0 .. MaxCaptures /\ theCapture = created /\ MaxCaptures \in Nat
      /\ target \in [Requests -> 0 .. created]
  BY LifecycleAssumption DEF LifecycleAssumption, TypeInv, TypeOK, InHands
<1>2. \A r \in Requests : request[r] \in WithTarget => target[r] \in Captures
  BY <1>1 DEF TypeInv, InHands, Captures
<1>3. \A r \in Requests : request[r] = "stop" => created \in Captures
  BY <1>1 DEF TypeInv, InHands, Captures
<1>4. /\ \A c \in Captures : c \in Nat
      /\ created < MaxCaptures => created + 1 \in Captures
      /\ created # 0 => created \in Captures
      /\ 0 \notin Captures
  BY <1>1 DEF Captures
<1>5. target \in [Requests -> Nat] /\ created \in Nat
  BY <1>1
<1> QED
  BY <1>1, <1>2, <1>3, <1>4, <1>5 DEF TypeInv, TypeOK, Shape

Active == {"submitted", "running", "closing"}

\* The thread of its engine is shut down and has none to run.
Done(c) == eventExecutor[c] = "shutdown" /\ engine[c] \notin Active

\* A stop shuts the thread of the engine down before it waits, and asks the engine
\* to end only when none is submitted; from then on every other is rejected.
StopInv ==
    /\ \A c \in stopped : Done(c)
    /\ \A r \in Requests :
          /\ request[r] \in {"awaitEvents", "closing"} => eventExecutor[target[r]] = "shutdown"
          /\ request[r] = "closing" => engine[target[r]] \notin {"submitted", "running"}

LEMMA StopInit == Init => StopInv
  BY DEF Init, StopInv

\* Every step leaves what has been stopped without an engine.
LEMMA StopNext ==
    ASSUME TypeInv, StopInv, [Next]_vars
    PROVE  StopInv'
<1>0. Shape
  BY TypeShape
<1>1. CASE UNCHANGED vars
  BY <1>1 DEF vars, requestVars, workerVars, staticVars, Shape, WithTarget, StopInv,
              Done, Active
<1>2. ASSUME NEW r \in Requests,
             (\E what \in {"stop", "start", "restart"} : Ask(r, what)) \/ Serve(r)
      PROVE  StopInv'
  <2>1. ASSUME NEW what \in {"stop", "start", "restart"}, Ask(r, what)
        PROVE  StopInv'
    BY <2>1, <1>0 DEF Ask, workerVars, staticVars, Shape, WithTarget, StopInv, Done,
                      Active
  <2>2. CASE Stop(r)
    BY <2>2, <1>0 DEF Stop, workerVars, staticVars, Shape, WithTarget, StopInv, Done,
                      Active
  <2>3. CASE AwaitWorkers(r)
    BY <2>3, <1>0 DEF AwaitWorkers, workerVars, staticVars, Shape, WithTarget,
                      StopInv, Done, Active
  <2>4. CASE Close(r)
    BY <2>4, <1>0 DEF Close, workerVars, staticVars, Shape, WithTarget, StopInv, Done,
                      Active
  <2>5. CASE Closed(r)
    BY <2>5, <1>0 DEF Closed, Returned, workerVars, staticVars, Shape, WithTarget,
                      StopInv, Done, Active
  <2>6. CASE Create(r)
    BY <2>6, <1>0 DEF Create, NewCapture, workerVars, staticVars, Shape, WithTarget,
                      StopInv, Done, Active
  <2>7. CASE SetUpWorkers(r)
    BY <2>7, <1>0 DEF SetUpWorkers, workerVars, staticVars, Shape, WithTarget,
                      StopInv, Done, Active
  <2>8. CASE SubmitEngine(r)
    BY <2>8, <1>0 DEF SubmitEngine, Submitted, workerVars, staticVars, Shape,
                      WithTarget, StopInv, Done, Active
  <2> QED
    BY <1>2, <2>1, <2>2, <2>3, <2>4, <2>5, <2>6, <2>7, <2>8 DEF Serve
<1>3. CASE SkipStart
  BY <1>3, <1>0 DEF SkipStart, workerVars, staticVars, Shape, WithTarget, StopInv,
                    Done, Active
<1>4. ASSUME NEW c \in Captures, Run(c) \/ EngineFails(c)
      PROVE  StopInv'
  <2>1. CASE EngineStarts(c)
    BY <2>1, <1>0 DEF EngineStarts, requestVars, workerVars, staticVars, Shape,
                      WithTarget, StopInv, Done, Active
  <2>2. CASE RetryEngine(c)
    BY <2>2, <1>0 DEF RetryEngine, Submitted, requestVars, workerVars, staticVars,
                      Shape, WithTarget, StopInv, Done, Active
  <2>3. CASE EngineEnds(c)
    BY <2>3, <1>0 DEF EngineEnds, connectorStopped, requestVars, workerVars,
                      staticVars, Shape, WithTarget, StopInv, Done, Active
  <2>4. CASE EngineFails(c)
    <3>1. \A d \in Captures : engine'[d] = engine[d] \/ engine'[d] \notin Active
      BY <2>4, <1>0 DEF EngineFails, Shape, Active
    <3>2. UNCHANGED <<request, target, stopped, eventExecutor>>
      BY <2>4 DEF EngineFails, requestVars
    <3>3. stopped \subseteq Captures
      BY DEF TypeInv, TypeOK
    <3>4. \A d \in stopped : Done(d)'
      BY <3>1, <3>2, <3>3 DEF StopInv, Done
    <3>5. \A r \in Requests :
             request[r] = "closing" => engine'[target[r]] \notin {"submitted", "running"}
      BY <1>0, <3>1 DEF StopInv, Shape, WithTarget, Active
    <3> QED
      BY <3>2, <3>4, <3>5 DEF StopInv
  <2> QED
    BY <1>4, <2>1, <2>2, <2>3, <2>4 DEF Run
<1>5. CASE \E c \in Captures : WorkerStep(c)
  BY <1>5, WorkersKeep DEF requestVars, Shape, WithTarget, StopInv, Done, Active
<1> QED
  BY <1>1, <1>2, <1>3, <1>4, <1>5 DEF Next, WorkerStep

\* A capture that a stop has left without an engine gets none any more, whichever
\* callbacks wake up late and however many requests overlap.
THEOREM StopsForGood == Spec => []StoppedForGood
<1>1. Init => TypeInv /\ StopInv
  BY TypeInit, StopInit
<1>2. TypeInv /\ StopInv /\ [Next]_vars => (TypeInv /\ StopInv)'
  BY TypeNext, StopNext
<1>3. StopInv => StoppedForGood
  BY DEF StopInv, StoppedForGood, Done, Active
<1> QED
  BY <1>1, <1>2, <1>3, PTL DEF Spec

--------------------------------------------------------------------------------
(* One request at a time                                                      *)

\* Without an overlap only one thread is at a request, with the current capture;
\* every other capture is done or not made yet, and so is the current one before
\* the next is made.
AloneInv ==
    /\ \A r1, r2 \in Busy : r1 = r2
    /\ \A c \in Captures : c < created => Done(c)
    /\ \A c \in Captures : c > created => engine[c] = "none"
    /\ \A r \in Requests :
          /\ request[r] \in WithTarget => target[r] = created
          /\ request[r] = "create" => created = 0 \/ Done(created)
          /\ request[r] \in {"setup", "submit"} => engine[created] = "none"

\* The flag is up exactly when the current capture reads.
FlagInv == isReplicationRunning <=> (created # 0 /\ Reading(created))

OneInv == raced \/ (AloneInv /\ FlagInv)

LEMMA OneInit == Init => OneInv
  BY LifecycleAssumption DEF LifecycleAssumption, Init, OneInv, AloneInv, FlagInv, Busy, WithTarget

\* Every step keeps the requests apart, unless they overlap.
LEMMA OneNext ==
    ASSUME TypeInv, StopInv, OneInv, [Next]_vars
    PROVE  OneInv'
<1>0. Shape
  BY TypeShape
<1>1. CASE UNCHANGED vars
  BY <1>1 DEF vars, requestVars, workerVars, staticVars, Shape, WithTarget, StopInv,
              OneInv, AloneInv, FlagInv, Busy, Reading, Done, Active
<1>2. ASSUME NEW r \in Requests,
             (\E what \in {"stop", "start", "restart"} : Ask(r, what)) \/ Serve(r)
      PROVE  OneInv'
  <2>1. ASSUME NEW what \in {"stop", "start", "restart"}, Ask(r, what)
        PROVE  OneInv'
    <3>1. CASE Busy # {}
      BY <2>1, <3>1 DEF Ask, OneInv
    <3>2. CASE Busy = {}
      <4>1. Busy' = {r}
        BY <2>1, <3>2, <1>0 DEF Ask, Busy, Shape
      <4>2. UNCHANGED <<created, raced, engine, eventExecutor, isReplicationRunning, target>>
        BY <2>1, <3>2, <1>0 DEF Ask, Shape
      <4>3. request'[r] = "stop" /\ \A s \in Requests : s # r => request'[s] = request[s]
        BY <2>1, <1>0 DEF Ask, Shape
      <4> QED
        BY <1>0, <4>1, <4>2, <4>3 DEF OneInv, AloneInv, FlagInv, Done, Active, Reading, WithTarget,
                           Shape
    <3> QED
      BY <3>1, <3>2
  <2>2. CASE Stop(r)
    BY <2>2, <1>0 DEF Stop, workerVars, staticVars, Shape, WithTarget, StopInv,
                      OneInv, AloneInv, FlagInv, Busy, Reading, Done, Active
  <2>3. CASE AwaitWorkers(r)
    BY <2>3, <1>0 DEF AwaitWorkers, workerVars, staticVars, Shape, WithTarget,
                      StopInv, OneInv, AloneInv, FlagInv, Busy, Reading, Done, Active
  <2>4. CASE Close(r)
    BY <2>4, <1>0 DEF Close, workerVars, staticVars, Shape, WithTarget, StopInv,
                      OneInv, AloneInv, FlagInv, Busy, Reading, Done, Active
  <2>5. CASE Closed(r)
    BY <2>5, <1>0 DEF Closed, Returned, workerVars, staticVars, Shape, WithTarget,
                      StopInv, OneInv, AloneInv, FlagInv, Busy, Reading, Done, Active
  <2>6. CASE Create(r)
    BY <2>6, <1>0 DEF Create, NewCapture, workerVars, staticVars, Shape, WithTarget,
                      StopInv, OneInv, AloneInv, FlagInv, Busy, Reading, Done, Active
  <2>7. CASE SetUpWorkers(r)
    BY <2>7, <1>0 DEF SetUpWorkers, workerVars, staticVars, Shape, WithTarget,
                      StopInv, OneInv, AloneInv, FlagInv, Busy, Reading, Done, Active
  <2>8. CASE SubmitEngine(r)
    BY <2>8, <1>0 DEF SubmitEngine, Submitted, workerVars, staticVars, Shape,
                      WithTarget, StopInv, OneInv, AloneInv, FlagInv, Busy, Reading,
                      Done, Active
  <2> QED
    BY <1>2, <2>1, <2>2, <2>3, <2>4, <2>5, <2>6, <2>7, <2>8 DEF Serve
<1>3. CASE SkipStart
  BY <1>3, <1>0 DEF SkipStart, workerVars, staticVars, Shape, WithTarget, StopInv,
                    OneInv, AloneInv, FlagInv, Busy, Reading, Done, Active
<1>4. ASSUME NEW c \in Captures, Run(c) \/ EngineFails(c)
      PROVE  OneInv'
  <2>1. CASE EngineStarts(c)
    BY <2>1, <1>0 DEF EngineStarts, requestVars, workerVars, staticVars, Shape,
                      WithTarget, StopInv, OneInv, AloneInv, FlagInv, Busy, Reading,
                      Done, Active
  <2>2. CASE RetryEngine(c)
    BY <2>2, <1>0 DEF RetryEngine, Submitted, requestVars, workerVars, staticVars,
                      Shape, WithTarget, StopInv, OneInv, AloneInv, FlagInv, Busy,
                      Reading, Done, Active
  <2>3. CASE EngineEnds(c)
    BY <2>3, <1>0 DEF EngineEnds, connectorStopped, requestVars, workerVars,
                      staticVars, Shape, WithTarget, StopInv, OneInv, AloneInv,
                      FlagInv, Busy, Reading, Done, Active
  <2>4. CASE EngineFails(c)
    BY <2>4, <1>0 DEF EngineFails, connectorStopped, Fault, requestVars, workerVars,
                      staticVars, Shape, WithTarget, StopInv, OneInv, AloneInv,
                      FlagInv, Busy, Reading, Done, Active
  <2> QED
    BY <1>4, <2>1, <2>2, <2>3, <2>4 DEF Run
<1>5. CASE \E c \in Captures : WorkerStep(c)
  BY <1>5, WorkersKeep DEF requestVars, Shape, WithTarget, StopInv, OneInv, AloneInv,
                           FlagInv, Busy, Reading, Done, Active
<1> QED
  BY <1>1, <1>2, <1>3, <1>4, <1>5 DEF Next, WorkerStep

\* Without an overlap the engine of the current capture is the only one that reads.
LEMMA CurrentOnly ==
    ASSUME TypeInv, OneInv, ~raced
    PROVE  Engines = IF created # 0 /\ Reading(created) THEN {created} ELSE {}
<1>1. \A c \in Captures : c \in Engines => c = created
  BY DEF OneInv, AloneInv, Engines, Reading, Done, Active, Captures, TypeInv, TypeOK
<1>2. created # 0 => created \in Captures
  BY LifecycleAssumption DEF LifecycleAssumption, TypeInv, TypeOK, Captures
<1>3. 0 \notin Captures
  BY DEF Captures
<1> QED
  BY <1>1, <1>2, <1>3 DEF Engines

LEMMA OneStep == TypeInv /\ StopInv /\ OneInv /\ [Next]_vars => (TypeInv /\ StopInv /\ OneInv)'
  BY TypeNext, StopNext, OneNext

\* Two engines never read at once unless two requests overlapped or a stop gave up
\* waiting, for any number of threads, captures and failures.
THEOREM OneEngineReads == Spec => []OneEngine
<1>1. Init => TypeInv /\ StopInv /\ OneInv
  BY TypeInit, StopInit, OneInit
<1>2. TypeInv /\ OneInv => OneEngine
  <2>1. SUFFICES ASSUME TypeInv, OneInv, ~raced PROVE Cardinality(Engines) <= 1
    BY DEF OneEngine
  <2>2. Cardinality({}) = 0 /\ Cardinality({created}) = 1
    BY FS_EmptySet, FS_Singleton
  <2>3. Engines = {} \/ Engines = {created}
    BY <2>1, CurrentOnly
  <2> QED
    BY <2>2, <2>3
<1> QED
  BY <1>1, <1>2, OneStep, PTL DEF Spec

\* The flag that admits an edit of the stored offset is down exactly when no engine
\* reads, with the same exceptions.
THEOREM FlagIsTrue == Spec => []FlagTells
<1>1. Init => TypeInv /\ StopInv /\ OneInv
  BY TypeInit, StopInit, OneInit
<1>2. TypeInv /\ OneInv => FlagTells
  BY CurrentOnly DEF OneInv, FlagInv, FlagTells
<1> QED
  BY <1>1, <1>2, OneStep, PTL DEF Spec

--------------------------------------------------------------------------------
(* Nothing is lost                                                            *)

\* What this part is about: queues, hands and what is written.
Store ==
    /\ records \in [Captures -> Seq(Batch)]
    /\ \A c \in Captures : Len(records[c]) <= MaxQueueSize
    /\ pc \in [Captures -> {"rest", "top", "polled", "registered", "visiting", "dead"}]
    /\ currentBatch \in [Captures -> Batch \cup {NoBatch}]
    /\ \A c \in Captures : pc[c] \in WithBatch => currentBatch[c] \in Batch
    /\ nRead \in [Captures -> 0 .. MaxPos]
    /\ outstandingBatches \in Nat
    /\ committed \in 0 .. MaxPos

LEMMA TypeStore == TypeInv => Store
  BY DEF TypeInv, TypeOK, InHands, Store

\* A batch that its worker has not acknowledged, or that died with the worker.
InHand(c) == pc[c] = "dead" \/ (currentBatch[c] # NoBatch /\ pc[c] # "visiting")

\* The batches that are still to be released, by their place: in a queue or in a
\* hand, which is place 0.
Owed ==
    {t \in Captures \X (0 .. MaxQueueSize) :
       IF t[2] = 0 THEN InHand(t[1]) ELSE t[2] <= Len(records[t[1]])}

\* A record is written, with the worker, or in the queue before an index.
Covered(c, p, i) ==
    \/ p \in written
    \/ currentBatch[c] # NoBatch /\ p \in Rows(currentBatch[c])
    \/ \E j \in 1 .. Len(records[c]) : j < i /\ p \in Rows(records[c][j])

\* Until its worker dies, a capture takes its batches in the order of the source:
\* all that lies before one of them is written or comes first.
InOrder(c) ==
    pc[c] # "dead" =>
       /\ currentBatch[c] # NoBatch => 1 .. currentBatch[c].min - 1 \subseteq written
       /\ pc[c] = "visiting" => Rows(currentBatch[c]) \subseteq written
       /\ \A i \in 1 .. Len(records[c]) :
             \A p \in 1 .. records[c][i].min - 1 : Covered(c, p, i)
       /\ Reading(c) => \A p \in 1 .. nRead[c] : Covered(c, p, Len(records[c]) + 1)

\* The counter is exact until a parked batch is released a second time.
LossInv ==
    recounted \/
       /\ outstandingBatches = Cardinality(Owed)
       /\ 1 .. committed \subseteq written
       /\ \A c \in Captures : InOrder(c)

LEMMA OwedFinite == IsFiniteSet(Owed) /\ Cardinality(Owed) \in Nat
<1>1. IsFiniteSet(Captures) /\ IsFiniteSet(0 .. MaxQueueSize)
  BY FS_Interval, LifecycleAssumption DEF LifecycleAssumption, Captures
<1>2. IsFiniteSet(Captures \X (0 .. MaxQueueSize))
  BY <1>1, FS_Product
<1>3. Owed \subseteq Captures \X (0 .. MaxQueueSize)
  BY DEF Owed
<1> QED
  BY <1>2, <1>3, FS_Subset, FS_CardinalityType

\* Steps that keep the length of every queue, and what is in hand, owe the same.
LEMMA OwedKept ==
    ASSUME \A c \in Captures : Len(records'[c]) = Len(records[c]) /\ (InHand(c)' <=> InHand(c))
    PROVE  Owed' = Owed
  BY DEF Owed

\* A capture that keeps its queue and its batch stays in order while more rows are
\* written.
LEMMA OrderKept ==
    ASSUME NEW c \in Captures, InOrder(c),
           records'[c] = records[c], currentBatch'[c] = currentBatch[c],
           pc[c] = "dead" => pc'[c] = "dead",
           pc'[c] = "visiting" => pc[c] = "visiting",
           written \subseteq written',
           Reading(c)' => Reading(c) /\ nRead'[c] = nRead[c]
    PROVE  InOrder(c)'
<1>1. \A p, i : Covered(c, p, i) => Covered(c, p, i)'
  BY DEF Covered
<1> QED
  BY <1>1 DEF InOrder

LEMMA LossInit == Init => LossInv
<1> SUFFICES ASSUME Init PROVE LossInv
  OBVIOUS
<1>1. Owed = {}
  BY DEF Init, Owed, InHand
<1>2. \A c \in Captures : InOrder(c)
  BY DEF Init, InOrder, Reading
<1>3. 1 .. committed \subseteq written
  BY DEF Init
<1> QED
  BY <1>1, <1>2, <1>3, FS_EmptySet DEF Init, LossInv

\* Requests, and engines that fail, end or are submitted, touch no batch.
LEMMA RequestsKeepBatches ==
    ASSUME Shape,
           \/ \E r \in Requests :
                 (\E what \in {"stop", "start", "restart"} : Ask(r, what)) \/ Serve(r)
           \/ SkipStart
           \/ \E c \in Captures : RetryEngine(c) \/ EngineEnds(c) \/ EngineFails(c)
    PROVE  /\ UNCHANGED <<records, workerVars, staticVars, committed, written>>
           /\ \A c \in Captures : Reading(c)' => Reading(c) /\ nRead'[c] = nRead[c]
<1>1. ASSUME NEW r \in Requests,
             (\E what \in {"stop", "start", "restart"} : Ask(r, what)) \/ Serve(r)
      PROVE  /\ UNCHANGED <<records, workerVars, staticVars, committed, written, nRead>>
             /\ \A c \in Captures : Reading(c)' => Reading(c)
  <2>1. CASE \E what \in {"stop", "start", "restart"} : Ask(r, what)
    BY <2>1 DEF Ask, Reading
  <2>2. CASE Stop(r)
    BY <2>2 DEF Stop, Reading
  <2>3. CASE AwaitWorkers(r)
    BY <2>3 DEF AwaitWorkers, Reading
  <2>4. CASE Close(r)
    BY <2>4, Shape DEF Close, Reading, Shape, WithTarget
  <2>5. CASE Closed(r)
    BY <2>5 DEF Closed, Reading
  <2>6. CASE Create(r)
    BY <2>6 DEF Create, Reading
  <2>7. CASE SetUpWorkers(r)
    BY <2>7 DEF SetUpWorkers, Reading
  <2>8. CASE SubmitEngine(r)
    BY <2>8, Shape DEF SubmitEngine, Submitted, Reading, Shape, WithTarget
  <2> QED
    BY <1>1, <2>1, <2>2, <2>3, <2>4, <2>5, <2>6, <2>7, <2>8 DEF Serve
<1>2. CASE SkipStart
  BY <1>2 DEF SkipStart, Reading
<1>3. ASSUME NEW c \in Captures, RetryEngine(c) \/ EngineEnds(c) \/ EngineFails(c)
      PROVE  /\ UNCHANGED <<records, workerVars, staticVars, committed, written>>
             /\ \A d \in Captures : Reading(d)' => Reading(d) /\ nRead'[d] = nRead[d]
  <2>1. CASE RetryEngine(c)
    BY <2>1, Shape DEF RetryEngine, Submitted, Reading, Shape
  <2>2. CASE EngineEnds(c)
    <3>1. \A d \in Captures : d # c => engine'[d] = engine[d] /\ nRead'[d] = nRead[d]
      BY <2>2, Shape DEF EngineEnds, Shape
    <3>2. engine'[c] = "ended"
      BY <2>2, Shape DEF EngineEnds, Shape
    <3> QED
      BY <2>2, <3>1, <3>2 DEF EngineEnds, Reading
  <2>3. CASE EngineFails(c)
    <3>1. \A d \in Captures : d # c => engine'[d] = engine[d] /\ nRead'[d] = nRead[d]
      BY <2>3, Shape DEF EngineFails, Shape
    <3>2. engine'[c] \in {"failed", "ended"}
      BY <2>3, Shape DEF EngineFails, Shape
    <3> QED
      BY <2>3, <3>1, <3>2 DEF EngineFails, Reading
  <2> QED
    BY <1>3, <2>1, <2>2, <2>3
<1> QED
  BY <1>1, <1>2, <1>3

\* Steps of one capture that keep what is owed, and write rows or none.
LEMMA LossKept ==
    ASSUME Store, LossInv, ~recounted', ~recounted, NEW c \in Captures,
           records' = records, currentBatch' = currentBatch,
           pc' = [pc EXCEPT ![c] = pc'[c]],
           pc[c] \in {"rest", "top", "polled", "registered"},
           pc'[c] \in {"rest", "top", "polled", "registered"},
           UNCHANGED <<engine, nRead, outstandingBatches, committed>>,
           written \subseteq written'
    PROVE  LossInv'
<1>1. \A d \in Captures : d # c => pc'[d] = pc[d]
  BY DEF Store
<1>2. \A d \in Captures : InHand(d)' <=> InHand(d)
  BY <1>1 DEF InHand
<1>3. Owed' = Owed
  BY <1>2, OwedKept
<1>4. \A d \in Captures : InOrder(d)'
  <2>1. SUFFICES ASSUME NEW d \in Captures PROVE InOrder(d)'
    OBVIOUS
  <2>2. Reading(d)' => Reading(d) /\ nRead'[d] = nRead[d]
    BY DEF Reading
  <2>3. (pc[d] = "dead" => pc'[d] = "dead") /\ (pc'[d] = "visiting" => pc[d] = "visiting")
    BY <1>1
  <2> QED
    BY <2>2, <2>3, OrderKept DEF LossInv
<1> QED
  BY <1>3, <1>4 DEF LossInv

\* A batch is queued: one more is owed.
LEMMA LossHandOff ==
    ASSUME Store, LossInv, ~recounted, NEW c \in Captures, HandOff(c)
    PROVE  LossInv'
<1> USE LifecycleAssumption DEF LifecycleAssumption
<1>0. PICK n \in Nat : n = Len(records[c])
  BY DEF Store
<1>1. PICK last \in nRead[c] + 1 .. MaxPos : HandOff(c)!3!(last)
  BY DEF HandOff
<1> DEFINE b == [min |-> nRead[c] + 1, max |-> last]
<1>2. /\ n \in 0 .. MaxQueueSize - 1 /\ nRead[c] \in 0 .. MaxPos /\ b \in Batch
      /\ records[c] \in Seq(Batch)
  BY <1>0 DEF HandOff, QueueHasRoom, Store, Batch
<1>3. /\ Len(records'[c]) = n + 1 /\ records'[c][n + 1] = b
      /\ \A i \in 1 .. n : records'[c][i] = records[c][i]
      /\ \A d \in Captures : d # c => records'[d] = records[d] /\ nRead'[d] = nRead[d]
      /\ nRead'[c] = last
  BY <1>0, <1>1, <1>2 DEF Store
<1>4. UNCHANGED <<engine, pc, currentBatch, committed, written, recounted>>
  BY DEF HandOff, workerVars
<1>5. Owed' = Owed \cup {<<c, n + 1>>} /\ <<c, n + 1>> \notin Owed
  <2>1. Owed \subseteq Captures \X (0 .. MaxQueueSize) /\ Owed' \subseteq Captures \X (0 .. MaxQueueSize)
    BY DEF Owed
  <2>2. \A d \in Captures, i \in 0 .. MaxQueueSize :
           d # c => (<<d, i>> \in Owed <=> <<d, i>> \in Owed')
    BY <1>3, <1>4 DEF Owed, InHand
  <2>3. \A i \in 0 .. MaxQueueSize :
           /\ i # n + 1 => (<<c, i>> \in Owed <=> <<c, i>> \in Owed')
           /\ i = n + 1 => <<c, i>> \in Owed' /\ <<c, i>> \notin Owed
    BY <1>0, <1>2, <1>3, <1>4 DEF Owed, InHand
  <2>4. n + 1 \in 0 .. MaxQueueSize
    BY <1>2
  <2> QED
    BY <2>1, <2>2, <2>3, <2>4
<1>6. outstandingBatches' = Cardinality(Owed')
  BY <1>5, OwedFinite, FS_AddElement DEF HandOff, LossInv
<1>7. ASSUME NEW d \in Captures, d # c PROVE InOrder(d)'
  <2>1. InOrder(d) /\ records'[d] = records[d] /\ (Reading(d)' => Reading(d) /\ nRead'[d] = nRead[d])
    BY <1>3, <1>4, <1>7 DEF LossInv, Reading
  <2> QED
    BY <2>1, <1>4, OrderKept
<1>8. InOrder(c)'
  <2>1. SUFFICES ASSUME pc[c] # "dead" PROVE InOrder(c)'
    BY <1>4 DEF InOrder
  <2>2. InOrder(c) /\ Reading(c)
    BY DEF LossInv, HandOff
  <2>3. \A p, i : Covered(c, p, i) => Covered(c, p, i)'
    BY <1>0, <1>2, <1>3, <1>4 DEF Covered
  <2>4. \A p \in 1 .. nRead[c] : Covered(c, p, n + 1)'
    BY <1>0, <2>1, <2>2, <2>3 DEF InOrder
  <2>5. ASSUME NEW i \in 1 .. Len(records'[c]), NEW p \in 1 .. records'[c][i].min - 1
        PROVE  Covered(c, p, i)'
    <3>1. CASE i = n + 1
      BY <3>1, <1>2, <1>3, <2>4
    <3>2. CASE i \in 1 .. n
      BY <3>2, <1>0, <1>3, <2>1, <2>2, <2>3 DEF InOrder
    <3> QED
      BY <3>1, <3>2, <1>2, <1>3
  <2>6. ASSUME NEW p \in 1 .. last PROVE Covered(c, p, n + 2)'
    <3>1. CASE p \in 1 .. nRead[c]
      <4>1. Covered(c, p, n + 1)'
        BY <3>1, <2>4
      <4>2. \A j \in 1 .. Len(records'[c]) : j < n + 1 => j < n + 2
        BY <1>2, <1>3
      <4> QED
        BY <4>1, <4>2 DEF Covered
    <3>2. CASE p \in nRead[c] + 1 .. last
      <4>1. p \in Rows(records'[c][n + 1])
        BY <3>2, <1>3 DEF Rows
      <4>2. n + 1 \in 1 .. Len(records'[c]) /\ n + 1 < n + 2
        BY <1>2, <1>3
      <4>3. \E j \in 1 .. Len(records'[c]) : j < n + 2 /\ p \in Rows(records'[c][j])
        BY <4>1, <4>2
      <4> QED
        BY <4>3 DEF Covered
    <3> QED
      BY <3>1, <3>2, <1>2
  <2>7. /\ currentBatch'[c] # NoBatch => 1 .. currentBatch'[c].min - 1 \subseteq written'
        /\ pc'[c] = "visiting" => Rows(currentBatch'[c]) \subseteq written'
    BY <1>4, <2>1, <2>2 DEF InOrder
  <2>8. \A p \in 1 .. nRead'[c] : Covered(c, p, Len(records[c]) + 1)'
    <3>1. Len(records'[c]) + 1 = n + 2 /\ nRead'[c] = last
      BY <1>2, <1>3
    <3> QED
      BY <3>1, <2>6
  <2> QED
    BY <2>5, <2>7, <2>8 DEF InOrder
<1>9. \A d \in Captures : InOrder(d)'
  BY <1>7, <1>8
<1> QED
  BY <1>4, <1>6, <1>9 DEF LossInv

\* A batch goes from the queue to the hand.
LEMMA LossPoll ==
    ASSUME Store, LossInv, ~recounted, NEW c \in Captures, Poll(c)
    PROVE  LossInv'
<1> USE LifecycleAssumption, NoBatchAssumption DEF LifecycleAssumption, NoBatchAssumption
<1>0. PICK n \in Nat : n = Len(records[c])
  BY DEF Store
<1>1. /\ records[c] \in Seq(Batch) /\ records[c] # <<>> /\ n \in 1 .. MaxQueueSize
      /\ currentBatch[c] = NoBatch /\ pc[c] \in {"top", "rest"}
  BY <1>0 DEF Poll, Round, Store
<1>2. records[c][1] \in Batch /\ Head(records[c]) = records[c][1]
  BY <1>1
<1>3. /\ Len(records'[c]) = n - 1
      /\ \A i \in 1 .. n - 1 : records'[c][i] = records[c][i + 1]
      /\ currentBatch'[c] = records[c][1] /\ pc'[c] = "polled"
      /\ \A d \in Captures : d # c => /\ records'[d] = records[d] /\ pc'[d] = pc[d]
                                      /\ currentBatch'[d] = currentBatch[d]
  BY <1>0, <1>1, <1>2 DEF Poll, Store
<1>4. UNCHANGED <<engine, nRead, outstandingBatches, committed, written, recounted>>
  BY DEF Poll, Around, staticVars
<1>5. \A i \in 0 .. MaxQueueSize :
         /\ <<c, i>> \in Owed <=> i \in 1 .. n
         /\ <<c, i>> \in Owed' <=> i \in 0 .. n - 1
  BY <1>0, <1>1, <1>2, <1>3 DEF Owed, InHand
<1>6. \A d \in Captures, i \in 0 .. MaxQueueSize :
         d # c => (<<d, i>> \in Owed <=> <<d, i>> \in Owed')
  BY <1>3 DEF Owed, InHand
<1>7. Owed' = (Owed \ {<<c, n>>}) \cup {<<c, 0>>} /\ <<c, n>> \in Owed /\ <<c, 0>> \notin Owed
  <2>1. Owed \subseteq Captures \X (0 .. MaxQueueSize) /\ Owed' \subseteq Captures \X (0 .. MaxQueueSize)
    BY DEF Owed
  <2>2. <<c, n>> \in Owed /\ <<c, 0>> \notin Owed
    BY <1>1, <1>5
  <2>3. \A d \in Captures, i \in 0 .. MaxQueueSize :
           <<d, i>> \in Owed' <=> <<d, i>> \in (Owed \ {<<c, n>>}) \cup {<<c, 0>>}
    <3>1. SUFFICES ASSUME NEW d \in Captures, NEW i \in 0 .. MaxQueueSize
                   PROVE  <<d, i>> \in Owed' <=> <<d, i>> \in (Owed \ {<<c, n>>}) \cup {<<c, 0>>}
      OBVIOUS
    <3>2. CASE d # c
      BY <3>2, <1>6
    <3>3. CASE d = c
      BY <3>3, <1>1, <1>5
    <3> QED
      BY <3>2, <3>3
  <2>4. (Owed \ {<<c, n>>}) \cup {<<c, 0>>} \subseteq Captures \X (0 .. MaxQueueSize)
    BY <2>1
  <2> QED
    BY <2>1, <2>2, <2>3, <2>4
<1>8. Cardinality(Owed') = Cardinality(Owed)
  <2>1. IsFiniteSet(Owed \ {<<c, n>>}) /\ Cardinality(Owed \ {<<c, n>>}) = Cardinality(Owed) - 1
    BY <1>7, OwedFinite, FS_RemoveElement
  <2>2. /\ <<c, 0>> \notin Owed \ {<<c, n>>}
        /\ Cardinality(Owed') = Cardinality(Owed) - 1 + 1
    BY <1>7, <2>1, FS_AddElement
  <2> QED
    BY <2>2, OwedFinite
<1>9. ASSUME NEW d \in Captures, d # c PROVE InOrder(d)'
  <2>1. InOrder(d) /\ (Reading(d)' => Reading(d) /\ nRead'[d] = nRead[d])
    BY <1>4 DEF LossInv, Reading
  <2> QED
    BY <2>1, <1>3, <1>4, <1>9, OrderKept
<1>10. InOrder(c)'
  <2>1. InOrder(c) /\ pc[c] # "dead"
    BY <1>1 DEF LossInv
  <2>2. \A p \in 1 .. records[c][1].min - 1 : p \in written
    BY <1>1, <2>1 DEF InOrder, Covered
  <2>3. ASSUME NEW p, NEW i \in 1 .. n, Covered(c, p, i + 1)
        PROVE  Covered(c, p, i)'
    <3>0. Len(records[c]) = n
      BY <1>0
    <3>1. CASE p \in written
      BY <3>1, <1>4 DEF Covered
    <3>2. CASE \E j \in 1 .. Len(records[c]) : j < i + 1 /\ p \in Rows(records[c][j])
      <4>1. PICK j \in 1 .. n : j < i + 1 /\ p \in Rows(records[c][j])
        BY <3>0, <3>2
      <4>2. CASE j = 1
        <5>1. currentBatch'[c] # NoBatch /\ p \in Rows(currentBatch'[c])
          BY <4>1, <4>2, <1>2, <1>3
        <5> QED
          BY <5>1 DEF Covered
      <4>3. CASE j # 1
        <5>1. j - 1 \in 1 .. Len(records'[c]) /\ j - 1 < i /\ records'[c][j - 1] = records[c][j]
          BY <4>1, <4>3, <1>1, <1>3
        <5> QED
          BY <4>1, <5>1 DEF Covered
      <4> QED
        BY <4>2, <4>3
    <3> QED
      BY <2>3, <3>1, <3>2, <1>1 DEF Covered
  <2>4. \A i \in 1 .. Len(records'[c]) : \A p \in 1 .. records'[c][i].min - 1 : Covered(c, p, i)'
    <3>1. SUFFICES ASSUME NEW i \in 1 .. n - 1, NEW p \in 1 .. records[c][i + 1].min - 1
                   PROVE  Covered(c, p, i)'
      BY <1>1, <1>3
    <3>2. Covered(c, p, i + 1) /\ i \in 1 .. n
      BY <1>0, <1>1, <2>1 DEF InOrder
    <3> QED
      BY <3>2, <2>3
  <2>5. Reading(c)' => \A p \in 1 .. nRead'[c] : Covered(c, p, Len(records[c]) + 1)'
    <3>1. SUFFICES ASSUME Reading(c)', NEW p \in 1 .. nRead'[c] PROVE Covered(c, p, n)'
      <4>1. Len(records'[c]) + 1 = n
        BY <1>1, <1>3
      <4> QED
        BY <4>1
    <3>2. Reading(c) /\ p \in 1 .. nRead[c]
      BY <3>1, <1>4 DEF Reading
    <3>3. Covered(c, p, n + 1)
      BY <1>0, <2>1, <3>2 DEF InOrder
    <3> QED
      BY <3>3, <2>3, <1>1
  <2> QED
    BY <1>3, <1>4, <2>2, <2>4, <2>5 DEF InOrder
<1>11. \A d \in Captures : InOrder(d)'
  BY <1>9, <1>10
<1> QED
  BY <1>4, <1>8, <1>11 DEF LossInv

\* Rows of a batch that comes next are all that was missing up to its end.
LEMMA RowsComplete ==
    ASSUME NEW b \in Batch, NEW W, 1 .. b.min - 1 \subseteq W, Rows(b) \subseteq W
    PROVE  1 .. b.max \subseteq W
<1>1. b.min \in Nat /\ b.max \in Nat /\ b.min <= b.max
  BY LifecycleAssumption DEF LifecycleAssumption, Batch
<1>2. \A p \in 1 .. b.max : p \in 1 .. b.min - 1 \/ p \in b.min .. b.max
  BY <1>1
<1> QED
  BY <1>2 DEF Rows

\* The batch in hand is acknowledged: one less is owed, and all up to its end is
\* written.
LEMMA LossCommit ==
    ASSUME Store, LossInv, ~recounted, NEW c \in Captures, Commit(c)
    PROVE  LossInv'
<1> USE LifecycleAssumption, NoBatchAssumption DEF LifecycleAssumption, NoBatchAssumption
<1>1. pc[c] = "registered" /\ currentBatch[c] \in Batch /\ currentBatch[c] # NoBatch
  BY DEF Commit, Store, WithBatch
<1>2. UNCHANGED <<engine, nRead, records, currentBatch, recounted>>
  BY DEF Commit, Around
<1>3. /\ written' = written \cup Rows(currentBatch[c])
      /\ committed' = currentBatch[c].max
      /\ outstandingBatches' = Released
      /\ pc'[c] = "visiting" /\ \A d \in Captures : d # c => pc'[d] = pc[d]
  BY DEF Commit, Acknowledge, Store
<1>4. 1 .. committed' \subseteq written'
  <2>1. 1 .. currentBatch[c].min - 1 \subseteq written
    BY <1>1 DEF LossInv, InOrder
  <2> QED
    BY <2>1, <1>1, <1>3, RowsComplete
<1>5. Owed' = Owed \ {<<c, 0>>} /\ <<c, 0>> \in Owed
  BY <1>1, <1>2, <1>3 DEF Owed, InHand
<1>6. outstandingBatches' = Cardinality(Owed')
  <2>1. Cardinality(Owed') = Cardinality(Owed) - 1
    BY <1>5, OwedFinite, FS_RemoveElement
  <2>2. Cardinality(Owed') \in Nat
    BY <1>5, OwedFinite, FS_RemoveElement, FS_CardinalityType
  <2> QED
    BY <2>1, <2>2, <1>3 DEF LossInv, Released, Store
<1>7. \A d \in Captures : Reading(d)' => Reading(d) /\ nRead'[d] = nRead[d]
  BY <1>2 DEF Reading
<1>8. \A d \in Captures : d # c => InOrder(d)'
  BY <1>2, <1>3, <1>7, OrderKept DEF LossInv
<1>9. InOrder(c)'
  <2>1. InOrder(c)
    BY DEF LossInv
  <2>2. \A p, i : Covered(c, p, i) => Covered(c, p, i)'
    BY <1>2, <1>3 DEF Covered
  <2> QED
    BY <1>1, <1>2, <1>3, <1>7, <2>1, <2>2 DEF InOrder
<1>10. \A d \in Captures : InOrder(d)'
  BY <1>8, <1>9
<1> QED
  BY <1>4, <1>6, <1>10 DEF LossInv

\* The worker lets go of a batch that it has acknowledged, or dies.
LEMMA LossLetGo ==
    ASSUME Store, LossInv, ~recounted, NEW c \in Captures, Finish(c) \/ FailFatally(c)
    PROVE  LossInv'
<1>1. /\ UNCHANGED <<engine, nRead, records, outstandingBatches, committed, written, recounted>>
      /\ currentBatch'[c] = NoBatch
      /\ pc'[c] = "dead" \/ (pc[c] = "visiting" /\ pc'[c] \in {"top", "rest"})
      /\ pc'[c] = "dead" => pc[c] \in {"polled", "registered"}
      /\ \A d \in Captures : d # c => pc'[d] = pc[d] /\ currentBatch'[d] = currentBatch[d]
  <2>1. CASE Finish(c)
    BY <2>1 DEF Finish, Around, staticVars, Store
  <2>2. CASE FailFatally(c)
    BY <2>2 DEF FailFatally, Around, staticVars, Store
  <2> QED
    BY <2>1, <2>2
<1>2. \A d \in Captures : InHand(d)' <=> InHand(d)
  <2>1. pc[c] \in {"polled", "registered"} => currentBatch[c] # NoBatch
    BY NoBatchAssumption DEF Store, WithBatch, NoBatchAssumption
  <2> QED
    BY <1>1, <2>1 DEF InHand
<1>3. Owed' = Owed
  BY <1>1, <1>2, OwedKept
<1>4. \A d \in Captures : Reading(d)' => Reading(d) /\ nRead'[d] = nRead[d]
  BY <1>1 DEF Reading
<1>5. \A d \in Captures : d # c => InOrder(d)'
  BY <1>1, <1>4, OrderKept DEF LossInv
<1>6. InOrder(c)'
  <2>1. SUFFICES ASSUME pc'[c] # "dead" PROVE InOrder(c)'
    BY DEF InOrder
  <2>2. InOrder(c) /\ pc[c] = "visiting"
    BY <1>1, <2>1 DEF LossInv
  <2>3. \A p, i : Covered(c, p, i) => Covered(c, p, i)'
    BY <1>1, <2>2 DEF Covered, InOrder
  <2> QED
    BY <1>1, <1>4, <2>2, <2>3 DEF InOrder
<1>7. \A d \in Captures : InOrder(d)'
  BY <1>5, <1>6
<1> QED
  BY <1>1, <1>3, <1>7 DEF LossInv

\* An engine resumes after the committed offset.
LEMMA LossEngineStarts ==
    ASSUME Store, LossInv, ~recounted, NEW c \in Captures, EngineStarts(c)
    PROVE  LossInv'
<1>1. /\ UNCHANGED <<records, pc, currentBatch, outstandingBatches, committed, written, recounted>>
      /\ nRead'[c] = committed
      /\ \A d \in Captures : d # c => nRead'[d] = nRead[d] /\ (Reading(d)' => Reading(d))
  BY DEF EngineStarts, workerVars, staticVars, Store, Reading
<1>2. Owed' = Owed
  BY <1>1, OwedKept DEF InHand
<1>3. \A d \in Captures : d # c => InOrder(d)'
  BY <1>1, OrderKept DEF LossInv
<1>4. InOrder(c)'
  <2>1. \A p, i : Covered(c, p, i) => Covered(c, p, i)'
    BY <1>1 DEF Covered
  <2>2. \A p \in 1 .. nRead'[c] : Covered(c, p, Len(records[c]) + 1)'
    BY <1>1 DEF LossInv, Covered
  <2> QED
    BY <1>1, <2>1, <2>2 DEF InOrder, LossInv
<1>5. \A d \in Captures : InOrder(d)'
  BY <1>3, <1>4
<1> QED
  BY <1>1, <1>2, <1>5 DEF LossInv

\* A heartbeat is committed when nothing is owed: what its engine has read is
\* written.
LEMMA LossControl ==
    ASSUME Store, LossInv, ~recounted, NEW c \in Captures, CommitControlRecord(c)
    PROVE  LossInv'
<1>1. /\ UNCHANGED <<records, pc, currentBatch, engine, nRead, outstandingBatches, written, recounted>>
      /\ committed' = nRead[c] /\ Reading(c) /\ records[c] = <<>> /\ outstandingBatches = 0
  BY DEF CommitControlRecord, workerVars, staticVars, isPipelineQuiescent, hasUnwrittenBatches, Store
<1>2. Owed = {}
  BY <1>1, OwedFinite, FS_EmptySet DEF LossInv
<1>3. ~InHand(c)
  <2>1. 0 \in 0 .. MaxQueueSize
    BY LifecycleAssumption DEF LifecycleAssumption
  <2>2. <<c, 0>> \in Captures \X (0 .. MaxQueueSize) /\ <<c, 0>>[1] = c /\ <<c, 0>>[2] = 0
    BY <2>1
  <2>3. <<c, 0>> \notin Owed
    BY <1>2
  <2> QED
    BY <2>2, <2>3 DEF Owed
<1>4. 1 .. nRead[c] \subseteq written
  <2>1. pc[c] # "dead" /\ (currentBatch[c] # NoBatch => Rows(currentBatch[c]) \subseteq written)
    BY <1>3 DEF InHand, LossInv, InOrder
  <2>2. Len(records[c]) = 0
    BY <1>1
  <2>3. \A p \in 1 .. nRead[c] : Covered(c, p, 1)
    BY <1>1, <2>1, <2>2 DEF LossInv, InOrder
  <2> QED
    BY <2>1, <2>2, <2>3 DEF Covered
<1>5. Owed' = Owed
  BY <1>1, OwedKept DEF InHand
<1>6. \A d \in Captures : InOrder(d)'
  BY <1>1, OrderKept DEF LossInv, Reading
<1> QED
  BY <1>1, <1>4, <1>5, <1>6 DEF LossInv

\* Every step keeps the counter exact and the committed part of the log written,
\* or releases a parked batch.
LEMMA LossNext ==
    ASSUME TypeInv, LossInv, [Next]_vars
    PROVE  LossInv'
<1>0. Store /\ Shape
  BY TypeStore, TypeShape
<1>1. SUFFICES ASSUME ~recounted' PROVE LossInv'
  BY DEF LossInv
<1>2. CASE UNCHANGED vars
  BY <1>2 DEF vars, workerVars, staticVars, LossInv, Owed, InHand, InOrder, Covered, Reading
<1>3. CASE \/ \E r \in Requests :
                 (\E what \in {"stop", "start", "restart"} : Ask(r, what)) \/ Serve(r)
           \/ SkipStart
           \/ \E c \in Captures : RetryEngine(c) \/ EngineEnds(c) \/ EngineFails(c)
  <2>1. /\ UNCHANGED <<records, workerVars, staticVars, committed, written>>
        /\ \A c \in Captures : Reading(c)' => Reading(c) /\ nRead'[c] = nRead[c]
    BY <1>0, <1>3, RequestsKeepBatches
  <2>2. Owed' = Owed
    BY <2>1, OwedKept DEF InHand, workerVars
  <2>3. UNCHANGED <<records, pc, currentBatch, written, committed, outstandingBatches, recounted>>
    BY <2>1 DEF workerVars, staticVars
  <2>4. ~recounted
    BY <1>1, <2>3
  <2>5. \A c \in Captures : InOrder(c)'
    BY <2>1, <2>3, <2>4, OrderKept DEF LossInv
  <2> QED
    BY <2>2, <2>3, <2>5 DEF LossInv
<1>4. ASSUME NEW c \in Captures, EngineStarts(c) \/ WorkerStep(c)
      PROVE  LossInv'
  <2>1. CASE EngineStarts(c)
    BY <2>1, <1>0, <1>1, LossEngineStarts DEF EngineStarts, staticVars
  <2>2. CASE HandOff(c)
    BY <2>2, <1>0, <1>1, LossHandOff DEF HandOff
  <2>3. CASE CommitControlRecord(c)
    BY <2>3, <1>0, <1>1, LossControl DEF CommitControlRecord, staticVars
  <2>4. CASE Poll(c)
    BY <2>4, <1>0, <1>1, LossPoll DEF Poll, staticVars
  <2>5. CASE Commit(c)
    BY <2>5, <1>0, <1>1, LossCommit DEF Commit
  <2>6. CASE Finish(c) \/ FailFatally(c)
    BY <2>6, <1>0, <1>1, LossLetGo DEF Finish, FailFatally, staticVars
  <2>7. CASE Retry(c)
    <3>1. ~recounted /\ pc[c] \in {"rest", "top"} /\ pc' = [pc EXCEPT ![c] = "polled"]
      BY <2>7, <1>1 DEF Retry, Round, staticVars
    <3>2. pc'[c] = "polled"
      BY <3>1, <1>0 DEF Store
    <3> QED
      BY <2>7, <3>1, <3>2, <1>0, <1>1, LossKept DEF Retry, Around, staticVars
  <2>8. CASE Register(c)
    <3>1. ~recounted /\ pc[c] = "polled" /\ pc' = [pc EXCEPT ![c] = "registered"]
      BY <2>8, <1>1 DEF Register
    <3>2. pc'[c] = "registered"
      BY <3>1, <1>0 DEF Store
    <3> QED
      BY <2>8, <3>1, <3>2, <1>0, <1>1, LossKept DEF Register, Around
  <2>9. CASE Fail(c)
    <3>1. PICK next \in {"rest", "polled"} : pc' = [pc EXCEPT ![c] = next]
      BY <2>9 DEF Fail
    <3>2. ~recounted /\ pc[c] \in {"polled", "registered"} /\ written \subseteq written'
      BY <2>9, <1>1 DEF Fail, staticVars
    <3>3. pc'[c] = next
      BY <3>1, <1>0 DEF Store
    <3> QED
      BY <2>9, <3>1, <3>2, <3>3, <1>0, <1>1, LossKept DEF Fail, Around, staticVars
  <2>10. CASE Park(c)
    <3>1. ~recounted /\ pc[c] = "registered" /\ pc' = [pc EXCEPT ![c] = "polled"]
      BY <2>10, <1>1 DEF Park
    <3>2. pc'[c] = "polled"
      BY <3>1, <1>0 DEF Store
    <3> QED
      BY <2>10, <3>1, <3>2, <1>0, <1>1, LossKept DEF Park, Around
  <2>11. CASE Visit(c)
    <3>1. UNCHANGED <<staticVars, committed>>
      BY <2>11, <1>1 DEF Visit
    <3>2. UNCHANGED <<records, pc, currentBatch, engine, nRead, written>>
      BY <2>11 DEF Visit, Around
    <3> QED
      BY <3>1, <3>2 DEF LossInv, Owed, InHand, InOrder, Covered, Reading, staticVars
  <2>12. CASE VisitFails(c)
    BY <2>12, <1>1 DEF VisitFails
  <2> QED
    BY <1>4, <2>1, <2>2, <2>3, <2>4, <2>5, <2>6, <2>7, <2>8, <2>9, <2>10, <2>11, <2>12
       DEF WorkerStep, Work
<1> QED
  BY <1>2, <1>3, <1>4 DEF Next, WorkerStep, Run

\* Whatever lies at or before the committed offset is in ClickHouse, through stops,
\* starts and restarts of any number of captures that share the maps and the
\* counter, until a parked batch is released twice.
THEOREM RestartsLoseNothing == Spec => []AtLeastOnce
<1>1. Init => TypeInv /\ LossInv
  BY TypeInit, LossInit
<1>2. TypeInv /\ LossInv /\ [Next]_vars => (TypeInv /\ LossInv)'
  BY TypeNext, LossNext
<1>3. LossInv => AtLeastOnce
  BY DEF LossInv, AtLeastOnce
<1> QED
  BY <1>1, <1>2, <1>3, PTL DEF Spec
================================================================================
