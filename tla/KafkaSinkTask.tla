----------------------------- MODULE KafkaSinkTask -----------------------------
(******************************************************************************)
(* The connector as a sink of Kafka Connect: which offsets it lets Kafka      *)
(* commit.                                                                    *)
(*                                                                            *)
(*   - The thread of a task (ClickHouseSinkTask) puts the records of its      *)
(*     partitions, without what deduplicator/DeDuplicator takes for           *)
(*     duplicates, in the bounded queue of the task.  Every so often it tells *)
(*     Kafka Connect, in preCommit, the offsets to commit.                    *)
(*   - The worker of the task (executor/ClickHouseBatchRunnable) inserts the  *)
(*     batches, topic by topic, and raises the watermark of the partitions,   *)
(*     durablyInsertedOffsets, from which preCommit derives the offsets.      *)
(*   - Kafka Connect moves partitions between tasks, stops and starts tasks.  *)
(*     A worker in the middle of its queue survives the stop of its task.     *)
(*                                                                            *)
(* A task here is one start of a task: a task that is restarted is another    *)
(* one, with a queue, a watermark and a worker of its own.                    *)
(******************************************************************************)
EXTENDS Integers, Sequences

CONSTANTS
    Tasks,          \* starts of tasks
    Partitions,     \* the partitions of the topics
    Topics,
    TopicOf,        \* the topic of a partition
    LogEnd,         \* bound: the offset after the last record of a partition
    Tombstones,     \* <<partition, offset>> of the records converted to nothing
    Policies,       \* deduplication.policy: some of "off", "old", "new"
    MaxQueueSize,   \* sink.connector.max.queue.size
    MaxMoves,       \* bound: assignments of a partition to a task
    None            \* null

Records == UNION {{p} \X (0 .. LogEnd[p] - 1) : p \in Partitions}

\* The queue holds a batch at least, and null is neither an offset nor a batch.
ASSUME SinkTaskAssumption ==
    /\ TopicOf \in [Partitions -> Topics]
    /\ LogEnd \in [Partitions -> Nat]
    /\ Tombstones \subseteq Records
    /\ Policies \subseteq {"off", "old", "new"}
    /\ MaxQueueSize \in Nat \ {0}
    /\ MaxMoves \in Nat
    /\ None \notin Int
    /\ \A batch \in SUBSET Records : batch # None

VARIABLES
    policy,
    \* Kafka
    committed,              \* offset of the consumer group, for each partition
    \* Kafka Connect, about a task
    status,                 \* "new", "running" or "stopped"
    assigned,               \* its partitions
    position,               \* the offset after the last record put
    \* ClickHouseSinkTask
    records,                \* the LinkedBlockingQueue
    durablyInsertedOffsets, \* the watermarks
    pool,                   \* topics the deduplicator has seen
    \* ClickHouseBatchRunnable
    pc,                     \* where the worker is
    currentBatch,           \* the batch it works on, or None
    todo,                   \* topics of that batch not inserted in this attempt
    \* ClickHouse
    inserted,               \* records whose row is in ClickHouse
    \* What an observer remembers
    moves,
    returned                \* <<task, partition>>: it came back to a task with a watermark

connectVars == <<committed, status, assigned, position>>
taskVars    == <<records, durablyInsertedOffsets, pool>>
workerVars  == <<pc, currentBatch, todo>>
vars == <<policy, connectVars, taskVars, workerVars, inserted, moves, returned>>

Init ==
    /\ policy \in Policies
    /\ committed = [p \in Partitions |-> 0]
    /\ status = [t \in Tasks |-> "new"]
    /\ assigned = [t \in Tasks |-> {}]
    /\ position = [t \in Tasks |-> [p \in Partitions |-> 0]]
    /\ records = [t \in Tasks |-> <<>>]
    /\ durablyInsertedOffsets = [t \in Tasks |-> [p \in Partitions |-> None]]
    /\ pool = [t \in Tasks |-> {}]
    /\ pc = [t \in Tasks |-> "none"]
    /\ currentBatch = [t \in Tasks |-> None]
    /\ todo = [t \in Tasks |-> {}]
    /\ inserted = {}
    /\ moves = 0
    /\ returned = {}

--------------------------------------------------------------------------------
(* Kafka Connect                                                              *)

\* start: the worker is scheduled.
Start(t) ==
    /\ status[t] = "new"
    /\ status' = [status EXCEPT ![t] = "running"]
    /\ pc' = [pc EXCEPT ![t] = "head"]
    /\ UNCHANGED <<policy, committed, assigned, position, taskVars, currentBatch, todo,
                   inserted, moves, returned>>

\* open: a partition that no task has is read from the committed offset.  The
\* task keeps the watermark it had for it.
Assign(t, p) ==
    /\ status[t] = "running"
    /\ \A u \in Tasks : p \notin assigned[u]
    /\ moves < MaxMoves
    /\ moves' = moves + 1
    /\ assigned' = [assigned EXCEPT ![t] = @ \cup {p}]
    /\ position' = [position EXCEPT ![t][p] = committed[p]]
    /\ returned' = IF durablyInsertedOffsets[t][p] = None THEN returned
                                                          ELSE returned \cup {<<t, p>>}
    /\ UNCHANGED <<policy, committed, status, taskVars, workerVars, inserted>>

\* close: the task keeps what it has in its queue.
Revoke(t, p) ==
    /\ p \in assigned[t]
    /\ assigned' = [assigned EXCEPT ![t] = @ \ {p}]
    /\ position' = [position EXCEPT ![t][p] = 0]
    /\ UNCHANGED <<policy, committed, status, taskVars, workerVars, inserted, moves, returned>>

\* stop: the schedule ends, and a worker inside a run goes on.
Stop(t) ==
    /\ status[t] = "running"
    /\ status' = [status EXCEPT ![t] = "stopped"]
    /\ assigned' = [assigned EXCEPT ![t] = {}]
    /\ position' = [position EXCEPT ![t] = [p \in Partitions |-> 0]]
    /\ UNCHANGED <<policy, committed, taskVars, workerVars, inserted, moves, returned>>

\* Nothing is left of a task: its process dies, stopped or not, or it was stopped
\* and its worker is not inside a run, or leaves the last one.
Die(t) ==
    /\ status[t] # "new"
    /\ status' = [status EXCEPT ![t] = "stopped"]
    /\ assigned' = [assigned EXCEPT ![t] = {}]
    /\ position' = [position EXCEPT ![t] = [p \in Partitions |-> 0]]
    /\ records' = [records EXCEPT ![t] = <<>>]
    /\ durablyInsertedOffsets' =
          [durablyInsertedOffsets EXCEPT ![t] = [p \in Partitions |-> None]]
    /\ pool' = [pool EXCEPT ![t] = {}]
    /\ pc' = [pc EXCEPT ![t] = "dead"]
    /\ currentBatch' = [currentBatch EXCEPT ![t] = None]
    /\ todo' = [todo EXCEPT ![t] = {}]
    /\ UNCHANGED <<policy, committed, inserted, moves, returned>>

--------------------------------------------------------------------------------
(* The thread of a task                                                       *)

OffsetsOf(list, p) == {r[2] : r \in {x \in list : x[1] = p}}

Largest(offsets) == CHOOSE o \in offsets : \A other \in offsets : other <= o

\* Mutant: the watermark starts over with every list.
SeededAgain(t, list) ==
    [p \in Partitions |->
        IF OffsetsOf(list, p) # {}
        THEN position[t][p] - 1
        ELSE durablyInsertedOffsets[t][p]]

\* putIfAbsent: before its first record, for each partition in the list.
Seeded(t, list) ==
    [p \in Partitions |->
        IF durablyInsertedOffsets[t][p] = None /\ OffsetsOf(list, p) # {}
        THEN position[t][p] - 1
        ELSE durablyInsertedOffsets[t][p]]

\* DeDuplicator.isNew: with a policy other than off, the first record of a topic
\* is new, and every later one is a duplicate, whatever its key is.  (The queue
\* of keys is never filled.)  The choice is which of the first records of the
\* partitions of a topic is the first of the topic.
Accepted(t, list) ==
    IF policy = "off"
    THEN {list}
    ELSE LET topics == {TopicOf[r[1]] : r \in list} \ pool[t]
             IsFirst(r) == \A s \in list : s[1] = r[1] => r[2] <= s[2]
         IN  {{first[c] : c \in topics} : first \in
                 {f \in [topics -> list] :
                     \A c \in topics : TopicOf[f[c][1]] = c /\ IsFirst(f[c])}}

SeenTopics(t, list) ==
    IF policy = "off" THEN pool[t] ELSE pool[t] \cup {TopicOf[r[1]] : r \in list}

\* The lists that Kafka Connect may put: the next records of the partitions.
NextLists(t) ==
    {list \in SUBSET {r \in Records : r[1] \in assigned[t] /\ r[2] >= position[t][r[1]]} :
        /\ list # {}
        /\ \A r \in list : position[t][r[1]] .. r[2] \subseteq OffsetsOf(list, r[1])}

\* The offset after the records of a list.
After(t, list) ==
    [p \in Partitions |->
        IF OffsetsOf(list, p) = {} THEN position[t][p] ELSE Largest(OffsetsOf(list, p)) + 1]

\* Mutant: a record that is converted to nothing is put in the queue.
NullKept(batch) == batch

\* convert: a record without a value is converted to nothing.
Converted(batch) == batch \ Tombstones

\* put
Put(t) ==
    /\ Len(records[t]) < MaxQueueSize
    /\ \E list \in NextLists(t) :
          /\ durablyInsertedOffsets' = [durablyInsertedOffsets EXCEPT ![t] = Seeded(t, list)]
          /\ pool' = [pool EXCEPT ![t] = SeenTopics(t, list)]
          /\ \E batch \in Accepted(t, list) :
                records' = [records EXCEPT ![t] = Append(@, Converted(batch))]
          /\ position' = [position EXCEPT ![t] = After(t, list)]
    /\ UNCHANGED <<policy, committed, status, assigned, workerVars, inserted, moves, returned>>

\* The queue is full and the wait is interrupted, or a record cannot be converted:
\* Kafka Connect puts the same records again.
PutFails(t) ==
    /\ \E list \in NextLists(t) :
          /\ durablyInsertedOffsets' = [durablyInsertedOffsets EXCEPT ![t] = Seeded(t, list)]
          /\ pool' = [pool EXCEPT ![t] = SeenTopics(t, list)]
    /\ UNCHANGED <<policy, connectVars, records, workerVars, inserted, moves, returned>>

Least(a, b) == IF a <= b THEN a ELSE b

\* Mutant: the offset of the last record inserted instead of the next to consume.
LastInserted(t, p) ==
    IF durablyInsertedOffsets[t][p] = None
    THEN position[t][p]
    ELSE Least(position[t][p], durablyInsertedOffsets[t][p])

\* The offset preCommit returns for a partition.
CommittedOffset(t, p) ==
    IF durablyInsertedOffsets[t][p] = None
    THEN position[t][p]
    ELSE Least(position[t][p], durablyInsertedOffsets[t][p] + 1)

PreCommit(t) ==
    /\ committed' = [p \in Partitions |->
                        IF p \in assigned[t] THEN CommittedOffset(t, p) ELSE committed[p]]
    /\ UNCHANGED <<policy, status, assigned, position, taskVars, workerVars, inserted,
                   moves, returned>>

--------------------------------------------------------------------------------
(* The worker of a task                                                       *)
(*                                                                            *)
(*   none     not scheduled yet                                               *)
(*   head     between two runs, or at the head of the loop of runLegacyMode   *)
(*   writing  in processBatch                                                 *)
(*   dead     the schedule has ended, and so has the run                      *)

TopicsIn(batch) == {TopicOf[r[1]] : r \in batch}

\* Takes a batch, or tries the one it has kept again.
Poll(t) ==
    /\ pc[t] = "head"
    /\ IF currentBatch[t] = None
       THEN /\ records[t] # <<>>
            /\ currentBatch' = [currentBatch EXCEPT ![t] = Head(records[t])]
            /\ records' = [records EXCEPT ![t] = Tail(@)]
       ELSE UNCHANGED <<currentBatch, records>>
    /\ todo' = [todo EXCEPT ![t] = TopicsIn(currentBatch'[t])]
    /\ pc' = [pc EXCEPT ![t] = "writing"]
    /\ UNCHANGED <<policy, connectVars, durablyInsertedOffsets, pool, inserted, moves, returned>>

RowsOf(t, c) == {r \in currentBatch[t] : TopicOf[r[1]] = c}

\* partitionToOffsetMap and merge: the largest offset of the rows, if it is more.
Merged(t, rows) ==
    [p \in Partitions |->
        LET old == durablyInsertedOffsets[t][p]
        IN  IF \E o \in OffsetsOf(rows, p) : o > old THEN Largest(OffsetsOf(rows, p)) ELSE old]

\* processRecordsByTopic.  The topics of a batch come in no particular order.
InsertTopic(t) ==
    /\ pc[t] = "writing"
    /\ \E c \in todo[t] :
          /\ inserted' = inserted \cup RowsOf(t, c)
          /\ durablyInsertedOffsets' =
                [durablyInsertedOffsets EXCEPT ![t] = Merged(t, RowsOf(t, c))]
          /\ todo' = [todo EXCEPT ![t] = @ \ {c}]
    /\ UNCHANGED <<policy, connectVars, records, pool, pc, currentBatch, moves, returned>>

\* Another task of the process has a batch in flight, or has dropped one.
OthersInFlight(t) == \E u \in Tasks \ {t} : currentBatch[u] # None \/ pc[u] = "dead"

\* checkIfBatchCanBeCommitted: the batch is done, or parked and tried again.
FinishBatch(t) ==
    /\ pc[t] = "writing"
    /\ todo[t] = {}
    /\ \/ currentBatch' = [currentBatch EXCEPT ![t] = None]
       \/ /\ OthersInFlight(t)
          /\ UNCHANGED currentBatch
    /\ pc' = [pc EXCEPT ![t] = "head"]
    /\ UNCHANGED <<policy, connectVars, taskVars, todo, inserted, moves, returned>>

\* Mutant: a batch that fails is dropped.
FailAndDrop(t) ==
    /\ pc[t] = "writing"
    /\ todo[t] # {}
    /\ todo' = [todo EXCEPT ![t] = {}]
    /\ currentBatch' = [currentBatch EXCEPT ![t] = None]
    /\ pc' = [pc EXCEPT ![t] = "head"]
    /\ UNCHANGED <<policy, connectVars, taskVars, inserted, moves, returned>>

\* The insert of a topic fails.  The batch stays for the next run, if there is one,
\* or for the next round when the metadata were missing.  Rows of the topic that
\* were inserted before the error do not count.
Fail(t) ==
    /\ pc[t] = "writing"
    /\ todo[t] # {}
    /\ todo' = [todo EXCEPT ![t] = {}]
    /\ pc' = [pc EXCEPT ![t] = "head"]
    /\ UNCHANGED <<policy, connectVars, taskVars, currentBatch, inserted, moves, returned>>

\* A fatal error drops the batch and ends the schedule.  Kafka Connect is not
\* told, and the task goes on putting records in the queue.
FailFatally(t) ==
    /\ pc[t] = "writing"
    /\ todo[t] # {}
    /\ todo' = [todo EXCEPT ![t] = {}]
    /\ currentBatch' = [currentBatch EXCEPT ![t] = None]
    /\ pc' = [pc EXCEPT ![t] = "dead"]
    /\ UNCHANGED <<policy, connectVars, taskVars, inserted, moves, returned>>

--------------------------------------------------------------------------------

Connect(t) ==
    \/ Start(t) \/ Stop(t) \/ Die(t)
    \/ \E p \in Partitions : Assign(t, p) \/ Revoke(t, p)

Next ==
    \E t \in Tasks :
       \/ Connect(t)
       \/ Put(t) \/ PutFails(t) \/ PreCommit(t)
       \/ Poll(t) \/ InsertTopic(t) \/ FinishBatch(t) \/ Fail(t) \/ FailFatally(t)

Spec == Init /\ [][Next]_vars

--------------------------------------------------------------------------------
(* Properties                                                                 *)

\* Every variable has its type.
TypeOK ==
    /\ policy \in Policies
    /\ committed \in [Partitions -> Nat]
    /\ status \in [Tasks -> {"new", "running", "stopped"}]
    /\ assigned \in [Tasks -> SUBSET Partitions]
    /\ position \in [Tasks -> [Partitions -> Nat]]
    /\ records \in [Tasks -> Seq(SUBSET (Records \ Tombstones))]
    /\ durablyInsertedOffsets \in [Tasks -> [Partitions -> Nat \cup {-1, None}]]
    /\ pool \in [Tasks -> SUBSET Topics]
    /\ pc \in [Tasks -> {"none", "head", "writing", "dead"}]
    /\ currentBatch \in [Tasks -> (SUBSET (Records \ Tombstones)) \cup {None}]
    /\ todo \in [Tasks -> SUBSET Topics]
    /\ inserted \subseteq Records
    /\ moves \in 0 .. MaxMoves
    /\ returned \subseteq Tasks \X Partitions

\* Everything before an offset of a partition is in ClickHouse, or has no row.
LandedBefore(p, next) == {p} \X (0 .. next - 1) \subseteq inserted \cup Tombstones

\* No restart and no rebalance skips a record: what lies before the committed
\* offset of a partition is in ClickHouse.  Not what was put, what was queued, or
\* what the deduplicator has dropped; with the watermark of a task that has lost
\* the partition and got it back, and next to the worker of a stopped task.
CommittedIsInserted == \A p \in Partitions : LandedBefore(p, committed[p])

\* The records of a partition are numbered from 1, and those without a row need
\* none.
Delivered(p) == {n \in 1 .. LogEnd[p] : <<p, n - 1>> \in inserted \cup Tombstones}

Delivery(p) == INSTANCE AtLeastOnceDelivery WITH
    MaxPos <- LogEnd[p],
    Rowless <- {n \in 1 .. LogEnd[p] : <<p, n - 1>> \in Tombstones},
    written <- Delivered(p),
    committed <- committed[p]

DeliveryStep(p) == Delivery(p)!Next \/ UNCHANGED Delivery(p)!vars

\* Every partition is delivered at least once, and its rows reach ClickHouse for
\* the first time in the order of their offsets, whichever task inserts them.
\* This is \A p \in Partitions : Delivery(p)!Spec, in a form that TLC checks.
ImplementsDelivery ==
    /\ \A p \in Partitions : Delivery(p)!Init
    /\ [][UNCHANGED <<inserted, committed>> \/ \A p \in Partitions : DeliveryStep(p)]_vars

\* A commit never takes an offset back, except that of a task which uses the
\* watermark from before another one had the partition.
CommitAdvances ==
    [][\A p \in Partitions :
          committed'[p] < committed[p] =>
             \E t \in Tasks : p \in assigned[t] /\ <<t, p>> \in returned]_vars
================================================================================
