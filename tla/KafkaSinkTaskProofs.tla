-------------------------- MODULE KafkaSinkTaskProofs --------------------------
(******************************************************************************)
(* Theorems about KafkaSinkTask, for any tasks, partitions, topics and logs:  *)
(* Kafka is never told to commit past a record that is not in ClickHouse      *)
(* (NothingIsSkipped), and an offset goes back only with a partition that has *)
(* returned to a task (CommitsAdvance).                                       *)
(*                                                                            *)
(* CommittedIsInserted is not inductive: the committed offset comes from a    *)
(* watermark, the watermark from the batch in the hands of a worker, and that *)
(* batch from the queue.  LandedInv says of each what lies before it.         *)
(******************************************************************************)
EXTENDS KafkaSinkTask, TLAPS, WellFoundedInduction

Rows == SUBSET (Records \ Tombstones)

\* A worker that writes has a batch.
WriterHasBatch == \A t \in Tasks : pc[t] = "writing" => currentBatch[t] \in Rows

TypeInv == TypeOK /\ WriterHasBatch

Landed == inserted \cup Tombstones

InHand(t) == IF currentBatch[t] = None THEN {} ELSE currentBatch[t]

Queued(t, i) == UNION {records[t][j] : j \in 1 .. i}

\* The records before one in its partition.
Earlier(r) == {r[1]} \X (0 .. r[2] - 1)

\* Only a task that was started can be dead.
NewTask == \A t \in Tasks : status[t] = "new" => pc[t] = "none"

\* A topic that the worker is done with in this attempt is in ClickHouse.
DoneTopics ==
    \A t \in Tasks : pc[t] = "writing" =>
        \A r \in currentBatch[t] : TopicOf[r[1]] \in todo[t] \/ r \in inserted

\* Nothing before a record in the hands of a worker is missing, but in its batch.
HandInOrder ==
    \A t \in Tasks : pc[t] # "dead" =>
        \A r \in InHand(t) : Earlier(r) \subseteq Landed \cup InHand(t)

\* Nothing before a record in the queue is missing, but ahead of it.
QueueInOrder ==
    \A t \in Tasks : pc[t] # "dead" =>
        \A i \in 1 .. Len(records[t]) : \A r \in records[t][i] :
            Earlier(r) \subseteq Landed \cup InHand(t) \cup Queued(t, i)

\* Nothing before the next record to put is missing, but with the task: unless
\* the deduplicator drops records.
PositionInOrder ==
    \A t \in Tasks : pc[t] # "dead" =>
        \A p \in assigned[t] : policy = "off" \/ TopicOf[p] \notin pool[t] =>
            {p} \X (0 .. position[t][p] - 1) \subseteq
                Landed \cup InHand(t) \cup Queued(t, Len(records[t]))

\* A partition whose first record is yet to be put starts at a committed offset.
StartLanded ==
    \A t \in Tasks : \A p \in assigned[t] :
        durablyInsertedOffsets[t][p] = None => LandedBefore(p, position[t][p])

\* Nothing at or before a watermark is missing.
WatermarkLanded ==
    \A t \in Tasks : \A p \in Partitions :
        durablyInsertedOffsets[t][p] # None =>
            LandedBefore(p, durablyInsertedOffsets[t][p] + 1)

LandedInv ==
    /\ NewTask
    /\ DoneTopics
    /\ HandInOrder
    /\ QueueInOrder
    /\ PositionInOrder
    /\ StartLanded
    /\ WatermarkLanded
    /\ CommittedIsInserted

\* A partition belongs to one task at a time.
OneOwner ==
    \A t, u \in Tasks : \A p \in assigned[t] \cap assigned[u] : t = u

\* The records in the hands of a worker or in its queue.
With(t) == InHand(t) \cup Queued(t, Len(records[t]))

\* Whatever is with a task has a watermark.
HasWatermark ==
    \A t \in Tasks : \A r \in With(t) : durablyInsertedOffsets[t][r[1]] # None

\* The next commit of the owner of a partition is no step back.
CommitNotBehind ==
    \A t \in Tasks : \A p \in assigned[t] :
        <<t, p>> \notin returned => committed[p] <= CommittedOffset(t, p)

AdvanceInv == OneOwner /\ HasWatermark /\ CommitNotBehind

--------------------------------------------------------------------------------
(* Records and offsets                                                        *)

\* A record is its partition and its offset.
LEMMA RecordFacts ==
    ASSUME NEW r \in Records
    PROVE  /\ r[1] \in Partitions /\ r[2] \in Nat
           /\ r[2] \in 0 .. LogEnd[r[1]] - 1
           /\ r = <<r[1], r[2]>>
<1>1. PICK p \in Partitions : r \in {p} \X (0 .. LogEnd[p] - 1)
  BY DEF Records
<1> QED
  BY <1>1

\* The offsets of records of a partition.
LEMMA OffsetFacts ==
    ASSUME NEW list \in SUBSET Records, NEW p \in Partitions
    PROVE  /\ OffsetsOf(list, p) \subseteq Nat
           /\ OffsetsOf(list, p) \subseteq 0 .. LogEnd[p]
           /\ LogEnd[p] \in Nat
           /\ \A o : o \in OffsetsOf(list, p) <=> <<p, o>> \in list
<1>1. LogEnd[p] \in Nat
  BY SinkTaskAssumption
<1>2. ASSUME NEW r \in list, r[1] = p
      PROVE  r = <<p, r[2]>> /\ r[2] \in Nat /\ r[2] \in 0 .. LogEnd[p]
  BY <1>1, <1>2, RecordFacts
<1>3. ASSUME NEW o \in OffsetsOf(list, p)
      PROVE  <<p, o>> \in list /\ o \in Nat /\ o \in 0 .. LogEnd[p]
  BY <1>2 DEF OffsetsOf
<1>4. ASSUME NEW o, <<p, o>> \in list
      PROVE  o \in OffsetsOf(list, p)
  <2>1. <<p, o>>[1] = p /\ <<p, o>>[2] = o
    OBVIOUS
  <2> QED
    BY <2>1, <1>4 DEF OffsetsOf
<1> QED
  BY <1>1, <1>3, <1>4

\* Offsets of a bounded log have a largest one.
LEMMA LargestFacts ==
    ASSUME NEW bound \in Nat, NEW S \in SUBSET (0 .. bound), S # {}
    PROVE  Largest(S) \in S /\ \A o \in S : o <= Largest(S)
<1> DEFINE T == {bound - o : o \in S}
           R == {ss \in Nat \X Nat : ss[1] < ss[2]}
<1>1. T \subseteq Nat /\ T # {}
  OBVIOUS
<1>2. PICK x \in T : \A y \in T : ~ (<<y, x>> \in R)
  <2>1. IsWellFoundedOn(R, Nat)
    BY NatLessThanWellFounded DEF OpToRel
  <2> HIDE DEF T, R
  <2> QED
    BY <1>1, <2>1, WFMin
<1>3. \A y \in T : ~ (y < x)
  BY <1>1, <1>2
<1>4. PICK o \in S : x = bound - o
  OBVIOUS
<1>5. ASSUME NEW other \in S
      PROVE  other <= o
  <2>1. bound - other \in T
    OBVIOUS
  <2>2. ~ (bound - other < bound - o)
    BY <2>1, <1>3, <1>4
  <2> QED
    BY <2>2
<1>6. \E m \in S : \A other \in S : other <= m
  BY <1>5
<1> QED
  BY <1>6 DEF Largest

--------------------------------------------------------------------------------
(* What a put does to the state of a task                                     *)

\* The lists that may be put.
LEMMA ListFacts ==
    ASSUME NEW t \in Tasks, NEW list \in NextLists(t)
    PROVE  /\ list \in SUBSET Records
           /\ \A r \in list : r[1] \in assigned[t] /\ r[2] >= position[t][r[1]]
           /\ \A r \in list : position[t][r[1]] .. r[2] \subseteq OffsetsOf(list, r[1])
BY DEF NextLists

\* The watermark that a put leaves behind is that of before, or a new one, one
\* below the position, for a partition of the list.
LEMMA SeededFacts ==
    ASSUME TypeOK, NEW t \in Tasks, NEW list \in NextLists(t)
    PROVE  /\ Seeded(t, list) \in [Partitions -> Nat \cup {-1, None}]
           /\ \A p \in Partitions : Seeded(t, list)[p] # durablyInsertedOffsets[t][p] =>
                 /\ durablyInsertedOffsets[t][p] = None
                 /\ Seeded(t, list)[p] = position[t][p] - 1
                 /\ p \in assigned[t]
           /\ \A r \in list : Seeded(t, list)[r[1]] # None
<1>1. ASSUME NEW p \in Partitions
      PROVE  /\ position[t][p] \in Nat
             /\ position[t][p] - 1 \in Nat \cup {-1}
             /\ position[t][p] - 1 # None
             /\ durablyInsertedOffsets[t][p] \in Nat \cup {-1, None}
  BY SinkTaskAssumption DEF TypeOK
<1>2. ASSUME NEW p \in Partitions, OffsetsOf(list, p) # {}
      PROVE  p \in assigned[t]
  BY <1>2, ListFacts DEF OffsetsOf
<1>3. ASSUME NEW r \in list
      PROVE  r[1] \in Partitions /\ OffsetsOf(list, r[1]) # {}
  BY ListFacts, RecordFacts DEF OffsetsOf
<1> QED
  BY <1>1, <1>2, <1>3 DEF Seeded

\* The position after a put is past all the records of the list, and no further.
LEMMA AfterFacts ==
    ASSUME TypeOK, NEW t \in Tasks, NEW list \in NextLists(t)
    PROVE  /\ After(t, list) \in [Partitions -> Nat]
           /\ \A p \in Partitions : After(t, list)[p] >= position[t][p]
           /\ \A p \in Partitions : \A o \in position[t][p] .. After(t, list)[p] - 1 :
                 <<p, o>> \in list
           /\ \A p \in Partitions : OffsetsOf(list, p) = {} =>
                 After(t, list)[p] = position[t][p]
<1> SUFFICES ASSUME NEW p \in Partitions
             PROVE  /\ After(t, list)[p] \in Nat
                    /\ After(t, list)[p] >= position[t][p]
                    /\ \A o \in position[t][p] .. After(t, list)[p] - 1 : <<p, o>> \in list
                    /\ OffsetsOf(list, p) = {} => After(t, list)[p] = position[t][p]
  BY DEF After
<1>1. position[t][p] \in Nat
  BY DEF TypeOK
<1>2. list \in SUBSET Records
  BY ListFacts
<1>3. CASE OffsetsOf(list, p) = {}
  BY <1>1, <1>3 DEF After
<1>4. CASE OffsetsOf(list, p) # {}
  <2> DEFINE last == Largest(OffsetsOf(list, p))
  <2>1. last \in OffsetsOf(list, p)
    BY <1>2, <1>4, OffsetFacts, LargestFacts
  <2>2. last \in Nat /\ <<p, last>> \in list
    BY <1>2, <2>1, OffsetFacts
  <2>3. <<p, last>>[1] = p /\ <<p, last>>[2] = last
    OBVIOUS
  <2>4. last >= position[t][p] /\ position[t][p] .. last \subseteq OffsetsOf(list, p)
    BY <2>2, <2>3, ListFacts
  <2>5. \A o \in position[t][p] .. last : <<p, o>> \in list
    BY <1>2, <2>4, OffsetFacts
  <2>6. After(t, list)[p] = last + 1
    BY <1>4 DEF After
  <2> HIDE DEF last
  <2> QED
    BY <1>1, <1>4, <2>2, <2>4, <2>5, <2>6
<1> QED
  BY <1>3, <1>4

\* The deduplicator adds nothing.
LEMMA AcceptedFacts ==
    ASSUME NEW t, NEW list, NEW batch \in Accepted(t, list)
    PROVE  /\ batch \subseteq list
           /\ policy = "off" => batch = list
<1>1. CASE policy = "off"
  BY <1>1 DEF Accepted
<1>2. CASE policy # "off"
  <2> DEFINE topics == {TopicOf[r[1]] : r \in list} \ pool[t]
  <2>1. PICK first \in [topics -> list] : batch = {first[c] : c \in topics}
    BY <1>2 DEF Accepted
  <2> QED
    BY <1>2, <2>1
<1> QED
  BY <1>1, <1>2

\* With a policy, what the deduplicator lets through is the record at the position
\* of a partition whose topic it has not seen.
LEMMA AcceptedFirst ==
    ASSUME TypeOK, NEW t \in Tasks, NEW list \in NextLists(t),
           NEW batch \in Accepted(t, list), policy # "off", NEW r \in batch
    PROVE  /\ r[2] <= position[t][r[1]]
           /\ TopicOf[r[1]] \notin pool[t]
<1> DEFINE topics == {TopicOf[x[1]] : x \in list} \ pool[t]
           IsFirst(x) == \A y \in list : y[1] = x[1] => x[2] <= y[2]
<1>1. PICK first \in [topics -> list] :
          /\ \A c \in topics : TopicOf[first[c][1]] = c /\ IsFirst(first[c])
          /\ batch = {first[c] : c \in topics}
  BY DEF Accepted
<1>2. PICK c \in topics : r = first[c]
  BY <1>1
<1>3. TopicOf[r[1]] \notin pool[t] /\ IsFirst(r) /\ r \in list
  BY <1>1, <1>2
<1>4. r \in Records /\ r[1] \in Partitions /\ r[2] \in Nat /\ position[t][r[1]] \in Nat
  BY <1>3, ListFacts, RecordFacts DEF TypeOK
<1>5. position[t][r[1]] \in position[t][r[1]] .. r[2]
  BY <1>3, <1>4, ListFacts
<1>6. <<r[1], position[t][r[1]]>> \in list
  BY <1>3, <1>4, <1>5, ListFacts, OffsetFacts
<1> QED
  BY <1>3, <1>4, <1>6

\* The topics seen are topics.
LEMMA SeenFacts ==
    ASSUME TypeOK, NEW t \in Tasks, NEW list \in NextLists(t)
    PROVE  /\ SeenTopics(t, list) \in SUBSET Topics
           /\ pool[t] \subseteq SeenTopics(t, list)
           /\ policy # "off" => \A r \in list : TopicOf[r[1]] \in SeenTopics(t, list)
BY ListFacts, RecordFacts, SinkTaskAssumption DEF TypeOK, SeenTopics

\* The watermark after an insert is that of before, or the offset of a row.
LEMMA MergedFacts ==
    ASSUME TypeOK, NEW t \in Tasks, NEW rows \in SUBSET Records
    PROVE  /\ Merged(t, rows) \in [Partitions -> Nat \cup {-1, None}]
           /\ \A p \in Partitions : Merged(t, rows)[p] # durablyInsertedOffsets[t][p] =>
                 /\ Merged(t, rows)[p] \in Nat
                 /\ <<p, Merged(t, rows)[p]>> \in rows
                 /\ durablyInsertedOffsets[t][p] # None =>
                       durablyInsertedOffsets[t][p] < Merged(t, rows)[p]
<1> SUFFICES ASSUME NEW p \in Partitions
             PROVE  /\ Merged(t, rows)[p] \in Nat \cup {-1, None}
                    /\ Merged(t, rows)[p] # durablyInsertedOffsets[t][p] =>
                          /\ Merged(t, rows)[p] \in Nat
                          /\ <<p, Merged(t, rows)[p]>> \in rows
                          /\ durablyInsertedOffsets[t][p] # None =>
                                durablyInsertedOffsets[t][p] < Merged(t, rows)[p]
  BY DEF Merged
<1>1. durablyInsertedOffsets[t][p] \in Nat \cup {-1, None}
  BY DEF TypeOK
<1>2. CASE ~ \E o \in OffsetsOf(rows, p) : o > durablyInsertedOffsets[t][p]
  BY <1>1, <1>2 DEF Merged
<1>3. CASE \E o \in OffsetsOf(rows, p) : o > durablyInsertedOffsets[t][p]
  <2> DEFINE last == Largest(OffsetsOf(rows, p))
  <2>1. last \in OffsetsOf(rows, p) /\ \A o \in OffsetsOf(rows, p) : o <= last
    BY <1>3, OffsetFacts, LargestFacts
  <2>2. Merged(t, rows)[p] = last
    BY <1>3 DEF Merged
  <2>3. last \in Nat /\ <<p, last>> \in rows /\ OffsetsOf(rows, p) \subseteq Nat
    BY <2>1, OffsetFacts
  <2> HIDE DEF last
  <2> QED
    BY <1>1, <1>3, <2>1, <2>2, <2>3, SinkTaskAssumption
<1> QED
  BY <1>2, <1>3

--------------------------------------------------------------------------------
(* Types                                                                      *)

\* The type invariant holds in the beginning.
LEMMA TypeInit == Init => TypeInv
<1> SUFFICES ASSUME Init
             PROVE  TypeInv
  OBVIOUS
<1>1. TypeOK
  BY SinkTaskAssumption DEF Init, TypeOK
<1>2. WriterHasBatch
  BY DEF Init, WriterHasBatch
<1> QED
  BY <1>1, <1>2 DEF TypeInv

\* A step of Kafka Connect keeps it.
LEMMA TypeConnect ==
    ASSUME TypeInv, NEW t \in Tasks, Connect(t)
    PROVE  TypeInv'
<1> USE SinkTaskAssumption DEF TypeInv, TypeOK, WriterHasBatch
<1>1. CASE Start(t)
  BY <1>1 DEF Start, taskVars
<1>2. CASE Stop(t)
  BY <1>2 DEF Stop, taskVars, workerVars
<1>3. CASE Die(t)
  BY <1>3 DEF Die
<1>4. ASSUME NEW p \in Partitions, Assign(t, p)
      PROVE  TypeInv'
  BY <1>4 DEF Assign, taskVars, workerVars
<1>5. ASSUME NEW p \in Partitions, Revoke(t, p)
      PROVE  TypeInv'
  BY <1>5 DEF Revoke, taskVars, workerVars
<1> QED
  BY <1>1, <1>2, <1>3, <1>4, <1>5 DEF Connect

\* A step of the thread of a task keeps it.
LEMMA TypeThread ==
    ASSUME TypeInv, NEW t \in Tasks, Put(t) \/ PutFails(t) \/ PreCommit(t)
    PROVE  TypeInv'
<1>1. CASE Put(t)
  <2>0. PICK list \in NextLists(t) :
            /\ durablyInsertedOffsets' =
                   [durablyInsertedOffsets EXCEPT ![t] = Seeded(t, list)]
            /\ pool' = [pool EXCEPT ![t] = SeenTopics(t, list)]
            /\ \E batch \in Accepted(t, list) :
                  records' = [records EXCEPT ![t] = Append(@, Converted(batch))]
            /\ position' = [position EXCEPT ![t] = After(t, list)]
    BY <1>1 DEF Put
  <2>1. PICK batch \in Accepted(t, list) :
            records' = [records EXCEPT ![t] = Append(@, Converted(batch))]
    BY <2>0
  <2>2. Converted(batch) \in Rows
    BY ListFacts, AcceptedFacts DEF Converted, Rows
  <2>3. /\ Seeded(t, list) \in [Partitions -> Nat \cup {-1, None}]
        /\ SeenTopics(t, list) \in SUBSET Topics
        /\ After(t, list) \in [Partitions -> Nat]
    BY SeededFacts, SeenFacts, AfterFacts DEF TypeInv
  <2>4. UNCHANGED <<policy, committed, status, assigned, pc, currentBatch, todo, inserted,
                    moves, returned>>
    BY <1>1 DEF Put, workerVars
  <2>5. /\ durablyInsertedOffsets' \in [Tasks -> [Partitions -> Nat \cup {-1, None}]]
        /\ pool' \in [Tasks -> SUBSET Topics]
        /\ position' \in [Tasks -> [Partitions -> Nat]]
    BY <2>0, <2>3 DEF TypeInv, TypeOK
  <2>6. records' \in [Tasks -> Seq(Rows)]
    BY <2>1, <2>2 DEF TypeInv, TypeOK, Rows
  <2> QED
    BY <2>4, <2>5, <2>6 DEF TypeInv, TypeOK, WriterHasBatch, Rows
<1>2. CASE PutFails(t)
  <2>1. PICK list \in NextLists(t) :
            /\ durablyInsertedOffsets' =
                   [durablyInsertedOffsets EXCEPT ![t] = Seeded(t, list)]
            /\ pool' = [pool EXCEPT ![t] = SeenTopics(t, list)]
    BY <1>2 DEF PutFails
  <2>2. /\ Seeded(t, list) \in [Partitions -> Nat \cup {-1, None}]
        /\ SeenTopics(t, list) \in SUBSET Topics
    BY SeededFacts, SeenFacts DEF TypeInv
  <2>3. /\ durablyInsertedOffsets' \in [Tasks -> [Partitions -> Nat \cup {-1, None}]]
        /\ pool' \in [Tasks -> SUBSET Topics]
    BY <2>1, <2>2 DEF TypeInv, TypeOK
  <2> QED
    BY <1>2, <2>3 DEF PutFails, connectVars, workerVars, TypeInv, TypeOK, WriterHasBatch, Rows
<1>3. CASE PreCommit(t)
  <2>1. ASSUME NEW p \in Partitions
        PROVE  CommittedOffset(t, p) \in Nat
    <3>1. position[t][p] \in Nat /\ durablyInsertedOffsets[t][p] \in Nat \cup {-1, None}
      BY DEF TypeInv, TypeOK
    <3> QED
      BY <3>1 DEF CommittedOffset, Least
  <2>2. committed' \in [Partitions -> Nat]
    BY <1>3, <2>1 DEF PreCommit, TypeInv, TypeOK
  <2> QED
    BY <1>3, <2>2 DEF PreCommit, taskVars, workerVars, TypeInv, TypeOK, WriterHasBatch, Rows
<1> QED
  BY <1>1, <1>2, <1>3

\* A step of a worker.
Work(t) ==
    Poll(t) \/ InsertTopic(t) \/ FinishBatch(t) \/ Fail(t) \/ FailFatally(t)

\* It keeps the type invariant.
LEMMA TypeWorker ==
    ASSUME TypeInv, NEW t \in Tasks, Work(t)
    PROVE  TypeInv'
<1>1. CASE Poll(t)
  <2>0. /\ records \in [Tasks -> Seq(Rows)]
        /\ currentBatch \in [Tasks -> Rows \cup {None}]
        /\ records[t] # <<>> => Head(records[t]) \in Rows /\ Tail(records[t]) \in Seq(Rows)
    BY DEF TypeInv, TypeOK, Rows
  <2>1. currentBatch' \in [Tasks -> Rows \cup {None}]
    BY <1>1, <2>0 DEF Poll
  <2>2. records' \in [Tasks -> Seq(Rows)]
    BY <1>1, <2>0 DEF Poll
  <2>3. currentBatch'[t] \in Rows
    BY <1>1, <2>0 DEF Poll
  <2>4. TopicsIn(currentBatch'[t]) \in SUBSET Topics
    BY <2>3, RecordFacts, SinkTaskAssumption DEF TopicsIn, Rows
  <2>5. todo' \in [Tasks -> SUBSET Topics]
    BY <1>1, <2>4 DEF Poll, TypeInv, TypeOK
  <2>6. /\ pc' = [pc EXCEPT ![t] = "writing"]
        /\ \A u \in Tasks \ {t} : currentBatch'[u] = currentBatch[u]
    BY <1>1 DEF Poll, TypeInv, TypeOK
  <2>7. TypeOK'
    BY <1>1, <2>1, <2>2, <2>5, <2>6 DEF Poll, connectVars, TypeInv, TypeOK, Rows
  <2>8. WriterHasBatch'
    BY <2>3, <2>6 DEF TypeInv, TypeOK, WriterHasBatch
  <2> QED
    BY <2>7, <2>8 DEF TypeInv
<1>2. CASE InsertTopic(t)
  <2>1. PICK c \in todo[t] :
            /\ inserted' = inserted \cup RowsOf(t, c)
            /\ durablyInsertedOffsets' =
                   [durablyInsertedOffsets EXCEPT ![t] = Merged(t, RowsOf(t, c))]
            /\ todo' = [todo EXCEPT ![t] = @ \ {c}]
    BY <1>2 DEF InsertTopic
  <2>2. RowsOf(t, c) \in SUBSET Records
    BY <1>2 DEF InsertTopic, RowsOf, TypeInv, WriterHasBatch, Rows
  <2>3. Merged(t, RowsOf(t, c)) \in [Partitions -> Nat \cup {-1, None}]
    BY <2>2, MergedFacts DEF TypeInv
  <2>4. /\ durablyInsertedOffsets' \in [Tasks -> [Partitions -> Nat \cup {-1, None}]]
        /\ todo' \in [Tasks -> SUBSET Topics]
        /\ inserted' \subseteq Records
    BY <2>1, <2>2, <2>3 DEF TypeInv, TypeOK
  <2> QED
    BY <1>2, <2>4 DEF InsertTopic, connectVars, TypeInv, TypeOK, WriterHasBatch
<1>3. CASE FinishBatch(t)
  BY <1>3 DEF FinishBatch, connectVars, taskVars, TypeInv, TypeOK, WriterHasBatch
<1>4. CASE Fail(t)
  BY <1>4 DEF Fail, connectVars, taskVars, TypeInv, TypeOK, WriterHasBatch
<1>5. CASE FailFatally(t)
  BY <1>5 DEF FailFatally, connectVars, taskVars, TypeInv, TypeOK, WriterHasBatch
<1> QED
  BY <1>1, <1>2, <1>3, <1>4, <1>5 DEF Work

\* Every step keeps it.
LEMMA TypeNext == TypeInv /\ [Next]_vars => TypeInv'
<1>1. ASSUME TypeInv, UNCHANGED vars
      PROVE  TypeInv'
  BY <1>1 DEF vars, connectVars, taskVars, workerVars, TypeInv, TypeOK, WriterHasBatch
<1> QED
  BY <1>1, TypeConnect, TypeThread, TypeWorker DEF Next, Work

\* Every variable of the sink task, its worker and Kafka Connect has its type: the
\* queue holds records with a row only, and a watermark is an offset, or -1, or null.
THEOREM TypeCorrect == Spec => []TypeOK
<1>1. Spec => []TypeInv
  BY TypeInit, TypeNext, PTL DEF Spec
<1>2. TypeInv => TypeOK
  BY DEF TypeInv
<1> QED
  BY <1>1, <1>2, PTL

--------------------------------------------------------------------------------
(* What has landed                                                            *)

\* What has landed before an offset has landed before a smaller one.
LEMMA LandedLess ==
    ASSUME NEW p, NEW m \in Int, NEW n \in Int, m <= n, LandedBefore(p, n)
    PROVE  LandedBefore(p, m)
<1> SUFFICES ASSUME NEW o \in 0 .. m - 1
             PROVE  <<p, o>> \in inserted \cup Tombstones
  BY DEF LandedBefore
<1>1. o \in 0 .. n - 1
  OBVIOUS
<1> QED
  BY <1>1 DEF LandedBefore

\* LandedInv holds in the beginning.
LEMMA LandedInit == Init => LandedInv
<1> SUFFICES ASSUME Init
             PROVE  LandedInv
  OBVIOUS
<1>1. \A p : {p} \X (0 .. 0 - 1) = {}
  OBVIOUS
<1>2. \A t \in Tasks : InHand(t) = {} /\ Len(records[t]) = 0
  BY DEF Init, InHand
<1>3. NewTask /\ DoneTopics /\ HandInOrder /\ QueueInOrder /\ PositionInOrder
  BY <1>2 DEF Init, NewTask, DoneTopics, HandInOrder, QueueInOrder, PositionInOrder
<1>4. StartLanded /\ WatermarkLanded
  BY DEF Init, StartLanded, WatermarkLanded
<1>5. CommittedIsInserted
  BY <1>1 DEF Init, CommittedIsInserted, LandedBefore
<1> QED
  BY <1>3, <1>4, <1>5 DEF LandedInv

\* The start of a task does not touch what is in the hands of anybody.
LEMMA LandedStart ==
    ASSUME TypeInv, LandedInv, NEW t \in Tasks, Start(t)
    PROVE  LandedInv'
<1>1. /\ status[t] = "new" /\ status' = [status EXCEPT ![t] = "running"]
      /\ pc' = [pc EXCEPT ![t] = "head"]
      /\ UNCHANGED <<policy, committed, assigned, position, records,
                     durablyInsertedOffsets, pool, currentBatch, todo, inserted>>
  BY DEF Start, taskVars
<1>2. pc[t] = "none"
  BY <1>1 DEF LandedInv, NewTask
<1>3. \A u \in Tasks : /\ pc'[u] = "dead" => pc[u] = "dead"
                       /\ pc'[u] # "dead" => pc[u] # "dead"
                       /\ pc'[u] = "writing" => pc[u] = "writing"
  BY <1>1, <1>2 DEF TypeInv, TypeOK
<1>4. NewTask'
  BY <1>1 DEF LandedInv, NewTask, TypeInv, TypeOK
<1>5. DoneTopics' /\ HandInOrder' /\ QueueInOrder' /\ PositionInOrder'
  BY <1>1, <1>3 DEF LandedInv, DoneTopics, HandInOrder, QueueInOrder, PositionInOrder,
                    Landed, InHand, Queued
<1>6. StartLanded' /\ WatermarkLanded' /\ CommittedIsInserted'
  BY <1>1 DEF LandedInv, StartLanded, WatermarkLanded, CommittedIsInserted, LandedBefore
<1> QED
  BY <1>4, <1>5, <1>6 DEF LandedInv

\* A task that is stopped has no partitions, and goes on with what it has.
LEMMA LandedStop ==
    ASSUME TypeInv, LandedInv, NEW t \in Tasks, Stop(t)
    PROVE  LandedInv'
<1>1. /\ status' = [status EXCEPT ![t] = "stopped"]
      /\ assigned' = [assigned EXCEPT ![t] = {}]
      /\ position' = [position EXCEPT ![t] = [p \in Partitions |-> 0]]
      /\ UNCHANGED <<policy, committed, records, durablyInsertedOffsets, pool, pc,
                     currentBatch, todo, inserted>>
  BY DEF Stop, taskVars, workerVars
<1>2. \A u \in Tasks : \A p \in assigned'[u] :
          p \in assigned[u] /\ position'[u][p] = position[u][p]
  BY <1>1 DEF TypeInv, TypeOK
<1>3. NewTask'
  BY <1>1 DEF LandedInv, NewTask, TypeInv, TypeOK
<1>4. DoneTopics' /\ HandInOrder' /\ QueueInOrder'
  BY <1>1 DEF LandedInv, DoneTopics, HandInOrder, QueueInOrder, Landed, InHand, Queued
<1>5. PositionInOrder' /\ StartLanded'
  BY <1>1, <1>2 DEF LandedInv, PositionInOrder, StartLanded, LandedBefore, Landed, InHand,
                    Queued
<1>6. WatermarkLanded' /\ CommittedIsInserted'
  BY <1>1 DEF LandedInv, WatermarkLanded, CommittedIsInserted, LandedBefore
<1> QED
  BY <1>3, <1>4, <1>5, <1>6 DEF LandedInv

\* A partition goes away; the rest stays.
LEMMA LandedRevoke ==
    ASSUME TypeInv, LandedInv, NEW t \in Tasks, NEW p \in Partitions, Revoke(t, p)
    PROVE  LandedInv'
<1>1. /\ assigned' = [assigned EXCEPT ![t] = @ \ {p}]
      /\ position' = [position EXCEPT ![t][p] = 0]
      /\ UNCHANGED <<policy, committed, status, records, durablyInsertedOffsets, pool, pc,
                     currentBatch, todo, inserted>>
  BY DEF Revoke, taskVars, workerVars
<1>2. \A u \in Tasks : \A q \in assigned'[u] :
          q \in assigned[u] /\ position'[u][q] = position[u][q]
  BY <1>1 DEF TypeInv, TypeOK
<1>3. NewTask' /\ DoneTopics' /\ HandInOrder' /\ QueueInOrder'
  BY <1>1 DEF LandedInv, NewTask, DoneTopics, HandInOrder, QueueInOrder, Landed, InHand,
              Queued
<1>4. PositionInOrder' /\ StartLanded'
  BY <1>1, <1>2 DEF LandedInv, PositionInOrder, StartLanded, LandedBefore, Landed, InHand,
                    Queued
<1>5. WatermarkLanded' /\ CommittedIsInserted'
  BY <1>1 DEF LandedInv, WatermarkLanded, CommittedIsInserted, LandedBefore
<1> QED
  BY <1>3, <1>4, <1>5 DEF LandedInv

\* A partition is read from the committed offset, before which all has landed.
LEMMA LandedAssign ==
    ASSUME TypeInv, LandedInv, NEW t \in Tasks, NEW p \in Partitions, Assign(t, p)
    PROVE  LandedInv'
<1>1. /\ assigned' = [assigned EXCEPT ![t] = @ \cup {p}]
      /\ position' = [position EXCEPT ![t][p] = committed[p]]
      /\ UNCHANGED <<policy, committed, status, records, durablyInsertedOffsets, pool, pc,
                     currentBatch, todo, inserted>>
  BY DEF Assign, taskVars, workerVars
<1>2. \A u \in Tasks : \A q \in assigned'[u] :
          \/ u = t /\ q = p /\ position'[u][q] = committed[p]
          \/ q \in assigned[u] /\ position'[u][q] = position[u][q]
  BY <1>1 DEF TypeInv, TypeOK
<1>3. {p} \X (0 .. committed[p] - 1) \subseteq Landed /\ LandedBefore(p, committed[p])
  BY DEF LandedInv, CommittedIsInserted, LandedBefore, Landed
<1>4. NewTask' /\ DoneTopics' /\ HandInOrder' /\ QueueInOrder'
  BY <1>1 DEF LandedInv, NewTask, DoneTopics, HandInOrder, QueueInOrder, Landed, InHand,
              Queued
<1>5. PositionInOrder'
  <2> SUFFICES ASSUME NEW u \in Tasks, pc[u] # "dead", NEW q \in assigned'[u],
                      policy = "off" \/ TopicOf[q] \notin pool[u]
               PROVE  {q} \X (0 .. position'[u][q] - 1) \subseteq
                          Landed \cup InHand(u) \cup Queued(u, Len(records[u]))
    BY <1>1 DEF PositionInOrder, Landed, InHand, Queued
  <2> QED
    BY <1>2, <1>3 DEF LandedInv, PositionInOrder
<1>6. StartLanded'
  BY <1>1, <1>2, <1>3 DEF LandedInv, StartLanded, LandedBefore
<1>7. WatermarkLanded' /\ CommittedIsInserted'
  BY <1>1 DEF LandedInv, WatermarkLanded, CommittedIsInserted, LandedBefore
<1> QED
  BY <1>4, <1>5, <1>6, <1>7 DEF LandedInv

\* A task that dies leaves what has landed.
LEMMA LandedDie ==
    ASSUME TypeInv, LandedInv, NEW t \in Tasks, Die(t)
    PROVE  LandedInv'
<1>1. /\ status' = [status EXCEPT ![t] = "stopped"]
      /\ assigned' = [assigned EXCEPT ![t] = {}]
      /\ durablyInsertedOffsets' =
            [durablyInsertedOffsets EXCEPT ![t] = [p \in Partitions |-> None]]
      /\ pc' = [pc EXCEPT ![t] = "dead"]
      /\ UNCHANGED <<policy, committed, inserted>>
  BY DEF Die
<1>2. ASSUME NEW u \in Tasks, u # t
      PROVE  /\ status'[u] = status[u] /\ assigned'[u] = assigned[u]
             /\ position'[u] = position[u] /\ records'[u] = records[u]
             /\ durablyInsertedOffsets'[u] = durablyInsertedOffsets[u]
             /\ pool'[u] = pool[u] /\ pc'[u] = pc[u]
             /\ currentBatch'[u] = currentBatch[u] /\ todo'[u] = todo[u]
             /\ InHand(u)' = InHand(u)
             /\ \A i : Queued(u, i)' = Queued(u, i)
  BY <1>2 DEF Die, TypeInv, TypeOK, InHand, Queued
<1>3. pc'[t] = "dead" /\ assigned'[t] = {} /\ status'[t] # "new"
  BY <1>1 DEF TypeInv, TypeOK
<1>4. NewTask' /\ DoneTopics'
  BY <1>1, <1>2, <1>3 DEF LandedInv, NewTask, DoneTopics
<1>5. HandInOrder' /\ QueueInOrder'
  BY <1>1, <1>2, <1>3 DEF LandedInv, HandInOrder, QueueInOrder, Landed
<1>6. PositionInOrder'
  BY <1>1, <1>2, <1>3 DEF LandedInv, PositionInOrder, Landed
<1>7. StartLanded'
  BY <1>1, <1>2, <1>3 DEF LandedInv, StartLanded, LandedBefore
<1>8. \A p \in Partitions : durablyInsertedOffsets'[t][p] = None
  BY <1>1 DEF TypeInv, TypeOK
<1>9. WatermarkLanded'
  BY <1>1, <1>2, <1>8 DEF LandedInv, WatermarkLanded, LandedBefore
<1>10. CommittedIsInserted'
  BY <1>1 DEF LandedInv, CommittedIsInserted, LandedBefore
<1> QED
  BY <1>4, <1>5, <1>6, <1>7, <1>9, <1>10 DEF LandedInv

\* The offsets that preCommit returns are not past what has landed.
LEMMA LandedPreCommit ==
    ASSUME TypeInv, LandedInv, NEW t \in Tasks, PreCommit(t)
    PROVE  LandedInv'
<1>1. /\ committed' = [p \in Partitions |->
                          IF p \in assigned[t] THEN CommittedOffset(t, p) ELSE committed[p]]
      /\ UNCHANGED <<policy, status, assigned, position, records, durablyInsertedOffsets,
                     pool, pc, currentBatch, todo, inserted>>
  BY DEF PreCommit, taskVars, workerVars
<1>2. ASSUME NEW p \in Partitions, p \in assigned[t]
      PROVE  LandedBefore(p, CommittedOffset(t, p))
  <2>1. position[t][p] \in Nat /\ durablyInsertedOffsets[t][p] \in Nat \cup {-1, None}
    BY DEF TypeInv, TypeOK
  <2>2. CASE durablyInsertedOffsets[t][p] = None
    BY <1>2, <2>2 DEF CommittedOffset, LandedInv, StartLanded
  <2>3. CASE durablyInsertedOffsets[t][p] # None
    <3>1. LandedBefore(p, durablyInsertedOffsets[t][p] + 1)
      BY <2>3 DEF LandedInv, WatermarkLanded
    <3>2. /\ CommittedOffset(t, p) \in Int /\ durablyInsertedOffsets[t][p] + 1 \in Int
          /\ CommittedOffset(t, p) <= durablyInsertedOffsets[t][p] + 1
      BY <2>1, <2>3 DEF CommittedOffset, Least
    <3> QED
      BY <3>1, <3>2, LandedLess
  <2> QED
    BY <2>2, <2>3
<1>3. CommittedIsInserted'
  BY <1>1, <1>2 DEF LandedInv, CommittedIsInserted, LandedBefore
<1>4. NewTask' /\ DoneTopics' /\ HandInOrder' /\ QueueInOrder'
  BY <1>1 DEF LandedInv, NewTask, DoneTopics, HandInOrder, QueueInOrder, Landed, InHand,
              Queued
<1>5. PositionInOrder' /\ StartLanded' /\ WatermarkLanded'
  BY <1>1 DEF LandedInv, PositionInOrder, StartLanded, WatermarkLanded, LandedBefore,
              Landed, InHand, Queued
<1> QED
  BY <1>3, <1>4, <1>5 DEF LandedInv

\* A watermark that a put seeds is one below an offset before which all has landed.
LEMMA LandedSeed ==
    ASSUME TypeInv, LandedInv, NEW t \in Tasks, NEW list \in NextLists(t),
           durablyInsertedOffsets' = [durablyInsertedOffsets EXCEPT ![t] = Seeded(t, list)],
           UNCHANGED inserted
    PROVE  WatermarkLanded'
<1> SUFFICES ASSUME NEW u \in Tasks, NEW p \in Partitions,
                    durablyInsertedOffsets'[u][p] # None
             PROVE  LandedBefore(p, durablyInsertedOffsets'[u][p] + 1)
  BY DEF WatermarkLanded, LandedBefore
<1>1. CASE durablyInsertedOffsets'[u][p] = durablyInsertedOffsets[u][p]
  BY <1>1 DEF LandedInv, WatermarkLanded
<1>2. CASE durablyInsertedOffsets'[u][p] # durablyInsertedOffsets[u][p]
  <2>1. u = t /\ durablyInsertedOffsets'[u][p] = Seeded(t, list)[p]
    BY <1>2 DEF TypeInv, TypeOK
  <2>2. /\ durablyInsertedOffsets[t][p] = None /\ p \in assigned[t]
        /\ durablyInsertedOffsets'[t][p] = position[t][p] - 1
    BY <1>2, <2>1, SeededFacts DEF TypeInv
  <2>3. position[t][p] \in Nat
    BY DEF TypeInv, TypeOK
  <2>4. durablyInsertedOffsets'[t][p] + 1 = position[t][p]
    BY <2>2, <2>3
  <2> QED
    BY <2>1, <2>2, <2>4 DEF LandedInv, StartLanded
<1> QED
  BY <1>1, <1>2

\* A put that fails leaves a watermark and topics that are seen.
LEMMA LandedPutFails ==
    ASSUME TypeInv, LandedInv, NEW t \in Tasks, PutFails(t)
    PROVE  LandedInv'
<1>1. PICK list \in NextLists(t) :
          /\ durablyInsertedOffsets' = [durablyInsertedOffsets EXCEPT ![t] = Seeded(t, list)]
          /\ pool' = [pool EXCEPT ![t] = SeenTopics(t, list)]
  BY DEF PutFails
<1>2. UNCHANGED <<policy, committed, status, assigned, position, records, pc,
                  currentBatch, todo, inserted>>
  BY DEF PutFails, connectVars, workerVars
<1>3. WatermarkLanded'
  BY <1>1, <1>2, LandedSeed
<1>4. NewTask' /\ DoneTopics' /\ HandInOrder' /\ QueueInOrder' /\ CommittedIsInserted'
  BY <1>2 DEF LandedInv, NewTask, DoneTopics, HandInOrder, QueueInOrder, Landed, InHand,
              Queued, CommittedIsInserted, LandedBefore
<1>5. \A u \in Tasks : pool[u] \subseteq pool'[u]
  BY <1>1, SeenFacts DEF TypeInv, TypeOK
<1>6. PositionInOrder'
  BY <1>2, <1>5 DEF LandedInv, PositionInOrder, Landed, InHand, Queued
<1>7. \A u \in Tasks : \A p \in Partitions :
          durablyInsertedOffsets'[u][p] = None => durablyInsertedOffsets[u][p] = None
  BY <1>1, SeededFacts DEF TypeInv, TypeOK
<1>8. \A u \in Tasks : assigned[u] \subseteq Partitions
  BY DEF TypeInv, TypeOK
<1>9. StartLanded'
  BY <1>2, <1>7, <1>8 DEF LandedInv, StartLanded, LandedBefore
<1> QED
  BY <1>3, <1>4, <1>6, <1>9 DEF LandedInv

\* A put appends a batch before which nothing is missing, but ahead of it.
LEMMA LandedPut ==
    ASSUME TypeInv, LandedInv, NEW t \in Tasks, Put(t)
    PROVE  LandedInv'
<1>1. PICK list \in NextLists(t) :
          /\ durablyInsertedOffsets' = [durablyInsertedOffsets EXCEPT ![t] = Seeded(t, list)]
          /\ pool' = [pool EXCEPT ![t] = SeenTopics(t, list)]
          /\ \E batch \in Accepted(t, list) :
                records' = [records EXCEPT ![t] = Append(@, Converted(batch))]
          /\ position' = [position EXCEPT ![t] = After(t, list)]
  BY DEF Put
<1>2. PICK batch \in Accepted(t, list) :
          records' = [records EXCEPT ![t] = Append(@, Converted(batch))]
  BY <1>1
<1>3. UNCHANGED <<policy, committed, status, assigned, pc, currentBatch, todo, inserted>>
  BY DEF Put, workerVars
<1>0. PICK n \in Nat : n = Len(records[t])
  BY DEF TypeInv, TypeOK
<1>4. /\ records \in [Tasks -> Seq(Rows)] /\ n \in Nat
      /\ Len(records'[t]) = n + 1
      /\ records'[t][n + 1] = Converted(batch)
      /\ \A i \in 1 .. n : records'[t][i] = records[t][i]
      /\ \A u \in Tasks \ {t} : records'[u] = records[u]
  BY <1>0, <1>2 DEF TypeInv, TypeOK, Rows
<1>5. \A i \in 1 .. n : Queued(t, i)' = Queued(t, i)
  <2>1. SUFFICES ASSUME NEW i \in 1 .. n
                 PROVE  Queued(t, i)' = Queued(t, i)
    OBVIOUS
  <2>2. \A j \in 1 .. i : j \in 1 .. n
    BY <1>4
  <2>3. \A j \in 1 .. i : records'[t][j] = records[t][j]
    BY <1>4, <2>2
  <2> QED
    BY <2>3, Zenon DEF Queued
<1>6. Queued(t, n + 1)' = Queued(t, n) \cup Converted(batch)
  <2>1. 1 .. n + 1 = 1 .. n \cup {n + 1}
    BY <1>4
  <2> QED
    BY <1>4, <2>1 DEF Queued
<1>7. \A u \in Tasks \ {t} : \A i : Queued(u, i)' = Queued(u, i)
  BY <1>4 DEF Queued
<1>8. InHand(t)' = InHand(t) /\ Landed' = Landed /\ \A u \in Tasks : InHand(u)' = InHand(u)
  BY <1>3 DEF InHand, Landed
<1>9. WatermarkLanded'
  BY <1>1, <1>3, LandedSeed
<1>10. NewTask' /\ DoneTopics' /\ HandInOrder' /\ CommittedIsInserted'
  BY <1>3 DEF LandedInv, NewTask, DoneTopics, HandInOrder, Landed, InHand,
              CommittedIsInserted, LandedBefore
<1>11. ASSUME NEW r \in batch, pc[t] # "dead"
       PROVE  Earlier(r) \subseteq
                  Landed \cup InHand(t) \cup Queued(t, n) \cup Converted(batch)
  <2>1. r \in list /\ r \in Records /\ r[1] \in assigned[t] /\ r[1] \in Partitions
        /\ r[2] \in Nat /\ position[t][r[1]] \in Nat
    BY AcceptedFacts, ListFacts, RecordFacts DEF TypeInv, TypeOK
  <2>2. policy = "off" \/ TopicOf[r[1]] \notin pool[t]
    BY AcceptedFirst DEF TypeInv
  <2>3. {r[1]} \X (0 .. position[t][r[1]] - 1) \subseteq
            Landed \cup InHand(t) \cup Queued(t, n)
    BY <1>0, <1>11, <2>1, <2>2 DEF LandedInv, PositionInOrder
  <2>4. CASE policy # "off"
    <3>1. r[2] <= position[t][r[1]]
      BY <2>4, AcceptedFirst DEF TypeInv
    <3>2. 0 .. r[2] - 1 \subseteq 0 .. position[t][r[1]] - 1
      BY <2>1, <3>1
    <3> QED
      BY <2>3, <3>2 DEF Earlier
  <2>5. CASE policy = "off"
    <3>1. batch = list
      BY <2>5, AcceptedFacts
    <3>2. ASSUME NEW o \in position[t][r[1]] .. r[2]
          PROVE  <<r[1], o>> \in list
      BY <2>1, <3>2, ListFacts, OffsetFacts
    <3>3. ASSUME NEW o \in 0 .. r[2] - 1
          PROVE  \/ o \in 0 .. position[t][r[1]] - 1
                 \/ o \in position[t][r[1]] .. r[2]
      BY <2>1
    <3>4. list \subseteq Converted(batch) \cup Tombstones
      BY <3>1 DEF Converted
    <3> QED
      BY <2>3, <3>2, <3>3, <3>4 DEF Earlier, Landed
  <2> QED
    BY <2>4, <2>5
<1>12. QueueInOrder'
  <2> SUFFICES ASSUME NEW u \in Tasks, pc[u] # "dead", NEW i \in 1 .. Len(records'[u]),
                      NEW r \in records'[u][i]
               PROVE  Earlier(r) \subseteq Landed \cup InHand(u) \cup Queued(u, i)'
    BY <1>3, <1>8 DEF QueueInOrder
  <2>1. CASE u # t
    BY <1>4, <1>7, <2>1 DEF LandedInv, QueueInOrder
  <2>2. CASE u = t /\ i \in 1 .. n
    BY <1>0, <1>4, <1>5, <2>2 DEF LandedInv, QueueInOrder
  <2>3. CASE u = t /\ i = n + 1
    <3>1. r \in batch
      BY <1>4, <2>3 DEF Converted
    <3> QED
      BY <1>6, <1>11, <2>3, <3>1
  <2>4. i \in 1 .. n \/ i = n + 1 \/ u # t
    BY <1>4
  <2> QED
    BY <2>1, <2>2, <2>3, <2>4
<1>13. PositionInOrder'
  <2> SUFFICES ASSUME NEW u \in Tasks, pc[u] # "dead", NEW p \in assigned[u],
                      policy = "off" \/ TopicOf[p] \notin pool'[u]
               PROVE  {p} \X (0 .. position'[u][p] - 1) \subseteq
                          Landed \cup InHand(u) \cup Queued(u, Len(records[u]))'
    BY <1>3, <1>8 DEF PositionInOrder
  <2>1. CASE u # t
    BY <1>1, <1>4, <1>7, <2>1 DEF LandedInv, PositionInOrder, TypeInv, TypeOK
  <2>2. CASE u = t
    <3>1. /\ p \in Partitions /\ position'[t][p] = After(t, list)[p]
          /\ position[t][p] \in Nat /\ After(t, list)[p] \in Nat
      BY <1>1, <2>2, AfterFacts DEF TypeInv, TypeOK
    <3>2. pool'[t] = SeenTopics(t, list) /\ pool[t] \subseteq pool'[t]
      BY <1>1, SeenFacts DEF TypeInv, TypeOK
    <3>3. {p} \X (0 .. position[t][p] - 1) \subseteq
              Landed \cup InHand(t) \cup Queued(t, n)
      BY <1>0, <2>2, <3>2 DEF LandedInv, PositionInOrder
    <3>4. Queued(t, Len(records[t]))' = Queued(t, n) \cup Converted(batch)
      BY <1>4, <1>6 DEF Queued
    <3>5. CASE OffsetsOf(list, p) = {}
      BY <2>2, <3>1, <3>3, <3>4, <3>5, AfterFacts DEF TypeInv
    <3>6. CASE OffsetsOf(list, p) # {}
      <4>1. PICK r \in list : r[1] = p
        BY <3>6 DEF OffsetsOf
      <4>2. policy = "off"
        BY <2>2, <3>2, <4>1, SeenFacts DEF TypeInv
      <4>3. list \subseteq Converted(batch) \cup Tombstones
        BY <4>2, AcceptedFacts DEF Converted
      <4>4. \A o \in position[t][p] .. After(t, list)[p] - 1 : <<p, o>> \in list
        BY <3>1, AfterFacts DEF TypeInv
      <4>5. ASSUME NEW o \in 0 .. position'[t][p] - 1
            PROVE  \/ o \in 0 .. position[t][p] - 1
                   \/ o \in position[t][p] .. After(t, list)[p] - 1
        BY <3>1
      <4> QED
        BY <2>2, <3>3, <3>4, <4>3, <4>4, <4>5 DEF Landed
    <3> QED
      BY <3>5, <3>6
  <2> QED
    BY <2>1, <2>2
<1>14. StartLanded'
  <2> SUFFICES ASSUME NEW u \in Tasks, NEW p \in assigned[u],
                      durablyInsertedOffsets'[u][p] = None
               PROVE  LandedBefore(p, position'[u][p])
    BY <1>3 DEF StartLanded, LandedBefore
  <2>1. p \in Partitions
    BY DEF TypeInv, TypeOK
  <2>2. durablyInsertedOffsets[u][p] = None
    BY <1>1, <2>1, SeededFacts, SMTT(30) DEF TypeInv, TypeOK
  <2>3. position'[u][p] = position[u][p]
    <3>1. CASE u # t
      BY <1>1, <3>1 DEF TypeInv, TypeOK
    <3>2. CASE u = t
      <4>1. Seeded(t, list)[p] = None
        BY <1>1, <3>2 DEF TypeInv, TypeOK
      <4>2. \A r \in list : r[1] # p
        BY <4>1, SeededFacts DEF TypeInv
      <4>3. OffsetsOf(list, p) = {}
        BY <4>2 DEF OffsetsOf
      <4>4. After(t, list)[p] = position[t][p]
        BY <2>1, <4>3, AfterFacts DEF TypeInv
      <4>5. position'[t] = After(t, list)
        BY <1>1 DEF TypeInv, TypeOK
      <4> QED
        BY <3>2, <4>4, <4>5
    <3> QED
      BY <3>1, <3>2
  <2> QED
    BY <2>2, <2>3 DEF LandedInv, StartLanded
<1> QED
  BY <1>9, <1>10, <1>12, <1>13, <1>14 DEF LandedInv

\* The worker takes the head of the queue in its hands.
LEMMA LandedPoll ==
    ASSUME TypeInv, LandedInv, NEW t \in Tasks, Poll(t)
    PROVE  LandedInv'
<1>1. /\ pc[t] = "head" /\ pc' = [pc EXCEPT ![t] = "writing"]
      /\ todo' = [todo EXCEPT ![t] = TopicsIn(currentBatch'[t])]
      /\ UNCHANGED <<policy, committed, status, assigned, position, durablyInsertedOffsets,
                     pool, inserted>>
  BY DEF Poll, connectVars
<1>2. ASSUME NEW u \in Tasks, u # t
      PROVE  /\ records'[u] = records[u] /\ pc'[u] = pc[u]
             /\ currentBatch'[u] = currentBatch[u] /\ todo'[u] = todo[u]
             /\ InHand(u)' = InHand(u)
             /\ \A i : Queued(u, i)' = Queued(u, i)
  BY <1>2 DEF Poll, TypeInv, TypeOK, InHand, Queued
<1>3. /\ pc[t] # "dead" /\ pc'[t] = "writing" /\ Landed' = Landed
      /\ todo'[t] = TopicsIn(currentBatch'[t])
  BY <1>1 DEF TypeInv, TypeOK, Landed
<1>4. NewTask'
  BY <1>1, <1>2 DEF LandedInv, NewTask
<1>5. DoneTopics'
  BY <1>1, <1>2, <1>3 DEF LandedInv, DoneTopics, TopicsIn
<1>6. StartLanded' /\ WatermarkLanded' /\ CommittedIsInserted'
  BY <1>1 DEF LandedInv, StartLanded, WatermarkLanded, CommittedIsInserted, LandedBefore
<1>7. CASE currentBatch[t] # None
  <2>1. UNCHANGED <<currentBatch, records>>
    BY <1>7 DEF Poll
  <2> QED
    BY <1>1, <1>2, <1>3, <1>4, <1>5, <1>6, <2>1
       DEF LandedInv, HandInOrder, QueueInOrder, PositionInOrder, InHand, Queued
<1>8. CASE currentBatch[t] = None
  <2>1. /\ records[t] # <<>>
        /\ currentBatch' = [currentBatch EXCEPT ![t] = Head(records[t])]
        /\ records' = [records EXCEPT ![t] = Tail(@)]
    BY <1>8 DEF Poll
  <2>2. PICK n \in Nat : n = Len(records[t])
    BY DEF TypeInv, TypeOK
  <2>3. /\ n >= 1 /\ Len(records'[t]) = n - 1
        /\ currentBatch'[t] = records[t][1]
        /\ \A i \in 1 .. n - 1 : records'[t][i] = records[t][i + 1]
    BY <2>1, <2>2 DEF TypeInv, TypeOK
  <2>4. InHand(t) = {} /\ InHand(t)' = records[t][1]
    <3>1. records[t][1] \in Rows
      BY <2>2, <2>3 DEF TypeInv, TypeOK, Rows
    <3> QED
      BY <1>8, <2>3, <3>1, SinkTaskAssumption DEF InHand, Rows
  <2>5. ASSUME NEW i \in 0 .. n - 1
        PROVE  Queued(t, i + 1) \subseteq InHand(t)' \cup Queued(t, i)'
    <3> SUFFICES ASSUME NEW j \in 1 .. i + 1, NEW r \in records[t][j]
                 PROVE  r \in records[t][1] \/ r \in Queued(t, i)'
      BY <2>4 DEF Queued
    <3>1. CASE j = 1
      BY <3>1
    <3>2. CASE j # 1
      <4>1. j - 1 \in 1 .. i /\ j - 1 \in 1 .. n - 1 /\ (j - 1) + 1 = j
        BY <2>2, <3>2
      <4>2. r \in records'[t][j - 1]
        BY <2>3, <4>1
      <4> QED
        BY <4>1, <4>2 DEF Queued
    <3> QED
      BY <3>1, <3>2
  <2>6. HandInOrder'
    <3>1. Queued(t, 1) = records[t][1]
      BY DEF Queued
    <3>2. ASSUME NEW r \in records[t][1]
          PROVE  Earlier(r) \subseteq Landed \cup records[t][1]
      <4>1. 1 \in 1 .. Len(records[t])
        BY <2>2, <2>3
      <4> QED
        BY <1>3, <2>4, <3>1, <4>1 DEF LandedInv, QueueInOrder
    <3> QED
      BY <1>2, <1>3, <2>4, <3>2 DEF LandedInv, HandInOrder
  <2>7. QueueInOrder'
    <3> SUFFICES ASSUME NEW u \in Tasks, pc'[u] # "dead", NEW i \in 1 .. Len(records'[u]),
                        NEW r \in records'[u][i]
                 PROVE  Earlier(r) \subseteq Landed \cup InHand(u)' \cup Queued(u, i)'
      BY <1>3 DEF QueueInOrder
    <3>1. CASE u # t
      BY <1>2, <3>1 DEF LandedInv, QueueInOrder
    <3>2. CASE u = t
      <4>1. i \in 1 .. n - 1 /\ i + 1 \in 1 .. n /\ i \in 0 .. n - 1
        BY <2>3, <3>2
      <4>2. r \in records[t][i + 1]
        BY <2>3, <3>2, <4>1
      <4>3. Earlier(r) \subseteq Landed \cup InHand(t) \cup Queued(t, i + 1)
        BY <1>3, <2>2, <4>1, <4>2 DEF LandedInv, QueueInOrder
      <4> QED
        BY <2>4, <2>5, <3>2, <4>1, <4>3
    <3> QED
      BY <3>1, <3>2
  <2>8. PositionInOrder'
    <3> SUFFICES ASSUME NEW u \in Tasks, pc'[u] # "dead", NEW p \in assigned[u],
                        policy = "off" \/ TopicOf[p] \notin pool[u]
                 PROVE  {p} \X (0 .. position[u][p] - 1) \subseteq
                            Landed \cup InHand(u)' \cup Queued(u, Len(records[u]))'
      BY <1>1, <1>3 DEF PositionInOrder
    <3>1. CASE u # t
      <4>1. Queued(u, Len(records[u]))' = Queued(u, Len(records[u]))
        BY <1>2, <3>1 DEF Queued
      <4> QED
        BY <1>2, <3>1, <4>1 DEF LandedInv, PositionInOrder
    <3>2. CASE u = t
      <4>1. {p} \X (0 .. position[t][p] - 1) \subseteq
                Landed \cup InHand(t) \cup Queued(t, n)
        BY <1>3, <2>2, <3>2 DEF LandedInv, PositionInOrder
      <4>2. n - 1 \in 0 .. n - 1 /\ (n - 1) + 1 = n
        BY <2>3
      <4>3. Queued(t, n) \subseteq InHand(t)' \cup Queued(t, n - 1)'
        BY <2>5, <4>2
      <4>4. Queued(t, Len(records[t]))' = Queued(t, n - 1)'
        BY <2>3 DEF Queued
      <4> QED
        BY <2>4, <3>2, <4>1, <4>3, <4>4
    <3> QED
      BY <3>1, <3>2
  <2> QED
    BY <1>4, <1>5, <1>6, <2>6, <2>7, <2>8 DEF LandedInv
<1> QED
  BY <1>7, <1>8

\* An insert raises the watermark to a row of the batch, before which all has
\* landed: what is before it in its partition is of the same topic.
LEMMA LandedInsert ==
    ASSUME TypeInv, LandedInv, NEW t \in Tasks, InsertTopic(t)
    PROVE  LandedInv'
<1>1. PICK c \in todo[t] :
          /\ inserted' = inserted \cup RowsOf(t, c)
          /\ durablyInsertedOffsets' =
                [durablyInsertedOffsets EXCEPT ![t] = Merged(t, RowsOf(t, c))]
          /\ todo' = [todo EXCEPT ![t] = @ \ {c}]
  BY DEF InsertTopic
<1>2. /\ pc[t] = "writing"
      /\ UNCHANGED <<policy, committed, status, assigned, position, records, pool, pc,
                     currentBatch>>
  BY DEF InsertTopic, connectVars
<1>3. currentBatch[t] \in Rows
  BY <1>2 DEF TypeInv, WriterHasBatch
<1>4. RowsOf(t, c) \in SUBSET Records
  BY <1>3 DEF RowsOf, Rows
<1>5. Landed \subseteq Landed' /\ inserted \subseteq inserted'
  BY <1>1 DEF Landed
<1>6. NewTask'
  BY <1>2 DEF LandedInv, NewTask
<1>7. DoneTopics'
  <2> SUFFICES ASSUME NEW u \in Tasks, pc[u] = "writing", NEW r \in currentBatch[u]
               PROVE  TopicOf[r[1]] \in todo'[u] \/ r \in inserted'
    BY <1>2 DEF DoneTopics
  <2>1. TopicOf[r[1]] \in todo[u] \/ r \in inserted
    BY DEF LandedInv, DoneTopics
  <2>2. u = t /\ TopicOf[r[1]] = c => r \in inserted'
    BY <1>1 DEF RowsOf
  <2> QED
    BY <1>1, <1>5, <2>1, <2>2 DEF TypeInv, TypeOK
<1>8. /\ \A u \in Tasks : InHand(u)' = InHand(u)
      /\ \A u \in Tasks : \A i : Queued(u, i)' = Queued(u, i)
      /\ \A u \in Tasks : Queued(u, Len(records[u]))' = Queued(u, Len(records[u]))
  BY <1>2 DEF InHand, Queued
<1>9. HandInOrder'
  BY <1>2, <1>5, <1>8 DEF LandedInv, HandInOrder
<1>10. QueueInOrder'
  BY <1>2, <1>5, <1>8 DEF LandedInv, QueueInOrder
<1>11. PositionInOrder'
  BY <1>2, <1>5, <1>8 DEF LandedInv, PositionInOrder
<1>12. CommittedIsInserted'
  BY <1>2, <1>5 DEF LandedInv, CommittedIsInserted, LandedBefore
<1>13. ASSUME NEW u \in Tasks, NEW p \in Partitions,
              durablyInsertedOffsets'[u][p] # durablyInsertedOffsets[u][p]
       PROVE  /\ u = t
              /\ durablyInsertedOffsets'[t][p] \in Nat
              /\ <<p, durablyInsertedOffsets'[t][p]>> \in RowsOf(t, c)
  <2>1. u = t /\ durablyInsertedOffsets'[u][p] = Merged(t, RowsOf(t, c))[p]
    BY <1>1, <1>13 DEF TypeInv, TypeOK
  <2> QED
    BY <1>4, <1>13, <2>1, MergedFacts DEF TypeInv
<1>14. WatermarkLanded'
  <2> SUFFICES ASSUME NEW u \in Tasks, NEW p \in Partitions,
                      durablyInsertedOffsets'[u][p] # None
               PROVE  {p} \X (0 .. (durablyInsertedOffsets'[u][p] + 1) - 1) \subseteq Landed'
    BY DEF WatermarkLanded, LandedBefore, Landed
  <2>1. CASE durablyInsertedOffsets'[u][p] = durablyInsertedOffsets[u][p]
    <3>1. LandedBefore(p, durablyInsertedOffsets[u][p] + 1)
      BY <2>1 DEF LandedInv, WatermarkLanded
    <3>2. {p} \X (0 .. (durablyInsertedOffsets[u][p] + 1) - 1) \subseteq Landed
      BY <3>1 DEF LandedBefore, Landed
    <3> QED
      BY <1>5, <2>1, <3>2
  <2>2. CASE durablyInsertedOffsets'[u][p] # durablyInsertedOffsets[u][p]
    <3> DEFINE last == durablyInsertedOffsets'[t][p]
    <3>1. u = t /\ last \in Nat /\ <<p, last>> \in RowsOf(t, c)
      BY <1>13, <2>2
    <3>2. <<p, last>> \in currentBatch[t] /\ TopicOf[p] = c
      BY <3>1 DEF RowsOf
    <3>3. InHand(t) = currentBatch[t]
      BY <1>3, SinkTaskAssumption DEF InHand, Rows
    <3>4. Earlier(<<p, last>>) \subseteq Landed \cup currentBatch[t]
      BY <1>2, <3>2, <3>3 DEF LandedInv, HandInOrder
    <3>5. {p} \X (0 .. last - 1) \subseteq Landed \cup currentBatch[t]
      BY <3>4 DEF Earlier
    <3>6. ASSUME NEW o \in 0 .. last
          PROVE  <<p, o>> \in Landed'
      <4>1. <<p, o>> \in Landed \/ <<p, o>> \in currentBatch[t]
        BY <3>1, <3>2, <3>5
      <4>2. <<p, o>> \in currentBatch[t] => <<p, o>> \in RowsOf(t, c)
        BY <3>2 DEF RowsOf
      <4> QED
        BY <1>1, <1>5, <4>1, <4>2 DEF Landed
    <3>7. (last + 1) - 1 = last
      BY <3>1
    <3> QED
      BY <3>1, <3>6, <3>7
  <2> QED
    BY <2>1, <2>2
<1>15. StartLanded'
  <2> SUFFICES ASSUME NEW u \in Tasks, NEW p \in assigned[u],
                      durablyInsertedOffsets'[u][p] = None
               PROVE  LandedBefore(p, position[u][p])'
    BY <1>2 DEF StartLanded, LandedBefore
  <2>1. p \in Partitions
    BY DEF TypeInv, TypeOK
  <2>2. None \notin Nat
    BY SinkTaskAssumption
  <2>3. durablyInsertedOffsets[u][p] = None
    BY <1>13, <2>1, <2>2
  <2> QED
    BY <1>2, <1>5, <2>3 DEF LandedInv, StartLanded, LandedBefore
<1> QED
  BY <1>6, <1>7, <1>9, <1>10, <1>11, <1>12, <1>14, <1>15 DEF LandedInv

\* A batch that is let go has landed.
LEMMA LandedFinish ==
    ASSUME TypeInv, LandedInv, NEW t \in Tasks, FinishBatch(t)
    PROVE  LandedInv'
<1>1. /\ pc[t] = "writing" /\ todo[t] = {}
      /\ \/ currentBatch' = [currentBatch EXCEPT ![t] = None]
         \/ UNCHANGED currentBatch
      /\ pc' = [pc EXCEPT ![t] = "head"]
      /\ UNCHANGED <<policy, committed, status, assigned, position, records,
                     durablyInsertedOffsets, pool, todo, inserted>>
  BY DEF FinishBatch, connectVars, taskVars
<1>2. \A u \in Tasks : u # t => pc'[u] = pc[u] /\ currentBatch'[u] = currentBatch[u]
  BY <1>1 DEF TypeInv, TypeOK
<1>3. pc'[t] = "head" /\ Landed' = Landed
  BY <1>1 DEF TypeInv, TypeOK, Landed
<1>4. /\ \A u \in Tasks : \A i : Queued(u, i)' = Queued(u, i)
      /\ \A u \in Tasks : Queued(u, Len(records[u]))' = Queued(u, Len(records[u]))
  BY <1>1 DEF Queued
<1>5. ASSUME NEW u \in Tasks
      PROVE  InHand(u)' \subseteq InHand(u) /\ InHand(u) \subseteq Landed \cup InHand(u)'
  <2>1. CASE u # t
    BY <1>2, <2>1 DEF InHand
  <2>2. CASE u = t
    <3>1. currentBatch'[t] = None \/ currentBatch'[t] = currentBatch[t]
      BY <1>1 DEF TypeInv, TypeOK
    <3>2. currentBatch[t] \subseteq Landed
      BY <1>1 DEF LandedInv, DoneTopics, Landed
    <3> QED
      BY <2>2, <3>1, <3>2 DEF InHand
  <2> QED
    BY <2>1, <2>2
<1>6. NewTask'
  BY <1>1, <1>2 DEF LandedInv, NewTask
<1>7. DoneTopics'
  BY <1>1, <1>2, <1>3 DEF LandedInv, DoneTopics
<1>8. \A u \in Tasks : pc'[u] # "dead" => pc[u] # "dead"
  BY <1>1, <1>2
<1>9. HandInOrder'
  <2> SUFFICES ASSUME NEW u \in Tasks, pc'[u] # "dead", NEW r \in InHand(u)'
               PROVE  Earlier(r) \subseteq Landed \cup InHand(u)'
    BY <1>3 DEF HandInOrder
  <2>1. Earlier(r) \subseteq Landed \cup InHand(u)
    BY <1>5, <1>8 DEF LandedInv, HandInOrder
  <2> QED
    BY <1>5, <2>1
<1>10. QueueInOrder'
  <2> SUFFICES ASSUME NEW u \in Tasks, pc'[u] # "dead", NEW i \in 1 .. Len(records[u]),
                      NEW r \in records[u][i]
               PROVE  Earlier(r) \subseteq Landed \cup InHand(u)' \cup Queued(u, i)
    BY <1>1, <1>3, <1>4 DEF QueueInOrder
  <2>1. Earlier(r) \subseteq Landed \cup InHand(u) \cup Queued(u, i)
    BY <1>8 DEF LandedInv, QueueInOrder
  <2> QED
    BY <1>5, <2>1
<1>11. PositionInOrder'
  <2> SUFFICES ASSUME NEW u \in Tasks, pc'[u] # "dead", NEW p \in assigned[u],
                      policy = "off" \/ TopicOf[p] \notin pool[u]
               PROVE  {p} \X (0 .. position[u][p] - 1) \subseteq
                          Landed \cup InHand(u)' \cup Queued(u, Len(records[u]))
    BY <1>1, <1>3, <1>4 DEF PositionInOrder
  <2>1. {p} \X (0 .. position[u][p] - 1) \subseteq
            Landed \cup InHand(u) \cup Queued(u, Len(records[u]))
    BY <1>8 DEF LandedInv, PositionInOrder
  <2> QED
    BY <1>5, <2>1
<1>12. StartLanded' /\ WatermarkLanded' /\ CommittedIsInserted'
  BY <1>1 DEF LandedInv, StartLanded, WatermarkLanded, CommittedIsInserted, LandedBefore
<1> QED
  BY <1>6, <1>7, <1>9, <1>10, <1>11, <1>12 DEF LandedInv

\* A batch that fails stays, or is the last that its worker has had.
LEMMA LandedFail ==
    ASSUME TypeInv, LandedInv, NEW t \in Tasks, Fail(t) \/ FailFatally(t)
    PROVE  LandedInv'
<1>1. /\ pc[t] = "writing"
      /\ UNCHANGED <<policy, committed, status, assigned, position, records,
                     durablyInsertedOffsets, pool, inserted>>
  BY DEF Fail, FailFatally, connectVars, taskVars
<1>2. ASSUME NEW u \in Tasks, u # t
      PROVE  /\ pc'[u] = pc[u] /\ currentBatch'[u] = currentBatch[u] /\ todo'[u] = todo[u]
             /\ InHand(u)' = InHand(u)
  BY <1>2 DEF Fail, FailFatally, TypeInv, TypeOK, InHand
<1>3. \/ pc'[t] = "dead"
      \/ pc'[t] = "head" /\ InHand(t)' = InHand(t)
  BY DEF Fail, FailFatally, TypeInv, TypeOK, InHand
<1>4. /\ Landed' = Landed
      /\ \A u \in Tasks : \A i : Queued(u, i)' = Queued(u, i)
      /\ \A u \in Tasks : Queued(u, Len(records[u]))' = Queued(u, Len(records[u]))
  BY <1>1 DEF Landed, Queued
<1>5. \A u \in Tasks : pc'[u] # "dead" => pc[u] # "dead" /\ InHand(u)' = InHand(u)
  BY <1>1, <1>2, <1>3
<1>6. status[t] # "new"
  BY <1>1 DEF LandedInv, NewTask
<1>7. NewTask'
  BY <1>1, <1>2, <1>6 DEF LandedInv, NewTask
<1>8. DoneTopics'
  BY <1>1, <1>2, <1>3 DEF LandedInv, DoneTopics
<1>9. HandInOrder'
  BY <1>4, <1>5 DEF LandedInv, HandInOrder
<1>10. QueueInOrder'
  BY <1>1, <1>4, <1>5 DEF LandedInv, QueueInOrder
<1>11. PositionInOrder'
  BY <1>1, <1>4, <1>5 DEF LandedInv, PositionInOrder
<1>12. StartLanded' /\ WatermarkLanded' /\ CommittedIsInserted'
  BY <1>1 DEF LandedInv, StartLanded, WatermarkLanded, CommittedIsInserted, LandedBefore
<1> QED
  BY <1>7, <1>8, <1>9, <1>10, <1>11, <1>12 DEF LandedInv

\* Every step keeps LandedInv.
LEMMA LandedNext == TypeInv /\ LandedInv /\ [Next]_vars => LandedInv'
<1>1. ASSUME LandedInv, UNCHANGED vars
      PROVE  LandedInv'
  <2>1. UNCHANGED <<policy, committed, status, assigned, position, records,
                    durablyInsertedOffsets, pool, pc, currentBatch, todo, inserted>>
    BY <1>1 DEF vars, connectVars, taskVars, workerVars
  <2>2. NewTask' /\ DoneTopics' /\ HandInOrder' /\ QueueInOrder' /\ PositionInOrder'
    BY <1>1, <2>1 DEF LandedInv, NewTask, DoneTopics, HandInOrder, QueueInOrder,
                      PositionInOrder, Landed, InHand, Queued
  <2>3. StartLanded' /\ WatermarkLanded' /\ CommittedIsInserted'
    BY <1>1, <2>1 DEF LandedInv, StartLanded, WatermarkLanded, CommittedIsInserted,
                      LandedBefore
  <2> QED
    BY <2>2, <2>3 DEF LandedInv
<1>2. ASSUME TypeInv, LandedInv, NEW t \in Tasks, Connect(t)
      PROVE  LandedInv'
  BY <1>2, LandedStart, LandedStop, LandedDie, LandedAssign, LandedRevoke DEF Connect
<1> QED
  BY <1>1, <1>2, LandedPut, LandedPutFails, LandedPreCommit, LandedPoll, LandedInsert,
     LandedFinish, LandedFail DEF Next

\* Whatever is before the committed offset of a partition is in ClickHouse, for any
\* number of tasks, partitions and topics, wherever tasks are stopped and restarted,
\* partitions move and inserts fail, and whatever the deduplicator drops.
THEOREM NothingIsSkipped == Spec => []CommittedIsInserted
<1>1. Init => TypeInv /\ LandedInv
  BY TypeInit, LandedInit
<1>2. TypeInv /\ LandedInv /\ [Next]_vars => TypeInv' /\ LandedInv'
  BY TypeNext, LandedNext
<1>3. LandedInv => CommittedIsInserted
  BY DEF LandedInv
<1> QED
  BY <1>1, <1>2, <1>3, PTL DEF Spec

--------------------------------------------------------------------------------
(* What Kafka Connect and the tasks do implements AtLeastOnceDelivery         *)

\* Nothing is delivered at first but what has no row.
LEMMA DeliveryInit == ASSUME Init, NEW p \in Partitions PROVE Delivery(p)!Init
BY DEF Init, Delivery!Init, Delivered

\* An insert of a topic delivers what is up to the last record of a partition.
LEMMA DeliveryInsert ==
    ASSUME TypeInv, LandedInv, NEW t \in Tasks, InsertTopic(t), NEW p \in Partitions
    PROVE  DeliveryStep(p)
<1> PICK c \in todo[t] : /\ pc[t] = "writing"
                         /\ inserted' = inserted \cup RowsOf(t, c)
                         /\ committed' = committed
  BY DEF InsertTopic, connectVars
<1> DEFINE offsets == OffsetsOf(RowsOf(t, c), p)
<1>1. /\ currentBatch[t] \in SUBSET Records /\ currentBatch[t] # None
      /\ RowsOf(t, c) \in SUBSET Records
      /\ LogEnd[p] \in Nat
  BY SinkTaskAssumption DEF TypeInv, WriterHasBatch, Rows, RowsOf
<1>2. /\ offsets \subseteq 0 .. LogEnd[p]
      /\ \A o : o \in offsets <=> <<p, o>> \in RowsOf(t, c)
  BY <1>1, OffsetFacts
<1>3. Delivered(p)' = Delivered(p) \cup {n \in 1 .. LogEnd[p] : n - 1 \in offsets}
  BY <1>2 DEF Delivered
<1>4. CASE offsets = {}
  BY <1>3, <1>4 DEF DeliveryStep, Delivery!vars
<1>5. CASE offsets # {}
  <2>1. PICK m \in offsets : \A o \in offsets : o <= m
    BY <1>1, <1>2, <1>5, LargestFacts
  <2>2. <<p, m>> \in RowsOf(t, c) /\ m \in Nat
    BY <1>1, <1>2
  <2>3. m + 1 \in 1 .. LogEnd[p]
    <3>1. <<p, m>>[1] = p /\ <<p, m>>[2] = m
      OBVIOUS
    <3> QED
      BY <1>1, <2>2, <3>1, RecordFacts
  <2>4. ASSUME NEW n \in 1 .. m + 1 PROVE n \in Delivered(p)'
    <3>1. n \in 1 .. LogEnd[p] /\ n - 1 \in 0 .. m
      BY <1>1, <2>2, <2>3
    <3>2. CASE n = m + 1
      BY <1>3, <2>2, <3>1, <3>2
    <3>3. CASE n # m + 1
      <4>1. n - 1 \in 0 .. m - 1
        BY <2>2, <3>1, <3>3
      <4>2. <<p, n - 1>> \in Earlier(<<p, m>>)
        <5>1. <<p, m>>[1] = p /\ <<p, m>>[2] = m
          OBVIOUS
        <5> QED
          BY <4>1, <5>1 DEF Earlier
      <4>3. <<p, n - 1>> \in inserted \cup Tombstones \cup currentBatch[t]
        BY <1>1, <2>2, <4>2 DEF LandedInv, HandInOrder, InHand, Landed, RowsOf
      <4>4. CASE <<p, n - 1>> \in currentBatch[t]
        <5>1. <<p, m>>[1] = p /\ <<p, n - 1>>[1] = p
          OBVIOUS
        <5>2. <<p, n - 1>> \in RowsOf(t, c)
          BY <2>2, <4>4, <5>1 DEF RowsOf
        <5> QED
          BY <1>2, <1>3, <3>1, <5>2
      <4>5. CASE <<p, n - 1>> \in inserted \cup Tombstones
        <5>1. n \in Delivered(p)
          BY <3>1, <4>5 DEF Delivered
        <5> QED
          BY <1>3, <5>1
      <4> QED
        BY <4>3, <4>4, <4>5
    <3> QED
      BY <3>2, <3>3
  <2>5. Delivered(p)' = Delivered(p) \cup (1 .. m + 1)
    <3>1. \A n \in 1 .. LogEnd[p] : n - 1 \in offsets => n \in 1 .. m + 1
      BY <1>1, <2>1, <2>2
    <3>2. Delivered(p)' \subseteq Delivered(p) \cup (1 .. m + 1)
      BY <1>3, <3>1
    <3>3. Delivered(p) \subseteq Delivered(p)'
      BY <1>3
    <3>4. 1 .. m + 1 \subseteq Delivered(p)'
      BY <2>4
    <3> QED
      BY <3>2, <3>3, <3>4
  <2>6. Delivery(p)!Write(m + 1)
    BY <2>5 DEF Delivery!Write, InsertTopic, connectVars
  <2> QED
    BY <2>3, <2>6 DEF DeliveryStep, Delivery!Next
<1> QED
  BY <1>4, <1>5

\* Without one, a step commits at most what is delivered.
LEMMA DeliveryCommit ==
    ASSUME TypeInv', LandedInv', UNCHANGED inserted, NEW p \in Partitions
    PROVE  DeliveryStep(p)
<1>1. Delivered(p)' = Delivered(p)
  BY DEF Delivered
<1>2. committed'[p] \in Nat /\ LogEnd[p] \in Nat
  BY SinkTaskAssumption DEF TypeInv, TypeOK
<1>3. ASSUME NEW n \in 1 .. committed'[p]
      PROVE  n \in Delivered(p)
  <2>1. <<p, n - 1>> \in inserted \cup Tombstones
    <3>1. {p} \X (0 .. committed'[p] - 1) \subseteq inserted \cup Tombstones
      BY DEF LandedInv, CommittedIsInserted, LandedBefore
    <3> QED
      BY <1>2, <3>1
  <2>2. <<p, n - 1>> \in Records
    BY <2>1, SinkTaskAssumption DEF TypeInv, TypeOK
  <2>3. <<p, n - 1>>[1] = p /\ <<p, n - 1>>[2] = n - 1
    OBVIOUS
  <2>4. n - 1 \in 0 .. LogEnd[p] - 1
    BY <2>2, <2>3, RecordFacts
  <2> QED
    BY <1>2, <2>1, <2>4 DEF Delivered
<1>4. committed'[p] \in 0 .. LogEnd[p]
  <2>1. CASE committed'[p] = 0
    BY <1>2, <2>1
  <2>2. CASE committed'[p] # 0
    <3>1. committed'[p] \in Delivered(p)
      BY <1>2, <1>3, <2>2
    <3> QED
      BY <1>2, <3>1 DEF Delivered
  <2> QED
    BY <2>1, <2>2
<1>5. Delivery(p)!Commit(committed'[p])
  BY <1>1, <1>3 DEF Delivery!Commit
<1> QED
  BY <1>4, <1>5 DEF DeliveryStep, Delivery!Next

\* Every partition is delivered at least once and in the order of its offsets.
THEOREM SinkTaskImplementsDelivery == Spec => ImplementsDelivery
<1> DEFINE Inv == TypeInv /\ LandedInv
           Steps == UNCHANGED <<inserted, committed>> \/ \A p \in Partitions : DeliveryStep(p)
           Starts == \A p \in Partitions : Delivery(p)!Init
<1>1. Init => Inv /\ Starts
  BY TypeInit, LandedInit, DeliveryInit
<1>2. Inv /\ [Next]_vars => Inv'
  BY TypeNext, LandedNext
<1>3. Inv /\ Inv' /\ [Next]_vars => [Steps]_vars
  <2> SUFFICES ASSUME Inv, Inv', Next, NEW p \in Partitions PROVE DeliveryStep(p)
    OBVIOUS
  <2>1. CASE \E t \in Tasks : InsertTopic(t)
    BY <2>1, DeliveryInsert
  <2>2. CASE UNCHANGED inserted
    BY <2>2, DeliveryCommit
  <2> QED
    BY <2>1, <2>2 DEF Next, Connect, Start, Stop, Die, Assign, Revoke, Put, PutFails,
                      PreCommit, Poll, FinishBatch, Fail, FailFatally
<1> QED
  BY <1>1, <1>2, <1>3, PTL DEF Spec, ImplementsDelivery

--------------------------------------------------------------------------------
(* Commits advance                                                            *)

\* What is with a task after a step was with it before, or is in the list put.
LEMMA WithFacts ==
    ASSUME TypeInv, NEW t \in Tasks
    PROVE  /\ With(t) \subseteq Records
           /\ \A u \in Tasks \ {t} :
                 (Connect(t) \/ Put(t) \/ PutFails(t) \/ PreCommit(t) \/ Work(t)) =>
                     With(u)' = With(u)
           /\ ((Connect(t) /\ ~Die(t)) \/ PutFails(t) \/ PreCommit(t) \/ Work(t)) =>
                  With(t)' \subseteq With(t)
           /\ Die(t) => With(t)' = {}
<1>1. With(t) \subseteq Records
  <2>1. InHand(t) \subseteq Records
    BY DEF InHand, TypeInv, TypeOK
  <2>2. \A j \in 1 .. Len(records[t]) : records[t][j] \subseteq Records
    BY DEF TypeInv, TypeOK
  <2> QED
    BY <2>1, <2>2 DEF With, Queued
<1>2. ASSUME NEW u \in Tasks \ {t},
             Connect(t) \/ Put(t) \/ PutFails(t) \/ PreCommit(t) \/ Work(t)
      PROVE  With(u)' = With(u)
  <2>1. records'[u] = records[u] /\ currentBatch'[u] = currentBatch[u]
    <3>1. CASE Connect(t)
      BY <3>1 DEF Connect, Start, Stop, Die, Assign, Revoke, taskVars, workerVars,
                  TypeInv, TypeOK
    <3>2. CASE Put(t) \/ PutFails(t) \/ PreCommit(t)
      BY <3>2 DEF Put, PutFails, PreCommit, taskVars, workerVars, TypeInv, TypeOK
    <3>3. CASE Work(t)
      BY <3>3 DEF Work, Poll, InsertTopic, FinishBatch, Fail, FailFatally, taskVars,
                  TypeInv, TypeOK
    <3> QED
      BY <1>2, <3>1, <3>2, <3>3
  <2> QED
    BY <2>1 DEF With, InHand, Queued
<1>3. ASSUME (Connect(t) /\ ~Die(t)) \/ PutFails(t) \/ PreCommit(t) \/ Work(t)
      PROVE  With(t)' \subseteq With(t)
  <2>1. CASE records'[t] = records[t] /\ (currentBatch'[t] = currentBatch[t] \/
                                          currentBatch'[t] = None)
    BY <2>1 DEF With, InHand, Queued
  <2>2. CASE Poll(t) /\ currentBatch[t] = None
    <3>1. PICK n \in Nat : n = Len(records[t])
      BY DEF TypeInv, TypeOK
    <3>0. /\ records[t] # <<>>
          /\ currentBatch' = [currentBatch EXCEPT ![t] = Head(records[t])]
          /\ records' = [records EXCEPT ![t] = Tail(@)]
      BY <2>2 DEF Poll
    <3>2. /\ n >= 1 /\ Len(records'[t]) = n - 1
          /\ currentBatch'[t] = records[t][1]
          /\ \A j \in 1 .. n - 1 : records'[t][j] = records[t][j + 1]
      BY <3>0, <3>1 DEF TypeInv, TypeOK
    <3>3. \A j \in 1 .. n : records[t][j] \subseteq Queued(t, n)
      BY DEF Queued
    <3>4. InHand(t)' \subseteq Queued(t, n)
      BY <3>2, <3>3 DEF InHand
    <3>5. Queued(t, Len(records[t]))' \subseteq Queued(t, n)
      <4> SUFFICES ASSUME NEW j \in 1 .. n - 1
                   PROVE  records'[t][j] \subseteq Queued(t, n)
        BY <3>2 DEF Queued
      <4>1. j + 1 \in 1 .. n
        BY <3>2
      <4> QED
        BY <3>2, <3>3, <4>1
    <3> QED
      BY <3>1, <3>4, <3>5 DEF With
  <2>3. CASE Work(t) /\ ~ (Poll(t) /\ currentBatch[t] = None)
    BY <2>1, <2>3 DEF Work, Poll, InsertTopic, FinishBatch, Fail, FailFatally, taskVars,
                      TypeInv, TypeOK
  <2>4. CASE Connect(t) /\ ~Die(t)
    BY <2>1, <2>4 DEF Connect, Start, Stop, Assign, Revoke, taskVars, workerVars
  <2>5. CASE PutFails(t) \/ PreCommit(t)
    BY <2>1, <2>5 DEF PutFails, PreCommit, taskVars, workerVars
  <2> QED
    BY <1>3, <2>2, <2>3, <2>4, <2>5
<1>4. ASSUME Die(t)
      PROVE  With(t)' = {}
  <2>1. records'[t] = <<>> /\ currentBatch'[t] = None
    BY <1>4 DEF Die, TypeInv, TypeOK
  <2> QED
    BY <2>1 DEF With, InHand, Queued
<1> QED
  BY <1>1, <1>2, <1>3, <1>4

\* A watermark is only ever lost with the task, and never goes back.
LEMMA WatermarkFacts ==
    ASSUME TypeInv, AdvanceInv, NEW t \in Tasks, NEW u \in Tasks, NEW p \in Partitions,
           \/ Connect(t) /\ ~ (Die(t) /\ u = t)
           \/ Put(t) \/ PutFails(t) \/ PreCommit(t) \/ Work(t)
    PROVE  LET old == durablyInsertedOffsets[u][p]
               new == durablyInsertedOffsets'[u][p]
           IN  \/ new = old
               \/ old = None /\ u = t /\ new = position[t][p] - 1 /\ (Put(t) \/ PutFails(t))
               \/ old # None /\ new # None /\ old < new /\ InsertTopic(t)
<1>1. CASE Connect(t) /\ ~ (Die(t) /\ u = t)
  BY <1>1 DEF Connect, Start, Stop, Die, Assign, Revoke, taskVars, TypeInv, TypeOK
<1>2. CASE Put(t) \/ PutFails(t)
  <2>1. PICK list \in NextLists(t) :
            durablyInsertedOffsets' = [durablyInsertedOffsets EXCEPT ![t] = Seeded(t, list)]
    BY <1>2 DEF Put, PutFails
  <2>2. CASE u # t
    BY <2>1, <2>2 DEF TypeInv, TypeOK
  <2>3. CASE u = t
    <3>1. durablyInsertedOffsets'[u][p] = Seeded(t, list)[p]
      BY <2>1, <2>3 DEF TypeInv, TypeOK
    <3> QED
      BY <1>2, <2>3, <3>1, SeededFacts DEF TypeInv
  <2> QED
    BY <2>2, <2>3
<1>3. CASE PreCommit(t)
  BY <1>3 DEF PreCommit, taskVars
<1>4. CASE InsertTopic(t)
  <2>1. PICK c \in todo[t] :
            durablyInsertedOffsets' =
                [durablyInsertedOffsets EXCEPT ![t] = Merged(t, RowsOf(t, c))]
    BY <1>4 DEF InsertTopic
  <2>2. currentBatch[t] \in Rows
    BY <1>4 DEF InsertTopic, TypeInv, WriterHasBatch
  <2>3. RowsOf(t, c) \in SUBSET Records /\ RowsOf(t, c) \subseteq With(t)
    BY <2>2, SinkTaskAssumption DEF RowsOf, With, InHand, Rows
  <2>4. CASE u # t
    BY <2>1, <2>4 DEF TypeInv, TypeOK
  <2>5. CASE u = t
    <3>1. durablyInsertedOffsets'[t][p] = Merged(t, RowsOf(t, c))[p]
      BY <2>1 DEF TypeInv, TypeOK
    <3>2. CASE Merged(t, RowsOf(t, c))[p] # durablyInsertedOffsets[t][p]
      <4>1. <<p, Merged(t, RowsOf(t, c))[p]>> \in With(t)
        BY <2>3, <3>2, MergedFacts DEF TypeInv
      <4>2. durablyInsertedOffsets[t][p] # None
        BY <4>1 DEF AdvanceInv, HasWatermark
      <4>3. None \notin Nat
        BY SinkTaskAssumption
      <4>4. /\ Merged(t, RowsOf(t, c))[p] \in Nat
            /\ durablyInsertedOffsets[t][p] < Merged(t, RowsOf(t, c))[p]
        BY <2>3, <3>2, <4>2, MergedFacts DEF TypeInv
      <4> QED
        BY <1>4, <2>5, <3>1, <4>2, <4>3, <4>4
    <3> QED
      BY <2>5, <3>1, <3>2
  <2> QED
    BY <2>4, <2>5
<1>5. CASE Work(t) /\ ~InsertTopic(t)
  BY <1>5 DEF Work, Poll, FinishBatch, Fail, FailFatally, taskVars
<1> QED
  BY <1>1, <1>2, <1>3, <1>4, <1>5

\* What is with a task keeps its watermark.
LEMMA HasWatermarkStep ==
    ASSUME TypeInv, AdvanceInv, NEW t \in Tasks,
           Connect(t) \/ Put(t) \/ PutFails(t) \/ PreCommit(t) \/ Work(t)
    PROVE  HasWatermark'
<1> SUFFICES ASSUME NEW u \in Tasks, NEW r \in With(u)'
             PROVE  durablyInsertedOffsets'[u][r[1]] # None
  BY DEF HasWatermark
<1>1. ASSUME r \in With(u)
      PROVE  durablyInsertedOffsets'[u][r[1]] # None
  <2>1. ~ (Die(t) /\ u = t)
    BY WithFacts
  <2>2. r[1] \in Partitions
    BY <1>1, WithFacts, RecordFacts
  <2>3. durablyInsertedOffsets[u][r[1]] # None
    BY <1>1 DEF AdvanceInv, HasWatermark
  <2> QED
    BY <2>1, <2>2, <2>3, WatermarkFacts
<1>2. CASE Put(t) /\ u = t
  <2>1. PICK list \in NextLists(t) :
            /\ durablyInsertedOffsets' =
                   [durablyInsertedOffsets EXCEPT ![t] = Seeded(t, list)]
            /\ \E batch \in Accepted(t, list) :
                  records' = [records EXCEPT ![t] = Append(@, Converted(batch))]
    BY <1>2 DEF Put
  <2>2. PICK batch \in Accepted(t, list) :
            records' = [records EXCEPT ![t] = Append(@, Converted(batch))]
    BY <2>1
  <2>3. PICK n \in Nat : n = Len(records[t])
    BY DEF TypeInv, TypeOK
  <2>4. /\ Len(records'[t]) = n + 1
        /\ records'[t][n + 1] = Converted(batch)
        /\ \A j \in 1 .. n : records'[t][j] = records[t][j]
    BY <2>2, <2>3 DEF TypeInv, TypeOK
  <2>5. InHand(t)' = InHand(t)
    BY <1>2 DEF Put, workerVars, InHand
  <2>6. CASE r \in InHand(t)'
    BY <1>1, <1>2, <2>5, <2>6 DEF With
  <2>7. CASE r \in Queued(t, Len(records[t]))'
    <3>1. PICK j \in 1 .. n + 1 : r \in records'[t][j]
      BY <2>4, <2>7 DEF Queued
    <3>2. CASE j \in 1 .. n
      <4>1. r \in Queued(t, n)
        BY <2>4, <3>1, <3>2 DEF Queued
      <4> QED
        BY <1>1, <1>2, <2>3, <4>1 DEF With
    <3>3. CASE j = n + 1
      <4>1. r \in list
        BY <2>4, <3>1, <3>3, AcceptedFacts DEF Converted
      <4>2. durablyInsertedOffsets'[t] = Seeded(t, list)
        BY <2>1 DEF TypeInv, TypeOK
      <4> QED
        BY <1>2, <4>1, <4>2, SeededFacts DEF TypeInv
    <3> QED
      BY <3>2, <3>3
  <2> QED
    BY <1>2, <2>6, <2>7 DEF With
<1>3. CASE ~ (Put(t) /\ u = t)
  BY <1>1, <1>3, WithFacts
<1> QED
  BY <1>2, <1>3

\* The next commit of the owner of a partition does not go back when the task
\* puts, commits or inserts.
LEMMA OffsetGrows ==
    ASSUME TypeInv, TypeInv', AdvanceInv, NEW t \in Tasks, NEW u \in Tasks,
           NEW p \in Partitions,
           Put(t) \/ PutFails(t) \/ PreCommit(t) \/ Work(t)
    PROVE  CommittedOffset(u, p) <= CommittedOffset(u, p)'
<1> DEFINE old == durablyInsertedOffsets[u][p]
           new == durablyInsertedOffsets'[u][p]
           from == position[u][p]
           to == position'[u][p]
<1>1. /\ from \in Nat /\ to \in Nat
      /\ old \in Nat \cup {-1, None} /\ new \in Nat \cup {-1, None}
      /\ None \notin Int
  BY SinkTaskAssumption DEF TypeInv, TypeOK
<1>2. \/ new = old
      \/ old = None /\ u = t /\ new = position[t][p] - 1 /\ (Put(t) \/ PutFails(t))
      \/ old # None /\ new # None /\ old < new
  BY WatermarkFacts
<1>3. from <= to /\ (old = None /\ new = None => to = from)
  <2>1. CASE Put(t) /\ u = t
    <3>1. PICK list \in NextLists(t) :
              /\ durablyInsertedOffsets' =
                     [durablyInsertedOffsets EXCEPT ![t] = Seeded(t, list)]
              /\ position' = [position EXCEPT ![t] = After(t, list)]
      BY <2>1 DEF Put
    <3>2. new = Seeded(t, list)[p] /\ to = After(t, list)[p]
      BY <2>1, <3>1 DEF TypeInv, TypeOK
    <3>3. from <= to
      BY <1>1, <2>1, <3>2, AfterFacts DEF TypeInv
    <3>4. ASSUME new = None
          PROVE  to = from
      <4>1. Seeded(t, list)[p] = None
        BY <3>2, <3>4
      <4>2. \A r \in list : r[1] # p
        BY <4>1, SeededFacts DEF TypeInv
      <4>3. OffsetsOf(list, p) = {}
        BY <4>2 DEF OffsetsOf
      <4> QED
        BY <2>1, <3>2, <4>3, AfterFacts DEF TypeInv
    <3> QED
      BY <3>3, <3>4
  <2>2. CASE ~ (Put(t) /\ u = t)
    <3>1. to = from
      BY <2>2 DEF Put, PutFails, PreCommit, Work, Poll, InsertTopic, FinishBatch, Fail,
                  FailFatally, connectVars, TypeInv, TypeOK
    <3> QED
      BY <1>1, <3>1
  <2> QED
    BY <2>1, <2>2
<1>4. /\ CommittedOffset(u, p) = IF old = None THEN from ELSE Least(from, old + 1)
      /\ CommittedOffset(u, p)' = IF new = None THEN to ELSE Least(to, new + 1)
  BY DEF CommittedOffset
<1>5. u = t => from = position[t][p]
  OBVIOUS
<1> HIDE DEF old, new, from, to
<1> QED
  BY <1>1, <1>2, <1>3, <1>4, <1>5 DEF Least

\* AdvanceInv holds in the beginning.
LEMMA AdvanceInit == Init => AdvanceInv
BY DEF Init, AdvanceInv, OneOwner, HasWatermark, With, InHand, Queued, CommitNotBehind

\* A step of Kafka Connect keeps it.
LEMMA AdvanceConnect ==
    ASSUME TypeInv, AdvanceInv, NEW t \in Tasks, Connect(t)
    PROVE  AdvanceInv'
<1>1. HasWatermark'
  BY HasWatermarkStep
<1>2. ASSUME NEW p \in Partitions, Assign(t, p)
      PROVE  OneOwner' /\ CommitNotBehind'
  <2>1. /\ \A u \in Tasks : p \notin assigned[u]
        /\ assigned' = [assigned EXCEPT ![t] = @ \cup {p}]
        /\ position' = [position EXCEPT ![t][p] = committed[p]]
        /\ returned' = IF durablyInsertedOffsets[t][p] = None
                       THEN returned ELSE returned \cup {<<t, p>>}
        /\ UNCHANGED <<committed, durablyInsertedOffsets>>
    BY <1>2 DEF Assign, taskVars
  <2>2. \A u \in Tasks : \A q \in assigned'[u] :
            \/ u = t /\ q = p /\ position'[u][q] = committed[p]
            \/ q # p /\ q \in assigned[u] /\ position'[u][q] = position[u][q]
    BY <2>1 DEF TypeInv, TypeOK
  <2>3. OneOwner'
    BY <2>2 DEF AdvanceInv, OneOwner
  <2>4. CommitNotBehind'
    <3> SUFFICES ASSUME NEW u \in Tasks, NEW q \in assigned'[u], <<u, q>> \notin returned'
                 PROVE  committed[q] <= CommittedOffset(u, q)'
      BY <2>1 DEF CommitNotBehind
    <3>1. CASE u = t /\ q = p
      <4>1. durablyInsertedOffsets[t][p] = None
        BY <2>1, <3>1
      <4>2. CommittedOffset(u, q)' = committed[p]
        BY <2>1, <2>2, <3>1, <4>1 DEF CommittedOffset
      <4> QED
        BY <3>1, <4>2 DEF TypeInv, TypeOK
    <3>2. CASE q # p /\ q \in assigned[u] /\ position'[u][q] = position[u][q]
      <4>1. CommittedOffset(u, q)' = CommittedOffset(u, q) /\ <<u, q>> \notin returned
        BY <2>1, <3>2 DEF CommittedOffset
      <4> QED
        BY <3>2, <4>1 DEF AdvanceInv, CommitNotBehind
    <3> QED
      BY <2>2, <3>1, <3>2
  <2> QED
    BY <2>3, <2>4
<1>3. ASSUME ~ \E p \in Partitions : Assign(t, p)
      PROVE  OneOwner' /\ CommitNotBehind'
  <2>1. UNCHANGED <<committed, returned>>
    BY <1>3 DEF Connect, Start, Stop, Die, Revoke
  <2>2. \A u \in Tasks : \A q \in assigned'[u] :
            /\ q \in assigned[u] /\ position'[u][q] = position[u][q]
            /\ durablyInsertedOffsets'[u][q] = durablyInsertedOffsets[u][q]
    <3>1. CASE Start(t)
      BY <3>1 DEF Start, taskVars
    <3>2. CASE Stop(t)
      BY <3>2 DEF Stop, taskVars, TypeInv, TypeOK
    <3>3. CASE Die(t)
      BY <3>3 DEF Die, TypeInv, TypeOK
    <3>4. ASSUME NEW p \in Partitions, Revoke(t, p)
          PROVE  \A u \in Tasks : \A q \in assigned'[u] :
                    /\ q \in assigned[u] /\ position'[u][q] = position[u][q]
                    /\ durablyInsertedOffsets'[u][q] = durablyInsertedOffsets[u][q]
      BY <3>4 DEF Revoke, taskVars, TypeInv, TypeOK
    <3> QED
      BY <1>3, <3>1, <3>2, <3>3, <3>4 DEF Connect
  <2>3. \A u \in Tasks : \A q \in assigned'[u] :
            CommittedOffset(u, q)' = CommittedOffset(u, q)
    BY <2>2 DEF CommittedOffset
  <2> QED
    BY <2>1, <2>2, <2>3 DEF AdvanceInv, OneOwner, CommitNotBehind
<1> QED
  BY <1>1, <1>2, <1>3 DEF AdvanceInv

\* A step of a task keeps it.
LEMMA AdvanceTask ==
    ASSUME TypeInv, TypeInv', AdvanceInv, NEW t \in Tasks,
           Put(t) \/ PutFails(t) \/ PreCommit(t) \/ Work(t)
    PROVE  AdvanceInv'
<1>1. HasWatermark'
  BY HasWatermarkStep
<1>2. UNCHANGED <<assigned, returned>>
  BY DEF Put, PutFails, PreCommit, Work, Poll, InsertTopic, FinishBatch, Fail, FailFatally,
         connectVars
<1>3. OneOwner'
  BY <1>2 DEF AdvanceInv, OneOwner
<1>4. CommitNotBehind'
  <2> SUFFICES ASSUME NEW u \in Tasks, NEW p \in assigned[u], <<u, p>> \notin returned
               PROVE  committed'[p] <= CommittedOffset(u, p)'
    BY <1>2 DEF CommitNotBehind
  <2>1. p \in Partitions
    BY DEF TypeInv, TypeOK
  <2>2. CommittedOffset(u, p) <= CommittedOffset(u, p)'
    BY <2>1, OffsetGrows
  <2>3. committed[p] <= CommittedOffset(u, p)
    BY DEF AdvanceInv, CommitNotBehind
  <2>4. committed'[p] = committed[p] \/ committed'[p] = CommittedOffset(u, p)
    <3>1. CASE PreCommit(t)
      <4>1. p \in assigned[t] => u = t
        BY DEF AdvanceInv, OneOwner
      <4> QED
        BY <2>1, <3>1, <4>1 DEF PreCommit
    <3>2. CASE ~PreCommit(t)
      BY <3>2 DEF Put, PutFails, Work, Poll, InsertTopic, FinishBatch, Fail, FailFatally,
                  connectVars
    <3> QED
      BY <3>1, <3>2
  <2>5. /\ committed[p] \in Int /\ CommittedOffset(u, p) \in Int
        /\ CommittedOffset(u, p)' \in Int
    <3>1. /\ position[u][p] \in Nat /\ position'[u][p] \in Nat
          /\ durablyInsertedOffsets[u][p] \in Nat \cup {-1, None}
          /\ durablyInsertedOffsets'[u][p] \in Nat \cup {-1, None}
          /\ committed[p] \in Nat
      BY <2>1 DEF TypeInv, TypeOK
    <3> QED
      BY <3>1 DEF CommittedOffset, Least
  <2> QED
    BY <2>2, <2>3, <2>4, <2>5
<1> QED
  BY <1>1, <1>3, <1>4 DEF AdvanceInv

\* Every step keeps AdvanceInv.
LEMMA AdvanceNext == TypeInv /\ TypeInv' /\ AdvanceInv /\ [Next]_vars => AdvanceInv'
<1>1. ASSUME AdvanceInv, UNCHANGED vars
      PROVE  AdvanceInv'
  BY <1>1 DEF vars, connectVars, taskVars, workerVars, AdvanceInv, OneOwner, HasWatermark,
              With, InHand, Queued, CommitNotBehind, CommittedOffset
<1> QED
  BY <1>1, AdvanceConnect, AdvanceTask DEF Next, Work

\* A commit takes the offset of a partition back only when the partition has come
\* back to the task that commits, which kept the watermark of its first stay.
THEOREM CommitsAdvance == Spec => CommitAdvances
<1> DEFINE Inv == TypeInv /\ AdvanceInv
           Advances == \A p \in Partitions :
                          committed'[p] < committed[p] =>
                             \E t \in Tasks : p \in assigned[t] /\ <<t, p>> \in returned
<1>1. Init => Inv
  BY TypeInit, AdvanceInit
<1>2. Inv /\ [Next]_vars => Inv'
  BY TypeNext, AdvanceNext
<1>3. Inv /\ [Next]_vars => [Advances]_vars
  <2> SUFFICES ASSUME Inv, Next, NEW p \in Partitions, committed'[p] < committed[p]
               PROVE  \E t \in Tasks : p \in assigned[t] /\ <<t, p>> \in returned
    OBVIOUS
  <2>1. PICK t \in Tasks : Connect(t) \/ Put(t) \/ PutFails(t) \/ PreCommit(t) \/ Work(t)
    BY DEF Next, Work
  <2>2. committed[p] \in Nat
    BY DEF TypeInv, TypeOK
  <2>3. PreCommit(t)
    BY <2>1, <2>2 DEF Connect, Start, Stop, Die, Assign, Revoke, Put, PutFails, Work, Poll,
                InsertTopic, FinishBatch, Fail, FailFatally, connectVars
  <2>4. p \in assigned[t] /\ committed'[p] = CommittedOffset(t, p)
    BY <2>2, <2>3 DEF PreCommit
  <2>5. CommittedOffset(t, p) \in Int
    <3>1. position[t][p] \in Nat /\ durablyInsertedOffsets[t][p] \in Nat \cup {-1, None}
      BY DEF TypeInv, TypeOK
    <3> QED
      BY <3>1 DEF CommittedOffset, Least
  <2> QED
    BY <2>2, <2>4, <2>5 DEF AdvanceInv, CommitNotBehind
<1> QED
  BY <1>1, <1>2, <1>3, PTL DEF Spec, CommitAdvances
================================================================================
