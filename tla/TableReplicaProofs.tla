--------------------------- MODULE TableReplicaProofs --------------------------
(******************************************************************************)
(* Theorems about TableReplica, for any keys and values, any batch and any    *)
(* size of a chunk, any order of the lists and any number of errors.          *)
(******************************************************************************)
EXTENDS TableReplica, FiniteSetTheorems, WellFoundedInduction, TLAPS

--------------------------------------------------------------------------------
(* Numbers                                                                    *)

\* A set of numbers has a smallest one.
LEMMA SmallestExists ==
    ASSUME NEW S \in SUBSET Nat, S # {}
    PROVE  \E m \in S : \A n \in S : m <= n
<1> DEFINE R == {ss \in Nat \X Nat : ss[1] < ss[2]}
<1>1. IsWellFoundedOn(R, Nat)
  BY NatLessThanWellFounded DEF OpToRel
<1>2. PICK m \in S : \A n \in S : ~(<<n, m>> \in R)
  <2> HIDE DEF R
  <2> QED BY <1>1, WFMin
<1>3. ASSUME NEW n \in S PROVE m <= n
  <2>1. m \in Nat /\ n \in Nat
    OBVIOUS
  <2>2. ~(n < m)
    BY <1>2, <2>1
  <2> QED BY <2>1, <2>2
<1> QED
  BY <1>3

\* A set that holds zero, and the successor of every number it holds, holds every
\* number: the first one missing would be the successor of one that is not.
LEMMA EveryNumber ==
    ASSUME NEW S, 0 \in S, \A m \in Nat : m \in S => m + 1 \in S
    PROVE  \A m \in Nat : m \in S
<1> SUFFICES ASSUME Nat \ S # {} PROVE FALSE
  OBVIOUS
<1>1. PICK m \in Nat \ S : \A n \in Nat \ S : m <= n
  BY SmallestExists
<1>2. m # 0 /\ m \in Nat
  OBVIOUS
<1>3. m - 1 \in Nat /\ (m - 1) + 1 = m /\ ~(m <= m - 1)
  BY <1>2
<1>4. m - 1 \in S
  BY <1>1, <1>3
<1> QED
  BY <1>3, <1>4

\* A set of positions up to a bound has a last one.
LEMMA LastExists ==
    ASSUME NEW n \in Nat, NEW S \in SUBSET (1 .. n), S # {}
    PROVE  \E m \in S : \A i \in S : i <= m
<1> DEFINE T == {n - i : i \in S}
<1>1. T \in SUBSET Nat /\ T # {}
  <2>1. ASSUME NEW i \in S PROVE n - i \in Nat
    OBVIOUS
  <2> QED BY <2>1
<1>2. PICK x \in T : \A y \in T : x <= y
  <2> HIDE DEF T
  <2> QED BY <1>1, SmallestExists
<1>3. PICK m \in S : x = n - m
  OBVIOUS
<1>4. ASSUME NEW i \in S PROVE i <= m
  <2>1. n - m <= n - i
    BY <1>2, <1>3
  <2> QED BY <2>1
<1> QED
  BY <1>4

--------------------------------------------------------------------------------
(* The order of the lists                                                     *)

\* The statements are finitely many, and the hash map yields each of them.
LEMMA OrderIsFull ==
    ASSUME order \in SetToSeqs(Queries)
    PROVE  /\ \A q \in Queries : \E i \in DOMAIN order : order[i] = q
           /\ \A i \in DOMAIN order : order[i] \in Queries
           /\ DOMAIN order \subseteq Nat
<1>1. IsFiniteSet(Queries)
  <2>1. Queries \subseteq (({} \cup {{"key"}}) \cup {{"key", "val"}}) \cup {TruncateQuery}
    BY DEF Queries
  <2>2. IsFiniteSet((({} \cup {{"key"}}) \cup {{"key", "val"}}) \cup {TruncateQuery})
    BY FS_EmptySet, FS_AddElement
  <2> QED BY <2>1, <2>2, FS_Subset
<1> DEFINE c == Cardinality(Queries)
<1>2. c \in Nat
  BY <1>1, FS_CardinalityType
<1>3. /\ order \in [1 .. c -> Queries]
      /\ \A i, j \in 1 .. c : i # j => order[i] # order[j]
  BY DEF SetToSeqs
<1> HIDE DEF c
<1>4. order \in Injection(1 .. c, Queries)
  BY <1>3 DEF Injection, IsInjective
<1>5. Cardinality(1 .. c) = c
  <2>1. Cardinality(1 .. c) = IF 1 > c THEN 0 ELSE c - 1 + 1
    BY <1>2, FS_Interval
  <2> QED BY <1>2, <2>1
<1>6. order \in Surjection(1 .. c, Queries)
  BY <1>1, <1>4, <1>5, FS_Injection DEF c
<1> QED
  BY <1>2, <1>3, <1>6 DEF Surjection

\* While a list is left there is a current one.
LEMMA CurrentFacts ==
    ASSUME order \in SetToSeqs(Queries), Pending # {}
    PROVE  CurrentQuery \in Queries /\ queryToRecordsMap[CurrentQuery] # <<>>
<1>1. Pending \in SUBSET Nat
  BY OrderIsFull DEF Pending
<1>2. \E i \in Pending : \A j \in Pending : i <= j
  BY <1>1, SmallestExists
<1>3. \E i \in Pending : CurrentQuery = order[i]
  BY <1>2 DEF CurrentQuery
<1> QED
  BY <1>3, OrderIsFull DEF Pending

--------------------------------------------------------------------------------
(* The lists of a batch                                                       *)

\* groupQueryWithRecords is a function of the number of records grouped, and its
\* rounds follow each other: the definition of Grouped is not empty.
LEMMA GroupedRounds ==
    ASSUME NEW records, Len(records) \in Nat
    PROVE  \E map : /\ map[0] = Nothing
                    /\ \A i \in 1 .. Len(records) :
                          map[i] = updateQueryToRecordsMap(map[i - 1], records[i])
                    /\ Grouped(records) = map[Len(records)]
<1> DEFINE Rounds(f, n) ==
              f = [i \in 0 .. n |-> IF i = 0 THEN Nothing
                                    ELSE updateQueryToRecordsMap(f[i - 1], records[i])]
           S == {n \in Nat : \E f : Rounds(f, n)}
<1>1. 0 \in S
  <2> DEFINE f == [i \in 0 .. 0 |-> Nothing]
  <2>1. Rounds(f, 0)
    OBVIOUS
  <2> QED BY <2>1
<1>2. ASSUME NEW n \in Nat, n \in S PROVE n + 1 \in S
  <2>1. PICK f : Rounds(f, n)
    BY <1>2
  <2> DEFINE g == [i \in 0 .. n + 1 |->
                     IF i = n + 1 THEN updateQueryToRecordsMap(f[n], records[n + 1]) ELSE f[i]]
  <2>2. \A i \in 0 .. n : g[i] = f[i]
    OBVIOUS
  <2>3. ASSUME NEW i \in 0 .. n + 1
        PROVE  g[i] = IF i = 0 THEN Nothing ELSE updateQueryToRecordsMap(g[i - 1], records[i])
    <3>1. CASE i = n + 1
      <4>1. i # 0 /\ i - 1 = n /\ n \in 0 .. n
        BY <3>1
      <4>2. g[i] = updateQueryToRecordsMap(f[n], records[n + 1])
        BY <3>1
      <4> HIDE DEF g
      <4> QED BY <2>2, <3>1, <4>1, <4>2
    <3>2. CASE i # n + 1 /\ i # 0
      <4>1. i \in 0 .. n /\ i - 1 \in 0 .. n
        BY <3>2
      <4>2. f[i] = updateQueryToRecordsMap(f[i - 1], records[i])
        BY <2>1, <3>2, <4>1
      <4> HIDE DEF g
      <4> QED BY <2>2, <3>2, <4>1, <4>2
    <3>3. CASE i = 0
      <4>1. i \in 0 .. n /\ f[0] = Nothing
        BY <2>1, <3>3
      <4> HIDE DEF g
      <4> QED BY <2>2, <3>3, <4>1
    <3> QED BY <3>1, <3>2, <3>3
  <2>4. Rounds(g, n + 1)
    <3>1. g = [i \in 0 .. n + 1 |-> g[i]]
      OBVIOUS
    <3> HIDE DEF g
    <3> QED BY <2>3, <3>1
  <2> HIDE DEF g, Rounds
  <2> QED BY <2>4
<1>3. Len(records) \in S
  <2> HIDE DEF S
  <2> QED BY <1>1, <1>2, EveryNumber
<1>4. \E f : Rounds(f, Len(records))
  BY <1>3
<1> DEFINE map == CHOOSE f : Rounds(f, Len(records))
<1>5. Rounds(map, Len(records))
  <2> HIDE DEF Rounds
  <2> QED BY <1>4
<1>6. Grouped(records) = map[Len(records)]
  BY DEF Grouped
<1> HIDE DEF map
<1>7. map[0] = Nothing
  BY <1>5
<1>8. ASSUME NEW i \in 1 .. Len(records)
      PROVE  map[i] = updateQueryToRecordsMap(map[i - 1], records[i])
  BY <1>5
<1> QED
  BY <1>6, <1>7, <1>8

--------------------------------------------------------------------------------
(* Batches                                                                    *)

\* The images that a record has are those of its operation.
WellFormed(record) ==
    /\ record.op \in {"c", "d", "u", "t"}
    /\ record.before \in (IF record.op \in {"d", "u"} THEN Row ELSE {NoRow})
    /\ record.after \in (IF record.op \in {"c", "u"} THEN Row ELSE {NoRow})

\* The records of a batch are the last ones captured, in the order of their
\* versions, and a batch that a worker has taken is not empty.
BatchInv ==
    /\ Len(batch) <= captured
    /\ \A i \in 1 .. Len(batch) :
          /\ WellFormed(batch[i])
          /\ batch[i].version = captured - Len(batch) + i
    /\ pc # "capturing" => batch # <<>>
    /\ pc # "capturing" /\ ~disturbed => ~OrderMatters(batch)

\* No TRUNCATE in the batch, and nothing but one.
Plain == \A i \in 1 .. Len(batch) : batch[i].op # "t"
Alone == Len(batch) = 1 /\ batch[1].op = "t"

\* The lists that a record goes into.
Lists(record) ==
    {query \in Queries :
        \/ record.before \in Row /\ query = ModifiedFields(record.before)
        \/ record.after \in Row /\ query = ModifiedFields(record.after)
        \/ record.op = "t" /\ query = TruncateQuery}

\* What the invariants say of the records of a batch, in numbers.
LEMMA BatchFacts ==
    ASSUME TypeOK, BatchInv
    PROVE  /\ Len(batch) \in Nat /\ captured \in Nat /\ captured <= MaxRecords
           /\ captured - Len(batch) \in Nat
           /\ \A i \in 1 .. Len(batch) :
                 /\ batch[i] \in Record /\ WellFormed(batch[i])
                 /\ batch[i].version = captured - Len(batch) + i
           /\ ToSet(batch) = {batch[i] : i \in 1 .. Len(batch)}
           /\ \A i, j \in 1 .. Len(batch) :
                 /\ i <= j <=> batch[i].version <= batch[j].version
                 /\ batch[i] = batch[j] => i = j
<1> USE ReplicaAssumption
<1>1. Len(batch) \in Nat /\ DOMAIN batch = 1 .. Len(batch)
  BY DEF TypeOK
<1>2. captured \in Nat /\ captured <= MaxRecords
  BY DEF TypeOK
<1>3. captured - Len(batch) \in Nat
  BY <1>1, <1>2 DEF BatchInv
<1>4. \A i \in 1 .. Len(batch) :
         /\ batch[i] \in Record /\ WellFormed(batch[i])
         /\ batch[i].version = captured - Len(batch) + i
  BY DEF TypeOK, BatchInv
<1>5. ToSet(batch) = {batch[i] : i \in 1 .. Len(batch)}
  BY <1>1 DEF ToSet
<1>6. \A i, j \in 1 .. Len(batch) : i <= j <=> batch[i].version <= batch[j].version
  BY <1>1, <1>3, <1>4
<1>7. \A i, j \in 1 .. Len(batch) : batch[i] = batch[j] => i = j
  <2> SUFFICES ASSUME NEW i \in 1 .. Len(batch), NEW j \in 1 .. Len(batch),
                      batch[i].version = batch[j].version
               PROVE  i = j
    OBVIOUS
  <2>1. captured - Len(batch) + i = captured - Len(batch) + j
    BY <1>4
  <2> QED BY <1>1, <1>3, <2>1
<1> QED
  BY <1>1, <1>2, <1>3, <1>4, <1>5, <1>6, <1>7

\* The columns of a row name a statement.
LEMMA FieldsAreQueries ==
    ASSUME NEW row \in Row
    PROVE  ModifiedFields(row) \in Queries
<1>1. CASE row.val = Null
  BY <1>1 DEF ModifiedFields, Queries
<1>2. CASE row.val # Null
  <2>1. ModifiedFields(row) = {"key", "val"}
    BY <1>2 DEF ModifiedFields
  <2> QED BY <2>1 DEF Queries
<1> QED
  BY <1>1, <1>2

\* Lists that hold the first i records where they belong, in order.
InLists(map, i) ==
    /\ map \in [Queries -> Seq(ToSet(batch))]
    /\ \A q \in Queries : \A p \in 1 .. Len(map[q]) :
          \E j \in 1 .. i : map[q][p] = batch[j] /\ q \in Lists(batch[j])
    /\ \A q \in Queries : \A p \in 1 .. Len(map[q]) : \A o \in p .. Len(map[q]) :
          map[q][p].version <= map[q][o].version

\* One more record at the end of a list.
LEMMA AddRecordFacts ==
    ASSUME TypeOK, BatchInv, NEW i \in 1 .. Len(batch), NEW map, InLists(map, i),
           NEW query \in Lists(batch[i])
    PROVE  /\ InLists(AddRecord(map, query, batch[i]), i)
           /\ batch[i] \in ToSet(AddRecord(map, query, batch[i])[query])
           /\ \A q \in Queries : ToSet(map[q]) \subseteq ToSet(AddRecord(map, query, batch[i])[q])
<1> DEFINE new == AddRecord(map, query, batch[i])
<1>1. query \in Queries /\ map \in [Queries -> Seq(ToSet(batch))]
  BY DEF Lists, InLists
<1>2. batch[i] \in ToSet(batch)
  BY BatchFacts
<1>3. /\ new \in [Queries -> Seq(ToSet(batch))]
      /\ new[query] = Append(map[query], batch[i])
      /\ \A q \in Queries : q # query => new[q] = map[q]
  <2> HIDE DEF InLists
  <2>1. Append(map[query], batch[i]) \in Seq(ToSet(batch))
    BY <1>1, <1>2
  <2> QED BY <1>1, <2>1 DEF AddRecord
<1> HIDE DEF new
<1>4. PICK n \in Nat : n = Len(map[query])
  BY <1>1
<1>5. /\ Len(new[query]) = n + 1
      /\ \A p \in 1 .. n : new[query][p] = map[query][p]
      /\ new[query][n + 1] = batch[i]
  BY <1>1, <1>3, <1>4
<1>6. ASSUME NEW q \in Queries, NEW p \in 1 .. Len(new[q])
      PROVE  \E j \in 1 .. i : new[q][p] = batch[j] /\ q \in Lists(batch[j])
  <2>1. CASE q # query
    BY <1>3, <1>6, <2>1 DEF InLists
  <2>2. CASE q = query /\ p \in 1 .. n
    BY <1>4, <1>5, <2>2 DEF InLists
  <2>3. CASE q = query /\ p = n + 1
    BY <1>5, <2>3
  <2> QED BY <1>4, <1>5, <1>6, <2>1, <2>2, <2>3
<1>7. ASSUME NEW q \in Queries, NEW p \in 1 .. Len(new[q]), NEW o \in p .. Len(new[q])
      PROVE  new[q][p].version <= new[q][o].version
  <2>1. CASE q # query
    BY <1>3, <1>7, <2>1 DEF InLists
  <2>2. CASE q = query /\ o \in 1 .. n
    <3>1. p \in 1 .. n /\ o \in p .. n
      BY <1>4, <1>5, <1>7, <2>2
    <3> QED BY <1>4, <1>5, <2>2, <3>1 DEF InLists
  <2>3. CASE q = query /\ o = n + 1
    <3>1. PICK j \in 1 .. i : new[q][p] = batch[j]
      BY <1>6
    <3>2. j \in 1 .. Len(batch) /\ j <= i
      BY BatchFacts
    <3> QED BY <1>5, <2>3, <3>1, <3>2, BatchFacts
  <2>4. o \in 1 .. Len(new[q])
    BY <1>3, <1>7
  <2> QED BY <1>4, <1>5, <2>1, <2>2, <2>3, <2>4
<1>8. InLists(new, i)
  BY <1>3, <1>6, <1>7 DEF InLists
<1>9. batch[i] \in ToSet(new[query])
  BY <1>1, <1>3, <1>5 DEF ToSet
<1>10. ASSUME NEW q \in Queries PROVE ToSet(map[q]) \subseteq ToSet(new[q])
  <2>1. CASE q # query
    BY <1>3, <2>1
  <2>2. CASE q = query
    <3>1. DOMAIN map[query] = 1 .. n /\ DOMAIN new[query] = 1 .. n + 1
      BY <1>1, <1>3, <1>4, <1>5
    <3> QED BY <1>5, <2>2, <3>1 DEF ToSet
  <2> QED BY <2>1, <2>2
<1> QED
  BY <1>8, <1>9, <1>10 DEF new

\* The first i records are in the lists, all of them unless there is a TRUNCATE.
Filled(map, i) ==
    /\ InLists(map, i)
    /\ Plain => \A q \in Queries : \A j \in 1 .. i :
                   q \in Lists(batch[j]) => batch[j] \in ToSet(map[q])
    /\ i = 1 /\ Alone => map[TruncateQuery] # <<>>

\* One round of groupQueryWithRecords.
LEMMA RoundFacts ==
    ASSUME TypeOK, BatchInv, NEW i \in 1 .. Len(batch), NEW map, Filled(map, i - 1)
    PROVE  Filled(updateQueryToRecordsMap(map, batch[i]), i)
<1> DEFINE r == batch[i]
           new == updateQueryToRecordsMap(map, r)
<1>w. r \in Record /\ WellFormed(r) /\ NoRow \notin Row /\ i \in Nat
  BY BatchFacts, NoRowAssumption
<1>1. InLists(map, i)
  <2>1. \A j \in 1 .. i - 1 : j \in 1 .. i
    OBVIOUS
  <2> QED BY <2>1 DEF Filled, InLists
<1>2. \A j \in 1 .. i : j = i \/ j \in 1 .. i - 1
  OBVIOUS
<1>3. CASE r.op # "t"
  <2>1. /\ InLists(new, i)
        /\ \A q \in Lists(r) : r \in ToSet(new[q])
        /\ \A q \in Queries : ToSet(map[q]) \subseteq ToSet(new[q])
    <3>1. CASE r.op = "c"
      <4>1. r.after \in Row /\ r.before = NoRow
        BY <1>w, <3>1 DEF WellFormed
      <4>2. Lists(r) = {ModifiedFields(r.after)}
        BY <1>w, <3>1, <4>1, FieldsAreQueries DEF Lists
      <4>3. new = AddRecord(map, ModifiedFields(r.after), r)
        BY <3>1 DEF updateQueryToRecordsMap
      <4> HIDE DEF new
      <4> QED BY <1>1, <4>2, <4>3, AddRecordFacts
    <3>2. CASE r.op = "d"
      <4>1. r.before \in Row /\ r.after = NoRow
        BY <1>w, <3>2 DEF WellFormed
      <4>2. Lists(r) = {ModifiedFields(r.before)}
        BY <1>w, <3>2, <4>1, FieldsAreQueries DEF Lists
      <4>3. new = AddRecord(map, ModifiedFields(r.before), r)
        BY <3>2 DEF updateQueryToRecordsMap
      <4> HIDE DEF new
      <4> QED BY <1>1, <4>2, <4>3, AddRecordFacts
    <3>3. CASE r.op = "u"
      <4>1. r.before \in Row /\ r.after \in Row
        BY <1>w, <3>3 DEF WellFormed
      <4>2. Lists(r) = {ModifiedFields(r.before), ModifiedFields(r.after)}
        BY <1>w, <3>3, <4>1, FieldsAreQueries DEF Lists
      <4> DEFINE first == AddRecord(map, ModifiedFields(r.before), r)
      <4>3. new = AddRecord(first, ModifiedFields(r.after), r)
        BY <3>3 DEF updateQueryToRecordsMap
      <4>4. /\ InLists(first, i)
            /\ r \in ToSet(first[ModifiedFields(r.before)])
            /\ \A q \in Queries : ToSet(map[q]) \subseteq ToSet(first[q])
        BY <1>1, <4>2, AddRecordFacts
      <4> HIDE DEF new, first
      <4>5. /\ InLists(new, i)
            /\ r \in ToSet(new[ModifiedFields(r.after)])
            /\ \A q \in Queries : ToSet(first[q]) \subseteq ToSet(new[q])
        BY <4>2, <4>3, <4>4, AddRecordFacts
      <4> QED BY <4>1, <4>2, <4>4, <4>5, FieldsAreQueries
    <3> QED BY <1>w, <1>3, <3>1, <3>2, <3>3 DEF WellFormed
  <2> HIDE DEF new
  <2>2. ASSUME Plain, NEW q \in Queries, NEW j \in 1 .. i, q \in Lists(batch[j])
        PROVE  batch[j] \in ToSet(new[q])
    <3>1. CASE j = i
      BY <2>1, <2>2, <3>1
    <3>2. CASE j \in 1 .. i - 1
      BY <2>1, <2>2, <3>2 DEF Filled
    <3> QED BY <1>2, <3>1, <3>2
  <2>3. ~(i = 1 /\ Alone)
    BY <1>3 DEF Alone
  <2> QED BY <2>1, <2>2, <2>3 DEF Filled, new
<1>4. CASE r.op = "t"
  <2>1. "t" \in Operations /\ TruncateQuery \in Queries
    BY <1>w, <1>4 DEF Record, Queries
  <2>2. TruncateQuery \in Lists(r) /\ r \in ToSet(batch)
    BY <1>4, <2>1, BatchFacts DEF Lists
  <2>3. new = [map EXCEPT ![TruncateQuery] = <<r>>]
    BY <1>4 DEF updateQueryToRecordsMap
  <2>4. map \in [Queries -> Seq(ToSet(batch))] /\ <<r>> \in Seq(ToSet(batch))
    BY <1>1, <2>2 DEF InLists
  <2>5. /\ new \in [Queries -> Seq(ToSet(batch))]
        /\ new[TruncateQuery] = <<r>>
        /\ \A q \in Queries : q # TruncateQuery => new[q] = map[q]
    BY <2>1, <2>3, <2>4
  <2> HIDE DEF new
  <2>6. ASSUME NEW q \in Queries, NEW p \in 1 .. Len(new[q])
        PROVE  \E j \in 1 .. i : new[q][p] = batch[j] /\ q \in Lists(batch[j])
    <3>1. CASE q # TruncateQuery
      BY <1>1, <2>5, <2>6, <3>1 DEF InLists
    <3>2. CASE q = TruncateQuery
      <4>1. new[q][p] = r
        BY <2>5, <2>6, <3>2
      <4> QED BY <2>2, <3>2, <4>1
    <3> QED BY <3>1, <3>2
  <2>7. ASSUME NEW q \in Queries, NEW p \in 1 .. Len(new[q]), NEW o \in p .. Len(new[q])
        PROVE  new[q][p].version <= new[q][o].version
    <3>1. CASE q # TruncateQuery
      BY <1>1, <2>5, <2>7, <3>1 DEF InLists
    <3>2. CASE q = TruncateQuery
      <4>1. Len(new[q]) = 1
        BY <2>5, <3>2
      <4>2. p = 1 /\ o = 1
        BY <2>7, <4>1
      <4>3. new[q][1] = r /\ r.version \in Nat
        BY <1>w, <2>5, <3>2, ReplicaAssumption DEF Record
      <4> QED BY <4>2, <4>3
    <3> QED BY <3>1, <3>2
  <2>8. ~Plain
    BY <1>4 DEF Plain
  <2>9. new[TruncateQuery] # <<>>
    BY <2>5
  <2> QED BY <2>5, <2>6, <2>7, <2>8, <2>9 DEF Filled, InLists, new
<1> QED
  BY <1>3, <1>4

\* groupQueryWithRecords puts every record where it belongs.
LEMMA GroupedFacts ==
    ASSUME TypeOK, BatchInv
    PROVE  Filled(Grouped(batch), Len(batch))
<1> DEFINE n == Len(batch)
<1>n. n \in Nat
  BY BatchFacts
<1>1. PICK map : /\ map[0] = Nothing
                 /\ \A i \in 1 .. n : map[i] = updateQueryToRecordsMap(map[i - 1], batch[i])
                 /\ Grouped(batch) = map[n]
  BY <1>n, GroupedRounds
<1> HIDE DEF n
<1> DEFINE S == {i \in Nat : i <= n => Filled(map[i], i)}
<1>2. 0 \in S
  <2>1. InLists(Nothing, 0)
    BY DEF InLists, Nothing
  <2> QED BY <1>1, <2>1 DEF Filled
<1>3. ASSUME NEW i \in Nat, i \in S PROVE i + 1 \in S
  <2> SUFFICES ASSUME i + 1 <= n PROVE Filled(map[i + 1], i + 1)
    OBVIOUS
  <2>1. i + 1 \in 1 .. n /\ (i + 1) - 1 = i /\ i <= n
    BY <1>n
  <2>2. Filled(map[i], i)
    BY <1>3, <2>1
  <2> HIDE DEF S
  <2>3. map[i + 1] = updateQueryToRecordsMap(map[i], batch[i + 1])
    BY <1>1, <2>1
  <2> QED BY <2>1, <2>2, <2>3, RoundFacts DEF n
<1>4. n \in S
  <2> HIDE DEF S
  <2> QED BY <1>2, <1>3, <1>n, EveryNumber
<1> QED
  BY <1>1, <1>4, <1>n DEF n

--------------------------------------------------------------------------------
(* Steps                                                                      *)

\* A change of the source is captured.
SourceStep(record) ==
    /\ pc = "capturing" /\ captured < MaxRecords
    /\ record \in Record /\ WellFormed(record) /\ record.version = captured + 1
    /\ record.before # record.after \/ record.op = "t"
    /\ record.before \in Row => record.before \in source
    /\ record.after \in Row => \A r \in source \ {record.before} : r.key # record.after.key
    /\ source' = IF record.op = "t" THEN {}
                 ELSE (source \ {record.before}) \cup ({record.after} \cap Row)
    /\ captured' = captured + 1
    /\ batch' = Append(batch, record)
    /\ held' = held \cup source'
    /\ UNCHANGED <<pc, order, queryToRecordsMap, table, failures, disturbed>>

\* Every action of the source is one.
LEMMA SourceSteps ==
    ASSUME TypeOK, Insert \/ Update \/ Delete \/ Truncate
    PROVE  \E record : SourceStep(record)
<1> USE ReplicaAssumption, NoRowAssumption
<1>1. captured \in Nat /\ source \subseteq Row /\ MaxRecords \in Nat
  BY DEF TypeOK
<1>2. ASSUME NEW op \in Operations, NEW before, NEW after, captured < MaxRecords
      PROVE  captured + 1 \in 1 .. MaxRecords
  BY <1>1, <1>2
<1>3. CASE Insert
  <2>1. PICK row \in Row : /\ KeyIsFree(source, row)
                           /\ source' = source \cup {row}
                           /\ Capture("c", NoRow, row)
    BY <1>3 DEF Insert
  <2> DEFINE r == [op |-> "c", before |-> NoRow, after |-> row, version |-> captured + 1]
  <2>2. "c" \in Operations /\ captured < MaxRecords
    BY <2>1 DEF Capture
  <2>3. r \in Record /\ WellFormed(r)
    BY <1>1, <1>2, <2>2 DEF Record, WellFormed
  <2>4. SourceStep(r)
    BY <1>1, <2>1, <2>3 DEF Capture, SourceStep, KeyIsFree
  <2> QED BY <2>4
<1>4. CASE Update
  <2>1. PICK old \in source, new \in Row :
           /\ new # old
           /\ KeyIsFree(source \ {old}, new)
           /\ source' = (source \ {old}) \cup {new}
           /\ Capture("u", old, new)
    BY <1>4 DEF Update
  <2> DEFINE r == [op |-> "u", before |-> old, after |-> new, version |-> captured + 1]
  <2>2. "u" \in Operations /\ captured < MaxRecords /\ old \in Row
    BY <1>1, <2>1 DEF Capture
  <2>3. r \in Record /\ WellFormed(r)
    BY <1>1, <1>2, <2>2 DEF Record, WellFormed
  <2>4. SourceStep(r)
    BY <1>1, <2>1, <2>3 DEF Capture, SourceStep, KeyIsFree
  <2> QED BY <2>4
<1>5. CASE Delete
  <2>1. PICK row \in source : source' = source \ {row} /\ Capture("d", row, NoRow)
    BY <1>5 DEF Delete
  <2> DEFINE r == [op |-> "d", before |-> row, after |-> NoRow, version |-> captured + 1]
  <2>2. "d" \in Operations /\ captured < MaxRecords /\ row \in Row
    BY <1>1, <2>1 DEF Capture
  <2>3. r \in Record /\ WellFormed(r)
    BY <1>1, <1>2, <2>2 DEF Record, WellFormed
  <2>4. SourceStep(r)
    BY <1>1, <2>1, <2>2, <2>3 DEF Capture, SourceStep
  <2> QED BY <2>4
<1>6. CASE Truncate
  <2> DEFINE r == [op |-> "t", before |-> NoRow, after |-> NoRow, version |-> captured + 1]
  <2>2. "t" \in Operations /\ captured < MaxRecords
    BY <1>6 DEF Capture, Truncate
  <2>3. r \in Record /\ WellFormed(r)
    BY <1>1, <1>2, <2>2 DEF Record, WellFormed
  <2>4. SourceStep(r)
    BY <1>1, <1>6, <2>3 DEF Capture, SourceStep, Truncate
  <2> QED BY <2>4
<1> QED
  BY <1>3, <1>4, <1>5, <1>6

\* A batch with one more record.
LEMMA AppendFacts ==
    ASSUME TypeOK, NEW record, SourceStep(record)
    PROVE  /\ Len(batch) \in Nat /\ Len(batch') = Len(batch) + 1
           /\ \A i \in 1 .. Len(batch) : batch'[i] = batch[i]
           /\ batch'[Len(batch) + 1] = record
           /\ batch' \in Seq(Record) /\ ToSet(batch) \subseteq ToSet(batch')
<1>1. batch \in Seq(Record) /\ batch' = Append(batch, record) /\ record \in Record
  BY DEF TypeOK, SourceStep
<1>2. /\ Len(batch) \in Nat /\ Len(batch') = Len(batch) + 1
      /\ \A i \in 1 .. Len(batch) : batch'[i] = batch[i]
      /\ batch'[Len(batch) + 1] = record
      /\ batch' \in Seq(Record)
  BY <1>1
<1>3. DOMAIN batch = 1 .. Len(batch) /\ DOMAIN batch' = 1 .. Len(batch')
  BY <1>1, <1>2
<1>4. ToSet(batch) \subseteq ToSet(batch')
  BY <1>2, <1>3 DEF ToSet
<1> QED
  BY <1>2, <1>4

\* The current list, which is not empty.
LEMMA CurrentList ==
    ASSUME TypeOK, Pending # {}
    PROVE  /\ CurrentQuery \in Queries
           /\ queryToRecordsMap[CurrentQuery] \in Seq(ToSet(batch))
           /\ queryToRecordsMap[CurrentQuery] # <<>>
<1>1. CurrentQuery \in Queries /\ queryToRecordsMap[CurrentQuery] # <<>>
  BY CurrentFacts DEF TypeOK
<1> QED
  BY <1>1 DEF TypeOK

\* A chunk takes m records from its list, and leaves the rest.
Takes(m, list, rest) ==
    /\ m \in 1 .. Len(list)
    /\ DOMAIN NextChunk = 1 .. m
    /\ \A p \in 1 .. m : NextChunk[p] = list[p]
    /\ rest \in Seq(ToSet(batch)) /\ Len(rest) = Len(list) - m
    /\ \A p \in 1 .. Len(list) - m : rest[p] = list[p + m]

LEMMA ChunkFacts ==
    ASSUME TypeOK, Pending # {},
           NEW list, list = queryToRecordsMap[CurrentQuery],
           NEW rest, rest = SubSeq(list, Len(NextChunk) + 1, Len(list))
    PROVE  \E m \in Nat : Takes(m, list, rest)
<1> USE ReplicaAssumption
<1>1. list \in Seq(ToSet(batch)) /\ list # <<>>
  BY CurrentList
<1>2. PICK n \in Nat : n = Len(list) /\ n >= 1
  BY <1>1
<1> DEFINE m == IF n < BUFFER_MAX_RECORDS THEN n ELSE BUFFER_MAX_RECORDS
<1>3. m \in 1 .. n /\ m \in Nat
  BY <1>2
<1>4. NextChunk = SubSeq(list, 1, m)
  BY <1>2 DEF NextChunk
<1> HIDE DEF m
<1>5. /\ Len(NextChunk) = m /\ DOMAIN NextChunk = 1 .. m
      /\ \A p \in 1 .. m : NextChunk[p] = list[p]
  BY <1>1, <1>2, <1>3, <1>4
<1>6. m + 1 \in 1 .. n + 1
  BY <1>3
<1>7. rest = SubSeq(list, m + 1, n)
  BY <1>2, <1>5
<1>8. /\ rest \in Seq(ToSet(batch)) /\ Len(rest) = n - m
      /\ \A p \in 1 .. n - m : rest[p] = list[p + m]
  <2>1. /\ SubSeq(list, m + 1, n) \in Seq(ToSet(batch))
        /\ Len(SubSeq(list, m + 1, n)) = n - m
        /\ \A p \in 1 .. n - m : SubSeq(list, m + 1, n)[p] = list[p + m]
    BY <1>1, <1>2, <1>3, <1>6
  <2> QED BY <1>7, <2>1
<1>9. Takes(m, list, rest)
  BY <1>2, <1>3, <1>5, <1>8 DEF Takes
<1> QED
  BY <1>3, <1>9

\* A row that a record stages has the type of a row of the table, and a version
\* that is no higher than that of the record.
LEMMA StagedType ==
    ASSUME NEW record \in Record, WellFormed(record), record.op # "t",
           NEW query, NEW s \in StagedRows(query, record)
    PROVE  s \in TableRow /\ s.version <= record.version
<1> USE ReplicaAssumption, NoRowAssumption
<1>1. record.version \in 1 .. MaxRecords /\ record.op \in {"c", "d", "u"}
  BY DEF Record, WellFormed
<1>2. ASSUME NEW image \in Row, NEW version \in 0 .. MaxRecords
      PROVE  /\ InsertedRow(query, image, version, TRUE) \in TableRow
             /\ InsertedRow(query, image, version, TRUE).version = version
  BY DEF InsertedRow, TableRow, Row
<1>3. ASSUME NEW image \in Row, NEW version \in 0 .. MaxRecords
      PROVE  /\ InsertedRow(query, image, version, FALSE) \in TableRow
             /\ InsertedRow(query, image, version, FALSE).version = version
  BY DEF InsertedRow, TableRow, Row
<1>4. /\ record.version \in 0 .. MaxRecords /\ record.version - 1 \in 0 .. MaxRecords
      /\ record.version <= record.version /\ record.version - 1 <= record.version
  BY <1>1
<1>5. CASE record.op = "c"
  <2>1. s = InsertedRow(query, record.after, record.version, FALSE) /\ record.after \in Row
    BY <1>5 DEF StagedRows, WellFormed
  <2> QED BY <1>2, <1>3, <1>4, <2>1
<1>6. CASE record.op = "d"
  <2>1. s = InsertedRow(query, record.before, record.version, TRUE) /\ record.before \in Row
    BY <1>6 DEF StagedRows, WellFormed
  <2> QED BY <1>2, <1>3, <1>4, <2>1
<1>7. CASE record.op = "u"
  <2>1. record.before \in Row /\ record.after \in Row
    BY <1>7 DEF WellFormed
  <2>2. \/ s = InsertedRow(query, record.after, record.version, FALSE)
        \/ s = InsertedRow(query, record.before, record.version - 1, TRUE)
    BY <1>7 DEF StagedRows
  <2>3. CASE s = InsertedRow(query, record.after, record.version, FALSE)
    BY <1>3, <1>4, <2>1, <2>3
  <2>4. CASE s = InsertedRow(query, record.before, record.version - 1, TRUE)
    <3>1. PICK v \in 0 .. MaxRecords : v = record.version - 1
      BY <1>4
    <3>2. s = InsertedRow(query, record.before, v, TRUE) /\ v <= record.version
      BY <1>4, <2>4, <3>1
    <3> QED BY <1>2, <2>1, <3>2
  <2> QED BY <2>2, <2>3, <2>4
<1> QED
  BY <1>1, <1>5, <1>6, <1>7

\* After a chunk the table has rows it had before, and rows that records of the
\* list have staged.
LEMMA ChunkAdds ==
    ASSUME TypeOK, BatchInv, Pending # {},
           NEW r \in ExecuteChunk(table, CurrentQuery, NextChunk)
    PROVE  \/ r \in table
           \/ \E i \in 1 .. Len(batch) :
                 /\ batch[i] \in ToSet(queryToRecordsMap[CurrentQuery])
                 /\ batch[i].op # "t"
                 /\ r \in StagedRows(CurrentQuery, batch[i])
<1>l. PICK list : list = queryToRecordsMap[CurrentQuery]
  OBVIOUS
<1>r. PICK rest : rest = SubSeq(list, Len(NextChunk) + 1, Len(list))
  OBVIOUS
<1>m. PICK m \in Nat : Takes(m, list, rest)
  BY <1>l, <1>r, ChunkFacts
<1>1. list \in Seq(ToSet(batch))
  BY <1>l, CurrentList
<1>2. \A p \in DOMAIN NextChunk : p \in DOMAIN list /\ NextChunk[p] = list[p]
  BY <1>m, <1>1 DEF Takes
<1>3. SUFFICES ASSUME r \notin table,
                      \A p \in DOMAIN NextChunk : NextChunk[p].op # "t"
               PROVE  \E i \in 1 .. Len(batch) :
                         /\ batch[i] \in ToSet(list)
                         /\ batch[i].op # "t"
                         /\ r \in StagedRows(CurrentQuery, batch[i])
  BY <1>l DEF ExecuteChunk
<1>4. \E p \in DOMAIN NextChunk : r \in StagedRows(CurrentQuery, NextChunk[p])
  BY <1>3 DEF ExecuteChunk, Merge
<1>5. PICK p \in DOMAIN NextChunk : r \in StagedRows(CurrentQuery, NextChunk[p])
  BY <1>4
<1>6. list[p] \in ToSet(list) /\ list[p] \in ToSet(batch) /\ list[p] = NextChunk[p]
  BY <1>1, <1>2 DEF ToSet
<1>7. ToSet(batch) = {batch[i] : i \in 1 .. Len(batch)}
  BY BatchFacts
<1>8. PICK i \in 1 .. Len(batch) : batch[i] = list[p]
  BY <1>6, <1>7
<1> QED
  BY <1>3, <1>5, <1>6, <1>8

--------------------------------------------------------------------------------
(* Types                                                                      *)

\* TypeOK is inductive with it: what a record stages depends on its images.
TypeInv == TypeOK /\ BatchInv

\* Nothing is captured at first.
LEMMA TypeInvInit == Init => TypeInv
<1> SUFFICES ASSUME Init PROVE TypeInv
  OBVIOUS
<1> USE ReplicaAssumption DEF Init
<1>1. batch = <<>> /\ Len(batch) = 0
  OBVIOUS
<1>2. BatchInv
  BY <1>1 DEF BatchInv
<1>3. queryToRecordsMap \in [Queries -> Seq(ToSet(batch))]
  BY DEF Nothing
<1>4. batch \in Seq(Record) /\ 0 \in 0 .. MaxRecords /\ 0 \in 0 .. MaxFailures
  OBVIOUS
<1> QED
  BY <1>2, <1>3, <1>4 DEF TypeInv, TypeOK

\* A change of the source becomes the last record of the batch.
LEMMA TypeSource ==
    ASSUME TypeInv, NEW record, SourceStep(record)
    PROVE  TypeInv'
<1> USE ReplicaAssumption DEF TypeInv
<1>1. PICK n \in Nat : n = Len(batch)
  BY AppendFacts
<1>2. /\ Len(batch') = n + 1
      /\ \A i \in 1 .. n : batch'[i] = batch[i]
      /\ batch'[n + 1] = record
      /\ batch' \in Seq(Record) /\ ToSet(batch) \subseteq ToSet(batch')
  BY <1>1, AppendFacts
<1>3. captured \in Nat /\ captured' = captured + 1 /\ captured' \in 0 .. MaxRecords /\ n <= captured
  BY <1>1 DEF TypeOK, SourceStep, BatchInv
<1>4. ASSUME NEW i \in 1 .. n + 1
      PROVE  WellFormed(batch'[i]) /\ batch'[i].version = captured' - (n + 1) + i
  <2>1. CASE i \in 1 .. n
    <3>1. batch'[i] = batch[i] /\ WellFormed(batch[i]) /\ batch[i].version = captured - n + i
      BY <1>1, <1>2, <2>1 DEF BatchInv
    <3> QED BY <1>3, <3>1
  <2>2. CASE i = n + 1
    BY <1>2, <1>3, <2>2 DEF SourceStep
  <2> QED BY <2>1, <2>2
<1>5. pc' = "capturing"
  BY DEF SourceStep
<1>6. \A i \in 1 .. Len(batch') : WellFormed(batch'[i]) /\ batch'[i].version = captured' - Len(batch') + i
  BY <1>2, <1>4
<1>7. BatchInv'
  BY <1>2, <1>3, <1>5, <1>6 DEF BatchInv
<1>8. queryToRecordsMap' \in [Queries -> Seq(ToSet(batch'))]
  <2>1. queryToRecordsMap \in [Queries -> Seq(ToSet(batch))] /\ queryToRecordsMap' = queryToRecordsMap
    BY DEF TypeOK, SourceStep
  <2>2. \A list \in Seq(ToSet(batch)) : list \in Seq(ToSet(batch'))
    BY <1>2
  <2> QED BY <2>1, <2>2
<1>9. source' \subseteq Row /\ held' \subseteq Row
  BY DEF TypeOK, SourceStep
<1>10. /\ UNCHANGED <<pc, order, table, failures, disturbed>>
  BY DEF SourceStep
<1>11. TypeOK'
  BY <1>2, <1>3, <1>8, <1>9, <1>10 DEF TypeOK
<1> QED
  BY <1>7, <1>11

\* A chunk leaves the types of the table and of the lists.
LEMMA TypeChunk ==
    ASSUME TypeInv, Pending # {}
    PROVE  ExecuteChunk(table, CurrentQuery, NextChunk) \subseteq TableRow
<1> SUFFICES ASSUME NEW r \in ExecuteChunk(table, CurrentQuery, NextChunk)
             PROVE  r \in TableRow
  OBVIOUS
<1>1. CASE r \in table
  BY <1>1 DEF TypeInv, TypeOK
<1>2. CASE \E i \in 1 .. Len(batch) :
              batch[i].op # "t" /\ r \in StagedRows(CurrentQuery, batch[i])
  BY <1>2, BatchFacts, StagedType DEF TypeInv
<1> QED
  BY <1>1, <1>2, ChunkAdds DEF TypeInv

\* Every step keeps TypeInv.
LEMMA TypeInvNext == TypeInv /\ [Next]_vars => TypeInv'
<1> SUFFICES ASSUME TypeInv, [Next]_vars PROVE TypeInv'
  OBVIOUS
<1> USE ReplicaAssumption
<1>1. CASE Insert \/ Update \/ Delete \/ Truncate
  BY <1>1, SourceSteps, TypeSource DEF TypeInv
<1>2. CASE Poll
  <2>1. /\ UNCHANGED <<source, captured, batch, order, queryToRecordsMap, table, failures, held>>
        /\ pc' = "grouping" /\ batch # <<>>
        /\ disturbed' = (disturbed \/ OrderMatters(batch))
    BY <1>2 DEF Poll
  <2>2. TypeOK'
    BY <2>1 DEF TypeInv, TypeOK
  <2>3. ~disturbed' => ~OrderMatters(batch')
    BY <2>1
  <2> QED BY <2>1, <2>2, <2>3 DEF TypeInv, BatchInv
<1>3. CASE groupQueryWithRecords
  <2>1. /\ UNCHANGED <<source, captured, batch, order, table, failures, held, disturbed>>
        /\ pc' = "writing" /\ pc = "grouping"
        /\ queryToRecordsMap' = Grouped(batch)
    BY <1>3 DEF groupQueryWithRecords
  <2>2. Grouped(batch) \in [Queries -> Seq(ToSet(batch))]
    BY GroupedFacts DEF TypeInv, Filled, InLists
  <2>3. TypeOK'
    BY <2>1, <2>2 DEF TypeInv, TypeOK
  <2> QED BY <2>1, <2>3 DEF TypeInv, BatchInv
<1>4. CASE WriteChunk
  <2>1. /\ UNCHANGED <<source, captured, batch, pc, order, failures, held, disturbed>>
        /\ table' \subseteq TableRow
    BY <1>4, TypeChunk DEF WriteChunk
  <2>2. queryToRecordsMap' \in [Queries -> Seq(ToSet(batch))]
    <3>l. PICK list : list = queryToRecordsMap[CurrentQuery]
      OBVIOUS
    <3>r. PICK rest : rest = SubSeq(list, Len(NextChunk) + 1, Len(list))
      OBVIOUS
    <3>1. \E m \in Nat : Takes(m, list, rest)
      BY <1>4, <3>l, <3>r, ChunkFacts DEF TypeInv, WriteChunk
    <3>2. rest \in Seq(ToSet(batch))
      BY <3>1 DEF Takes
    <3>3. queryToRecordsMap' = [queryToRecordsMap EXCEPT ![CurrentQuery] = rest]
      BY <1>4, <3>l, <3>r DEF WriteChunk
    <3> QED BY <3>2, <3>3 DEF TypeInv, TypeOK
  <2>3. TypeOK'
    BY <2>1, <2>2 DEF TypeInv, TypeOK
  <2> QED BY <2>1, <2>3 DEF TypeInv, BatchInv
<1>5. CASE FailChunk
  <2>1. /\ UNCHANGED <<source, captured, batch, order, held, disturbed>>
        /\ pc = "writing" /\ pc' = "grouping" /\ failures' = failures + 1 /\ failures < MaxFailures
        /\ queryToRecordsMap' = Nothing
    BY <1>5 DEF FailChunk
  <2>2. table' \subseteq TableRow
    BY <1>5, TypeChunk DEF FailChunk, TypeInv, TypeOK
  <2>3. queryToRecordsMap' \in [Queries -> Seq(ToSet(batch))]
    BY <2>1 DEF Nothing
  <2>4. failures' \in 0 .. MaxFailures
    BY <2>1 DEF TypeInv, TypeOK
  <2>5. TypeOK'
    BY <2>1, <2>2, <2>3, <2>4 DEF TypeInv, TypeOK
  <2> QED BY <2>1, <2>5 DEF TypeInv, BatchInv
<1>6. CASE FinishBatch
  <2>1. /\ UNCHANGED <<source, captured, order, queryToRecordsMap, table, failures, held, disturbed>>
        /\ batch' = <<>> /\ pc' = "capturing" /\ Pending = {}
    BY <1>6 DEF FinishBatch
  <2>2. \A q \in Queries : queryToRecordsMap[q] = <<>>
    BY <2>1, OrderIsFull DEF Pending, TypeInv, TypeOK
  <2>3. queryToRecordsMap \in [Queries -> Seq(ToSet(<<>>))]
    BY <2>2 DEF TypeInv, TypeOK
  <2>4. batch' \in Seq(Record) /\ Len(batch') = 0
    BY <2>1
  <2>5. TypeOK'
    BY <2>1, <2>3, <2>4 DEF TypeInv, TypeOK
  <2>6. captured' \in Nat
    BY <2>1 DEF TypeInv, TypeOK
  <2> QED BY <2>1, <2>4, <2>5, <2>6 DEF TypeInv, BatchInv
<1>7. CASE UNCHANGED vars
  <2>1. TypeOK'
    BY <1>7 DEF TypeInv, TypeOK, vars
  <2> QED BY <1>7, <2>1 DEF TypeInv, BatchInv, vars
<1> QED
  BY <1>1, <1>2, <1>3, <1>4, <1>5, <1>6, <1>7 DEF Next

\* Every variable has its type, and a list only ever holds records of the batch.
THEOREM TypeCorrect == Spec => []TypeOK
<1>1. Spec => []TypeInv
  BY TypeInvInit, TypeInvNext, PTL DEF Spec
<1> QED
  BY <1>1, PTL DEF TypeInv

--------------------------------------------------------------------------------
(* The source and the batch                                                   *)

\* The keys at which a record has a row before, and after.
Leaves(record, k) == record.before \in Row /\ record.before.key = k
Puts(record, k) == record.after \in Row /\ record.after.key = k
Touches(record, k) == Leaves(record, k) \/ Puts(record, k)

\* The last record of the batch at a key, and a key that the batch leaves alone.
LastAt(i, k) ==
    Touches(batch[i], k) /\ \A j \in i + 1 .. Len(batch) : ~Touches(batch[j], k)
Untouched(k) == \A i \in 1 .. Len(batch) : ~Touches(batch[i], k)

\* The table of the source has a primary key.
SourceKeys == \A r, s \in source : r.key = s.key => r = s

\* The last record at a key tells what the source has there.
SourceTells ==
    /\ Alone => source = {}
    /\ Plain => \A k \in Keys : \A i \in 1 .. Len(batch) : LastAt(i, k) =>
                   IF Puts(batch[i], k) THEN batch[i].after \in source
                                        ELSE \A r \in source : r.key # k

\* A record finds the row that the record before it has left.
Chained ==
    Plain => \A i \in 1 .. Len(batch) : \A j \in 1 .. Len(batch) :
        j = i + 1 /\ batch[j].before \in Row /\ Touches(batch[i], batch[j].before.key)
           => batch[i].after = batch[j].before

SourceInv == SourceKeys /\ SourceTells /\ Chained

LEMMA SourceInit == Init => SourceInv
BY DEF Init, SourceInv, SourceKeys, SourceTells, Chained, Plain, Alone

\* A change of the source keeps its key.
LEMMA SourceKeysKept ==
    ASSUME TypeInv, SourceKeys, NEW record, SourceStep(record)
    PROVE  SourceKeys'
<1> SUFFICES ASSUME NEW r \in source', NEW s \in source', r.key = s.key PROVE r = s
  BY DEF SourceKeys
<1>1. record.op # "t"
  BY DEF SourceStep
<1>2. /\ r \in source \ {record.before} \/ (r = record.after /\ record.after \in Row)
      /\ s \in source \ {record.before} \/ (s = record.after /\ record.after \in Row)
  BY <1>1 DEF SourceStep
<1>3. record.after \in Row => \A x \in source \ {record.before} : x.key # record.after.key
  BY DEF SourceStep
<1>4. CASE r \in source \ {record.before} /\ s \in source \ {record.before}
  BY <1>4 DEF SourceKeys
<1> QED
  BY <1>2, <1>3, <1>4

\* A change of the source is the last record at the keys that it touches, and
\* leaves the others alone.
LEMMA SourceStepKept ==
    ASSUME TypeInv, SourceInv, NEW record, SourceStep(record)
    PROVE  SourceInv'
<1> USE NoRowAssumption DEF SourceInv
<1>1. PICK n \in Nat : n = Len(batch)
  BY AppendFacts DEF TypeInv
<1>2. /\ Len(batch') = n + 1
      /\ \A i \in 1 .. n : batch'[i] = batch[i]
      /\ batch'[n + 1] = record
  BY <1>1, AppendFacts DEF TypeInv
<1>3. SourceKeys'
  BY SourceKeysKept
<1>4. /\ record.op # "t" => source' = (source \ {record.before}) \cup ({record.after} \cap Row)
      /\ record.op = "t" => source' = {}
      /\ record.before \in Row => record.before \in source
      /\ source \subseteq Row
  BY DEF SourceStep, TypeInv, TypeOK
<1>5. ASSUME Plain' PROVE Plain /\ record.op # "t"
  <2>1. n + 1 \in 1 .. n + 1 /\ \A i \in 1 .. n : i \in 1 .. n + 1
    OBVIOUS
  <2>2. \A i \in 1 .. n + 1 : batch'[i].op # "t"
    BY <1>2, <1>5 DEF Plain
  <2> QED BY <1>1, <1>2, <2>1, <2>2 DEF Plain
<1>6. ASSUME NEW k \in Keys, ~Touches(record, k), record.op # "t", NEW r \in Row, r.key = k
      PROVE  r \in source' <=> r \in source
  <2>1. r # record.before /\ r # record.after
    BY <1>6 DEF Touches, Leaves, Puts
  <2> QED BY <1>4, <1>6, <2>1
<1>7. ASSUME Plain', NEW k \in Keys, NEW i \in 1 .. n + 1, LastAt(i, k)'
      PROVE  IF Puts(batch'[i], k) THEN batch'[i].after \in source'
                                   ELSE \A r \in source' : r.key # k
  <2>1. CASE i = n + 1
    <3>1. batch'[i] = record /\ Touches(record, k)
      BY <1>2, <1>7, <2>1 DEF LastAt
    <3>2. CASE Puts(record, k)
      BY <1>4, <1>5, <1>7, <3>1, <3>2 DEF Puts
    <3>3. CASE ~Puts(record, k)
      <4>1. record.before \in source /\ record.before.key = k
        BY <1>4, <3>1, <3>3 DEF Touches, Leaves
      <4>2. ASSUME NEW r \in source', r.key = k PROVE FALSE
        <5>1. r \in source \ {record.before}
          BY <1>4, <1>5, <1>7, <3>3, <4>2 DEF Puts
        <5> QED BY <4>1, <4>2, <5>1 DEF SourceKeys
      <4> QED BY <3>1, <3>3, <4>2
    <3> QED BY <3>2, <3>3
  <2>2. CASE i \in 1 .. n
    <3>1. n + 1 \in i + 1 .. n + 1 /\ \A j \in i + 1 .. n : j \in i + 1 .. n + 1 /\ j \in 1 .. n
      BY <2>2
    <3>2. /\ Touches(batch'[i], k)
          /\ \A j \in i + 1 .. n + 1 : ~Touches(batch'[j], k)
      BY <1>2, <1>7 DEF LastAt
    <3>3. ~Touches(record, k) /\ LastAt(i, k)
      BY <1>1, <1>2, <2>2, <3>1, <3>2 DEF LastAt
    <3>4. IF Puts(batch[i], k) THEN batch[i].after \in source ELSE \A r \in source : r.key # k
      BY <1>1, <1>5, <1>7, <2>2, <3>3 DEF SourceTells
    <3>5. CASE Puts(batch[i], k)
      <4>1. batch[i].after \in Row /\ batch[i].after.key = k /\ batch[i].after \in source
        BY <3>4, <3>5 DEF Puts
      <4>2. batch[i].after \in source'
        BY <1>5, <1>6, <1>7, <3>3, <4>1
      <4> QED BY <1>2, <2>2, <3>5, <4>2
    <3>6. CASE ~Puts(batch[i], k)
      <4>1. ASSUME NEW r \in source', r.key = k PROVE FALSE
        <5>1. r \in Row
          BY <1>4, <1>5, <1>7
        <5> QED BY <1>5, <1>6, <1>7, <3>3, <3>4, <3>6, <4>1, <5>1
      <4> QED BY <1>2, <2>2, <3>6, <4>1
    <3> QED BY <3>5, <3>6
  <2> QED BY <2>1, <2>2
<1>8. ASSUME Alone' PROVE source' = {}
  <2>1. Len(batch') = 1 /\ batch'[1].op = "t"
    BY <1>8 DEF Alone
  <2>2. n + 1 = 1
    BY <1>2, <2>1
  <2>3. n = 0 /\ n + 1 = 1
    BY <2>2
  <2>4. batch'[n + 1] = record
    BY <1>2
  <2>5. batch'[1] = record
    BY <2>3, <2>4
  <2> QED BY <1>4, <2>1, <2>5
<1>9. SourceTells'
  BY <1>2, <1>7, <1>8 DEF SourceTells
<1>10. ASSUME Plain', NEW i \in 1 .. n + 1, NEW j \in 1 .. n + 1, j = i + 1,
              batch'[j].before \in Row, Touches(batch'[i], batch'[j].before.key)
       PROVE  batch'[i].after = batch'[j].before
  <2>1. i \in 1 .. n /\ batch'[i] = batch[i]
    BY <1>2, <1>10
  <2>2. CASE j \in 1 .. n
    BY <1>1, <1>2, <1>5, <1>10, <2>1, <2>2 DEF Chained
  <2>3. CASE j = n + 1
    <3> DEFINE k == record.before.key
    <3>1. /\ i = n /\ batch'[j] = record /\ record.before \in source /\ record.before \in Row
          /\ Touches(batch[n], k) /\ k \in Keys
      BY <1>2, <1>4, <1>10, <2>1, <2>3 DEF Row
    <3>2. LastAt(n, k)
      BY <1>1, <3>1 DEF LastAt
    <3>3. IF Puts(batch[n], k) THEN batch[n].after \in source ELSE \A r \in source : r.key # k
      BY <1>1, <1>5, <1>10, <2>1, <3>1, <3>2 DEF SourceTells
    <3>4. Puts(batch[n], k) /\ batch[n].after \in source
      BY <3>1, <3>3
    <3>5. batch[n].after = record.before
      BY <3>1, <3>4 DEF SourceKeys, Puts
    <3> QED BY <2>1, <3>1, <3>5
  <2> QED BY <2>2, <2>3
<1>11. Chained'
  BY <1>2, <1>10 DEF Chained
<1> QED
  BY <1>3, <1>9, <1>11

\* The other steps leave the source and the batch alone, or end the batch.
LEMMA SourceNext ==
    ASSUME TypeInv, SourceInv, [Next]_vars
    PROVE  SourceInv'
<1>1. CASE Insert \/ Update \/ Delete \/ Truncate
  BY <1>1, SourceSteps, SourceStepKept DEF TypeInv
<1>2. CASE UNCHANGED <<source, batch>>
  BY <1>2 DEF SourceInv, SourceKeys, SourceTells, Chained, Plain, Alone, LastAt
<1>3. CASE FinishBatch
  <2>1. source' = source /\ batch' = <<>> /\ Len(batch') = 0
    BY <1>3 DEF FinishBatch
  <2> QED BY <2>1 DEF SourceInv, SourceKeys, SourceTells, Chained, Alone
<1>4. [Next]_vars => \/ Insert \/ Update \/ Delete \/ Truncate \/ FinishBatch
                     \/ UNCHANGED <<source, batch>>
  BY DEF Next, vars, Poll, groupQueryWithRecords, WriteChunk, FailChunk
<1> QED
  BY <1>1, <1>2, <1>3, <1>4

--------------------------------------------------------------------------------
(* The rows of a chunk                                                        *)

\* The cases of OrderMatters.
Fills(record) == record.op = "u" /\ record.before.val = Null /\ record.after.val # Null
Empties(record) == record.op = "u" /\ record.before.val # Null /\ record.after.val = Null
Moves(record) == record.op = "u" /\ record.before.key # record.after.key

\* What a batch is that the order of the lists cannot upset.
LEMMA CalmFacts ==
    ASSUME TypeOK, BatchInv, ~OrderMatters(batch)
    PROVE  /\ Plain \/ Alone
           /\ \A i \in 1 .. Len(batch) : ~Fills(batch[i])
           /\ \A i \in 1 .. Len(batch) : \A j \in 1 .. Len(batch) :
                 j = i + 1 /\ Empties(batch[i]) /\ Moves(batch[j])
                    => batch[j].before # batch[i].after
<1>1. PICK n \in Nat : n = Len(batch)
  BY BatchFacts
<1>2. /\ ~(n > 1 /\ \E i \in 1 .. n : batch[i].op = "t")
      /\ \A i \in 1 .. n : ~Fills(batch[i])
      /\ \A i \in 1 .. n - 1 : Empties(batch[i]) /\ Moves(batch[i + 1])
                                  => batch[i + 1].before # batch[i].after
  BY <1>1 DEF OrderMatters, Fills, Empties, Moves
<1>3. Plain \/ Alone
  <2>1. CASE n > 1
    BY <1>1, <1>2, <2>1 DEF Plain
  <2>2. CASE n <= 1
    <3>1. n = 0 \/ n = 1
      BY <2>2
    <3>2. \A i \in 1 .. n : i = 1 /\ n = 1
      BY <3>1
    <3> QED BY <1>1, <3>2 DEF Plain, Alone
  <2> QED BY <2>1, <2>2
<1>4. ASSUME NEW i \in 1 .. n, NEW j \in 1 .. n, j = i + 1, Empties(batch[i]), Moves(batch[j])
      PROVE  batch[j].before # batch[i].after
  <2>1. i \in 1 .. n - 1
    BY <1>4
  <2> QED BY <1>2, <1>4, <2>1
<1> QED
  BY <1>1, <1>2, <1>3, <1>4

\* The row that shows an image, and what a record may stage.
Live(record) ==
    [key |-> record.after.key, val |-> record.after.val, version |-> record.version,
     deleted |-> FALSE]

Tombstone(record, s) ==
    /\ s.deleted
    /\ \/ record.op = "d" /\ s.version = record.version
       \/ record.op = "u" /\ Moves(record) /\ s.version = record.version - 1
    /\ s.key = record.before.key

Stages(record, s) == (record.after \in Row /\ s = Live(record)) \/ Tombstone(record, s)

LEMMA LiveRow ==
    ASSUME NEW query, NEW record, NEW image, image = record.after,
           "val" \in query \/ image.val = Null
    PROVE  InsertedRow(query, image, record.version, FALSE) = Live(record)
BY DEF InsertedRow, Live

\* In either of its lists a record stages the same rows: the image after it, and a
\* tombstone for the image before it when nothing takes its place.
LEMMA StagedFacts ==
    ASSUME NEW record \in Record, WellFormed(record), record.op # "t", ~Fills(record),
           NEW query \in Lists(record)
    PROVE  /\ \A s \in StagedRows(query, record) : Stages(record, s)
           /\ record.after \in Row => Live(record) \in StagedRows(query, record)
           /\ record.op = "d" \/ Moves(record)
                 => \E s \in StagedRows(query, record) : Tombstone(record, s)
           /\ \A s, t \in StagedRows(query, record) : s.key = t.key => s = t
<1> USE NoRowAssumption
<1>1. record.op \in {"c", "d", "u"}
  BY DEF WellFormed
<1>2. CASE record.op = "c"
  <2>1. record.after \in Row /\ record.before = NoRow /\ query = ModifiedFields(record.after)
    BY <1>2 DEF WellFormed, Lists
  <2>2. "val" \in query \/ record.after.val = Null
    BY <2>1 DEF ModifiedFields
  <2>3. StagedRows(query, record) = {Live(record)}
    BY <1>2, <2>2, LiveRow DEF StagedRows
  <2> QED BY <1>2, <2>1, <2>3 DEF Stages, Moves
<1>3. CASE record.op = "d"
  <2>1. record.before \in Row /\ record.after = NoRow
    BY <1>3 DEF WellFormed
  <2> DEFINE s == InsertedRow(query, record.before, record.version, TRUE)
  <2>2. StagedRows(query, record) = {s}
    BY <1>3 DEF StagedRows
  <2>3. s.deleted /\ s.key = record.before.key /\ s.version = record.version
    BY DEF InsertedRow
  <2> HIDE DEF s
  <2>4. Tombstone(record, s)
    BY <1>3, <2>3 DEF Tombstone
  <2> QED BY <2>1, <2>2, <2>4 DEF Stages
<1>4. CASE record.op = "u"
  <2>1. record.before \in Row /\ record.after \in Row
    BY <1>4 DEF WellFormed
  <2>2. query = ModifiedFields(record.before) \/ query = ModifiedFields(record.after)
    BY <1>4 DEF Lists
  <2>3. "val" \in query \/ record.after.val = Null
    BY <1>4, <2>2 DEF ModifiedFields, Fills
  <2>4. InsertedRow(query, record.after, record.version, FALSE) = Live(record)
    BY <2>3, LiveRow
  <2> DEFINE s == InsertedRow(query, record.before, record.version - 1, TRUE)
  <2>5. s.deleted /\ s.key = record.before.key /\ s.version = record.version - 1
    BY DEF InsertedRow
  <2>6. StagedRows(query, record) = {Live(record)} \cup (IF Moves(record) THEN {s} ELSE {})
    BY <1>4, <2>4 DEF StagedRows, Moves, updateRelocatesSortingKey
  <2> HIDE DEF s
  <2>7. CASE Moves(record)
    <3>1. Tombstone(record, s)
      BY <1>4, <2>5, <2>7 DEF Tombstone
    <3>2. s.key # Live(record).key
      BY <2>5, <2>7 DEF Moves, Live
    <3>3. StagedRows(query, record) = {Live(record), s}
      BY <2>6, <2>7
    <3> QED BY <2>1, <3>1, <3>2, <3>3 DEF Stages
  <2>8. CASE ~Moves(record)
    <3>1. StagedRows(query, record) = {Live(record)}
      BY <2>6, <2>8
    <3> QED BY <1>4, <2>1, <2>8, <3>1 DEF Stages
  <2> QED BY <2>7, <2>8
<1> QED
  BY <1>1, <1>2, <1>3, <1>4

\* One row at a key.
Unique(rows) == \A r, s \in rows : r.key = s.key => r = s

\* ReplacingMergeTree keeps one.
LEMMA MergeUnique ==
    ASSUME NEW rows \in SUBSET TableRow, NEW m \in Nat, NEW block, DOMAIN block = 1 .. m,
           \A p \in 1 .. m : block[p] \subseteq TableRow /\ Unique(block[p]), Unique(rows)
    PROVE  Unique(Merge(rows, block))
<1> DEFINE Outlives(r, n) ==
              \A i \in 1 .. m : \A s \in block[i] : s.key = r.key =>
                  s.version < r.version \/ (s.version = r.version /\ i <= n)
<1>1. ASSUME NEW r \in Merge(rows, block)
      PROVE  \/ r \in rows /\ Outlives(r, 0)
             \/ \E n \in 1 .. m : /\ r \in block[n] /\ Outlives(r, n)
                                  /\ \A s \in rows : s.key = r.key => s.version <= r.version
  BY <1>1 DEF Merge
<1>2. \A r \in TableRow : r.version \in Int
  BY DEF TableRow
<1>3. ASSUME NEW r \in rows, Outlives(r, 0), NEW n \in 1 .. m, NEW s \in block[n], s.key = r.key,
             r.version <= s.version
      PROVE  FALSE
  <2>1. s.version < r.version \/ (s.version = r.version /\ n <= 0)
    BY <1>3
  <2>2. r.version \in Int /\ s.version \in Int
    BY <1>2
  <2> QED BY <1>3, <2>1, <2>2
<1>4. ASSUME NEW n \in 1 .. m, NEW r \in block[n], Outlives(r, n),
             NEW i \in 1 .. m, NEW s \in block[i], Outlives(s, i), r.key = s.key
      PROVE  r = s
  <2>1. /\ s.version < r.version \/ (s.version = r.version /\ i <= n)
        /\ r.version < s.version \/ (r.version = s.version /\ n <= i)
    BY <1>4
  <2>2. r.version \in Int /\ s.version \in Int
    BY <1>2
  <2>3. i = n
    BY <2>1, <2>2
  <2> QED BY <1>4, <2>3 DEF Unique
<1> SUFFICES ASSUME NEW r \in Merge(rows, block), NEW s \in Merge(rows, block), r.key = s.key
             PROVE  r = s
  BY DEF Unique
<1>5. /\ \/ r \in rows /\ Outlives(r, 0)
         \/ \E n \in 1 .. m : /\ r \in block[n] /\ Outlives(r, n)
                              /\ \A x \in rows : x.key = r.key => x.version <= r.version
      /\ \/ s \in rows /\ Outlives(s, 0)
         \/ \E n \in 1 .. m : /\ s \in block[n] /\ Outlives(s, n)
                              /\ \A x \in rows : x.key = s.key => x.version <= s.version
  BY <1>1
<1> HIDE DEF Outlives
<1>6. CASE r \in rows /\ s \in rows
  BY <1>6 DEF Unique
<1>9. CASE \E n \in 1 .. m : \E i \in 1 .. m : r \in block[n] /\ Outlives(r, n) /\ s \in block[i] /\ Outlives(s, i)
  BY <1>4, <1>9
<1>10. CASE r \in rows /\ Outlives(r, 0) /\ \E n \in 1 .. m : /\ s \in block[n]
                              /\ \A x \in rows : x.key = s.key => x.version <= s.version
  BY <1>3, <1>10
<1>11. CASE s \in rows /\ Outlives(s, 0) /\ \E n \in 1 .. m : /\ r \in block[n]
                              /\ \A x \in rows : x.key = r.key => x.version <= r.version
  BY <1>3, <1>11
<1> QED
  BY <1>5, <1>6, <1>9, <1>10, <1>11

--------------------------------------------------------------------------------
(* The lists while a batch is written                                         *)

\* A list that still holds a record holds every later one that belongs to it.
Closed(map) ==
    Plain => \A q \in Queries : \A i \in 1 .. Len(batch) : \A j \in 1 .. Len(batch) :
                i <= j /\ batch[i] \in ToSet(map[q]) /\ q \in Lists(batch[j])
                   => batch[j] \in ToSet(map[q])

ListInv ==
    pc = "writing" => InLists(queryToRecordsMap, Len(batch)) /\ Closed(queryToRecordsMap)

LEMMA ListInit == Init => ListInv
BY DEF Init, ListInv

\* Executing a chunk leaves the end of its list.
LEMMA ListChunk ==
    ASSUME TypeInv, ListInv, WriteChunk
    PROVE  ListInv'
<1> DEFINE map == queryToRecordsMap
           query == CurrentQuery
           n == Len(batch)
           new == map'
<1>1. UNCHANGED <<batch, pc>> /\ pc = "writing" /\ Pending # {}
  BY DEF WriteChunk
<1>2. InLists(map, n) /\ Closed(map) /\ map \in [Queries -> Seq(ToSet(batch))]
  BY <1>1 DEF ListInv, InLists
<1>3. query \in Queries /\ map[query] \in Seq(ToSet(batch))
  BY <1>1, CurrentList DEF TypeInv
<1>4. PICK len \in Nat : len = Len(map[query])
  BY <1>3
<1>r. PICK rest : rest = SubSeq(map[query], Len(NextChunk) + 1, Len(map[query]))
  OBVIOUS
<1>5. PICK m \in Nat : Takes(m, map[query], rest)
  BY <1>1, <1>r, ChunkFacts DEF TypeInv
<1>m. m \in 1 .. len /\ rest \in Seq(ToSet(batch)) /\ Len(rest) = len - m
  BY <1>4, <1>5 DEF Takes
<1>d. DOMAIN rest = 1 .. Len(rest)
  BY <1>m
<1>6. /\ rest \in Seq(ToSet(batch)) /\ Len(rest) = len - m /\ DOMAIN rest = 1 .. len - m
      /\ \A p \in 1 .. len - m : rest[p] = map[query][p + m]
  BY <1>4, <1>5, <1>m, <1>d DEF Takes
<1>7. new = [map EXCEPT ![query] = rest]
  BY <1>r DEF WriteChunk
<1>8. new \in [Queries -> Seq(ToSet(batch))]
  <2> HIDE DEF map, query, new
  <2> QED BY <1>2, <1>3, <1>6, <1>7
<1>9. new[query] = rest /\ \A q \in Queries : q # query => new[q] = map[q]
  <2> HIDE DEF map, query, new
  <2> QED BY <1>2, <1>3, <1>7
<1> HIDE DEF map, query, new
<1>10. \A p \in 1 .. len - m : p + m \in 1 .. len
  BY <1>m
<1>11. ASSUME NEW q \in Queries, NEW p \in 1 .. Len(new[q])
       PROVE  \E j \in 1 .. n : new[q][p] = batch[j] /\ q \in Lists(batch[j])
  <2>1. CASE q = query
    <3>1. p \in 1 .. len - m /\ new[q][p] = map[query][p + m] /\ p + m \in 1 .. len
      BY <1>6, <1>9, <1>10, <1>11, <2>1
    <3>2. \E j \in 1 .. n : map[query][p + m] = batch[j] /\ query \in Lists(batch[j])
      BY <1>2, <1>3, <1>4, <3>1 DEF InLists
    <3> QED BY <2>1, <3>1, <3>2
  <2>2. CASE q # query
    <3>1. new[q] = map[q] /\ p \in 1 .. Len(map[q])
      BY <1>9, <1>11, <2>2
    <3> QED BY <1>2, <3>1 DEF InLists
  <2> QED BY <2>1, <2>2
<1>12. ASSUME NEW q \in Queries, NEW p \in 1 .. Len(new[q]), NEW o \in p .. Len(new[q])
       PROVE  new[q][p].version <= new[q][o].version
  <2>1. CASE q = query
    <3>1. p \in 1 .. len - m /\ o \in 1 .. len - m /\ p <= o
      BY <1>4, <1>6, <1>9, <1>12, <2>1
    <3>2. p + m \in 1 .. len /\ o + m \in p + m .. len
      BY <1>m, <3>1
    <3>3. map[query][p + m].version <= map[query][o + m].version
      BY <1>2, <1>3, <1>4, <3>2 DEF InLists
    <3> QED BY <1>6, <1>9, <2>1, <3>1, <3>3
  <2>2. CASE q # query
    <3>1. new[q] = map[q] /\ p \in 1 .. Len(map[q]) /\ o \in p .. Len(map[q])
      BY <1>9, <1>12, <2>2
    <3> QED BY <1>2, <3>1 DEF InLists
  <2> QED BY <2>1, <2>2
<1>13. ASSUME Plain, NEW q \in Queries, NEW i \in 1 .. n, NEW j \in 1 .. n,
              i <= j, batch[i] \in ToSet(new[q]), q \in Lists(batch[j])
       PROVE  batch[j] \in ToSet(new[q])
  <2>1. CASE q # query
    BY <1>2, <1>9, <1>13, <2>1 DEF Closed
  <2>2. CASE q = query
    <3>1. PICK p \in 1 .. len - m : batch[i] = rest[p]
      BY <1>6, <1>9, <1>13, <2>2 DEF ToSet
    <3>2. batch[i] = map[query][p + m] /\ p + m \in 1 .. len
      BY <1>6, <1>10, <3>1
    <3>3. DOMAIN map[query] = 1 .. len
      BY <1>3, <1>4
    <3>4. batch[i] \in ToSet(map[query])
      BY <3>2, <3>3 DEF ToSet
    <3>5. batch[j] \in ToSet(map[query])
      BY <1>2, <1>13, <2>2, <3>4 DEF Closed
    <3>6. PICK o \in 1 .. len : batch[j] = map[query][o]
      BY <3>3, <3>5 DEF ToSet
    <3>7. CASE o <= p + m
      <4>1. p + m \in o .. len
        BY <3>2, <3>7
      <4>2. batch[j].version <= batch[i].version
        BY <1>2, <1>3, <1>4, <3>2, <3>6, <4>1 DEF InLists
      <4>3. j <= i
        BY <4>2, BatchFacts DEF TypeInv
      <4>4. i = j
        BY <1>13, <4>3
      <4> QED BY <1>13, <4>4
    <3>8. CASE ~(o <= p + m)
      <4>1. o - m \in 1 .. len - m /\ (o - m) + m = o
        BY <3>8
      <4>2. rest[o - m] = batch[j]
        BY <1>6, <3>6, <4>1
      <4> QED BY <1>6, <1>9, <2>2, <4>1, <4>2 DEF ToSet
    <3> QED BY <3>7, <3>8
  <2> QED BY <2>1, <2>2
<1>14. InLists(new, n)
  BY <1>8, <1>11, <1>12 DEF InLists
<1>15. Closed(new)
  BY <1>13 DEF Closed
<1>16. new = queryToRecordsMap' /\ batch' = batch /\ n = Len(batch)
  BY <1>1 DEF map, new
<1> HIDE DEF new, n
<1>17. InLists(queryToRecordsMap, Len(batch))'
  BY <1>14, <1>16 DEF InLists
<1>18. Closed(queryToRecordsMap)'
  BY <1>15, <1>16 DEF Closed, Plain
<1> QED
  BY <1>17, <1>18 DEF ListInv

\* Grouping fills the lists, and the other steps begin or end a writing.
LEMMA ListNext ==
    ASSUME TypeInv, ListInv, [Next]_vars
    PROVE  ListInv'
<1>1. CASE pc' # "writing"
  BY <1>1 DEF ListInv
<1>2. CASE groupQueryWithRecords
  <2>1. batch' = batch /\ queryToRecordsMap' = Grouped(batch)
    BY <1>2 DEF groupQueryWithRecords
  <2>2. PICK new : new = Grouped(batch)
    OBVIOUS
  <2>3. Filled(new, Len(batch))
    BY <2>2, GroupedFacts DEF TypeInv
  <2>4. queryToRecordsMap' = new
    BY <2>1, <2>2
  <2>5. InLists(new, Len(batch))
    BY <2>3 DEF Filled
  <2>6. Closed(new)
    BY <2>3 DEF Filled, Closed
  <2>7. InLists(queryToRecordsMap, Len(batch))'
    BY <2>1, <2>4, <2>5 DEF InLists
  <2>8. Closed(queryToRecordsMap)'
    BY <2>1, <2>4, <2>6 DEF Closed, Plain
  <2> QED BY <2>7, <2>8 DEF ListInv
<1>3. CASE WriteChunk
  BY <1>3, ListChunk
<1>4. CASE UNCHANGED vars
  <2>1. UNCHANGED <<pc, batch, queryToRecordsMap>>
    BY <1>4 DEF vars
  <2> QED BY <2>1 DEF ListInv, InLists, Closed, Plain
<1>5. CASE Insert \/ Update \/ Delete \/ Truncate
  <2>1. pc' = pc /\ pc = "capturing"
    BY <1>5, SourceSteps DEF TypeInv, SourceStep
  <2> QED BY <1>1, <2>1
<1>6. [Next]_vars => \/ Insert \/ Update \/ Delete \/ Truncate \/ pc' # "writing"
                     \/ groupQueryWithRecords \/ WriteChunk \/ UNCHANGED vars
  BY DEF Next, Poll, FailChunk, FinishBatch
<1> QED
  BY <1>1, <1>2, <1>3, <1>4, <1>5, <1>6

\* The records of a chunk, when the order of the lists does not matter.
LEMMA ChunkRecords ==
    ASSUME TypeInv, ListInv, pc = "writing", ~disturbed, Pending # {},
           NEW i \in 1 .. Len(batch), batch[i] \in ToSet(queryToRecordsMap[CurrentQuery])
    PROVE  CurrentQuery \in Lists(batch[i]) /\ ~Fills(batch[i])
<1>1. CurrentQuery \in Queries /\ queryToRecordsMap[CurrentQuery] \in Seq(ToSet(batch))
  BY CurrentList DEF TypeInv
<1>2. PICK p \in 1 .. Len(queryToRecordsMap[CurrentQuery]) :
         queryToRecordsMap[CurrentQuery][p] = batch[i]
  BY <1>1 DEF ToSet
<1>3. \E j \in 1 .. Len(batch) :
         queryToRecordsMap[CurrentQuery][p] = batch[j] /\ CurrentQuery \in Lists(batch[j])
  BY <1>1 DEF ListInv, InLists
<1>4. ~OrderMatters(batch)
  BY DEF TypeInv, BatchInv
<1> QED
  BY <1>2, <1>3, <1>4, CalmFacts DEF TypeInv

--------------------------------------------------------------------------------
(* The rows of the table                                                      *)

\* Where rows come from: from earlier batches, or from a record of this one.
FromEarlier(r) == r.version <= captured - Len(batch)
FromBatch(r) == pc # "capturing" /\ \E i \in 1 .. Len(batch) : Stages(batch[i], r)

TableInv ==
    ~disturbed => /\ Unique(table)
                  /\ \A r \in table : FromEarlier(r) \/ FromBatch(r)

\* Rows that the source has had.
HeldInv ==
    /\ source \subseteq held
    /\ \A i \in 1 .. Len(batch) : batch[i].after \in Row => batch[i].after \in held
    /\ ~disturbed => View \subseteq held

LEMMA TableInit == Init => TableInv /\ HeldInv
<1> SUFFICES ASSUME Init PROVE TableInv /\ HeldInv
  OBVIOUS
<1>1. table = {} /\ batch = <<>> /\ source = {} /\ Len(<<>>) = 0
  BY DEF Init
<1> QED
  BY <1>1 DEF TableInv, HeldInv, Unique, View

\* The version of what a record stages.
LEMMA StagesVersion ==
    ASSUME NEW record \in Record, NEW s, Stages(record, s)
    PROVE  s.version = record.version \/ s.version = record.version - 1
BY DEF Stages, Live, Tombstone

\* A step that writes a chunk, or part of one.
ChunkStep ==
    /\ pc = "writing" /\ Pending # {}
    /\ table' = table \/ table' = ExecuteChunk(table, CurrentQuery, NextChunk)
    /\ pc' \in {"writing", "grouping"}
    /\ UNCHANGED <<source, captured, batch, order, held, disturbed>>

LEMMA ChunkSteps == WriteChunk \/ FailChunk => ChunkStep
BY DEF WriteChunk, FailChunk, ChunkStep

\* After a chunk a row is one of before or one that a record of the batch stages.
LEMMA ChunkStages ==
    ASSUME TypeInv, ListInv, ~disturbed, ChunkStep, NEW r \in table'
    PROVE  r \in table \/ \E i \in 1 .. Len(batch) : Stages(batch[i], r)
<1> SUFFICES ASSUME r \in ExecuteChunk(table, CurrentQuery, NextChunk), r \notin table
             PROVE  \E i \in 1 .. Len(batch) : Stages(batch[i], r)
  BY DEF ChunkStep
<1>1. PICK i \in 1 .. Len(batch) :
         /\ batch[i] \in ToSet(queryToRecordsMap[CurrentQuery])
         /\ batch[i].op # "t"
         /\ r \in StagedRows(CurrentQuery, batch[i])
  BY ChunkAdds DEF TypeInv, ChunkStep
<1>2. CurrentQuery \in Lists(batch[i]) /\ ~Fills(batch[i])
  BY <1>1, ChunkRecords DEF ChunkStep
<1>3. batch[i] \in Record /\ WellFormed(batch[i])
  BY BatchFacts DEF TypeInv
<1>4. Stages(batch[i], r)
  BY <1>1, <1>2, <1>3, StagedFacts
<1> QED
  BY <1>4

\* The blocks that chunks become.
LEMMA ChunkBlock ==
    ASSUME TypeInv, ListInv, ~disturbed, pc = "writing", Pending # {},
           \A p \in DOMAIN NextChunk : NextChunk[p].op # "t"
    PROVE  \E m \in Nat :
              /\ DOMAIN NextChunk = 1 .. m
              /\ \A p \in 1 .. m : /\ StagedRows(CurrentQuery, NextChunk[p]) \subseteq TableRow
                                   /\ Unique(StagedRows(CurrentQuery, NextChunk[p]))
<1>l. PICK list : list = queryToRecordsMap[CurrentQuery]
  OBVIOUS
<1>r. PICK rest : rest = SubSeq(list, Len(NextChunk) + 1, Len(list))
  OBVIOUS
<1>m. PICK m \in Nat : Takes(m, list, rest)
  BY <1>l, <1>r, ChunkFacts DEF TypeInv
<1>1. list \in Seq(ToSet(batch))
  BY <1>l, CurrentList DEF TypeInv
<1>2. /\ DOMAIN NextChunk = 1 .. m
      /\ \A p \in 1 .. m : p \in DOMAIN list /\ NextChunk[p] = list[p]
  BY <1>m, <1>1 DEF Takes
<1>3. ToSet(batch) = {batch[j] : j \in 1 .. Len(batch)}
  BY BatchFacts DEF TypeInv
<1>4. ASSUME NEW p \in 1 .. m
      PROVE  /\ StagedRows(CurrentQuery, NextChunk[p]) \subseteq TableRow
             /\ Unique(StagedRows(CurrentQuery, NextChunk[p]))
  <2>1. NextChunk[p] \in ToSet(list) /\ NextChunk[p] \in ToSet(batch)
    BY <1>1, <1>2 DEF ToSet
  <2>2. PICK i \in 1 .. Len(batch) : batch[i] = NextChunk[p]
    BY <1>3, <2>1
  <2>3. CurrentQuery \in Lists(batch[i]) /\ ~Fills(batch[i])
    BY <1>l, <2>1, <2>2, ChunkRecords
  <2>4. batch[i] \in Record /\ WellFormed(batch[i]) /\ batch[i].op # "t"
    BY <1>2, <2>2, BatchFacts DEF TypeInv
  <2>5. StagedRows(CurrentQuery, batch[i]) \subseteq TableRow
    BY <2>4, StagedType
  <2>6. Unique(StagedRows(CurrentQuery, batch[i]))
    BY <2>3, <2>4, StagedFacts DEF Unique
  <2> QED BY <2>2, <2>5, <2>6
<1> QED
  BY <1>2, <1>4

\* A chunk leaves one row at a key.
LEMMA ChunkUnique ==
    ASSUME TypeInv, ListInv, TableInv, ~disturbed, ChunkStep
    PROVE  Unique(table')
<1>1. Unique(table) /\ table \subseteq TableRow
  BY DEF TableInv, TypeInv, TypeOK
<1>2. CASE \E p \in DOMAIN NextChunk : NextChunk[p].op = "t"
  <2>1. ExecuteChunk(table, CurrentQuery, NextChunk) = {}
    BY <1>2 DEF ExecuteChunk
  <2> QED BY <1>1, <2>1 DEF ChunkStep, Unique
<1>3. CASE \A p \in DOMAIN NextChunk : NextChunk[p].op # "t"
  <2> DEFINE block == [i \in DOMAIN NextChunk |-> StagedRows(CurrentQuery, NextChunk[i])]
  <2>1. ExecuteChunk(table, CurrentQuery, NextChunk) = Merge(table, block)
    BY <1>3 DEF ExecuteChunk
  <2>2. PICK m \in Nat :
           /\ DOMAIN NextChunk = 1 .. m
           /\ \A p \in 1 .. m : /\ StagedRows(CurrentQuery, NextChunk[p]) \subseteq TableRow
                                /\ Unique(StagedRows(CurrentQuery, NextChunk[p]))
    BY <1>3, ChunkBlock DEF ChunkStep
  <2>3. /\ DOMAIN block = 1 .. m
        /\ \A p \in 1 .. m : block[p] \subseteq TableRow /\ Unique(block[p])
    BY <2>2
  <2> HIDE DEF block
  <2>4. Unique(Merge(table, block))
    BY <1>1, <2>3, MergeUnique
  <2> QED BY <1>1, <2>1, <2>4 DEF ChunkStep
<1> QED
  BY <1>2, <1>3

\* What a batch stages has versions of the batch.
LEMMA TableNext ==
    ASSUME TypeInv, ListInv, TableInv, [Next]_vars
    PROVE  TableInv'
<1> SUFFICES ASSUME ~disturbed'
             PROVE  Unique(table') /\ \A r \in table' : FromEarlier(r)' \/ FromBatch(r)'
  BY DEF TableInv
<1>b. /\ Len(batch) \in Nat /\ captured \in Nat
      /\ \A i \in 1 .. Len(batch) :
            batch[i] \in Record /\ batch[i].version = captured - Len(batch) + i
  BY BatchFacts DEF TypeInv
<1>1. ~disturbed
  BY DEF Next, vars, Insert, Update, Delete, Truncate, Capture, Poll, groupQueryWithRecords,
         WriteChunk, FailChunk, FinishBatch
<1>2. Unique(table) /\ \A r \in table : FromEarlier(r) \/ FromBatch(r)
  BY <1>1 DEF TableInv
<1>3. CASE Insert \/ Update \/ Delete \/ Truncate
  <2>1. PICK record : SourceStep(record)
    BY <1>3, SourceSteps DEF TypeInv
  <2>2. /\ table' = table /\ captured' = captured + 1 /\ Len(batch') = Len(batch) + 1
        /\ pc = "capturing"
    BY <2>1, AppendFacts DEF TypeInv, SourceStep
  <2>3. captured' - Len(batch') = captured - Len(batch)
    BY <1>b, <2>2
  <2>4. ASSUME NEW r \in table PROVE FromEarlier(r)'
    BY <1>2, <2>2, <2>3, <2>4 DEF FromEarlier, FromBatch
  <2> QED BY <1>2, <2>2, <2>4
<1>4. CASE Poll \/ groupQueryWithRecords
  <2>1. UNCHANGED <<table, captured, batch>> /\ pc' # "capturing"
    BY <1>4 DEF Poll, groupQueryWithRecords
  <2> QED BY <1>2, <2>1 DEF FromEarlier, FromBatch
<1>5. CASE WriteChunk \/ FailChunk
  <2>1. ChunkStep
    BY <1>5, ChunkSteps
  <2>2. UNCHANGED <<captured, batch>> /\ pc # "capturing" /\ pc' # "capturing"
    BY <2>1 DEF ChunkStep
  <2>3. Unique(table')
    BY <1>1, <2>1, ChunkUnique
  <2>4. ASSUME NEW r \in table' PROVE FromEarlier(r)' \/ FromBatch(r)'
    <3>1. r \in table \/ \E i \in 1 .. Len(batch) : Stages(batch[i], r)
      BY <1>1, <2>1, ChunkStages
    <3> QED BY <1>2, <2>2, <3>1 DEF FromEarlier, FromBatch
  <2> QED BY <2>3, <2>4
<1>6. CASE FinishBatch
  <2>1. table' = table /\ captured' = captured /\ batch' = <<>> /\ Len(batch') = 0
    BY <1>6 DEF FinishBatch
  <2>2. ASSUME NEW r \in table PROVE FromEarlier(r)'
    <3>1. CASE FromEarlier(r)
      <4>1. r.version \in Int
        BY <2>2 DEF TypeInv, TypeOK, TableRow
      <4> QED BY <1>b, <2>1, <3>1, <4>1 DEF FromEarlier
    <3>2. CASE FromBatch(r)
      <4>1. PICK i \in 1 .. Len(batch) : Stages(batch[i], r)
        BY <3>2 DEF FromBatch
      <4>2. r.version = batch[i].version \/ r.version = batch[i].version - 1
        BY <1>b, <4>1, StagesVersion
      <4>3. batch[i].version = captured - Len(batch) + i
        BY <1>b
      <4> QED BY <1>b, <2>1, <4>2, <4>3 DEF FromEarlier
    <3> QED BY <1>2, <2>2, <3>1, <3>2
  <2> QED BY <1>2, <2>1, <2>2
<1>7. CASE UNCHANGED vars
  <2>1. UNCHANGED <<table, captured, batch, pc>>
    BY <1>7 DEF vars
  <2> QED BY <1>2, <2>1 DEF FromEarlier, FromBatch
<1> QED
  BY <1>3, <1>4, <1>5, <1>6, <1>7 DEF Next

\* A live row of the table shows an image that the source has had.
LEMMA HeldNext ==
    ASSUME TypeInv, ListInv, HeldInv, [Next]_vars
    PROVE  HeldInv'
<1>1. CASE Insert \/ Update \/ Delete \/ Truncate
  <2>1. PICK record : SourceStep(record)
    BY <1>1, SourceSteps DEF TypeInv
  <2>2. /\ UNCHANGED <<table, disturbed>> /\ held' = held \cup source'
        /\ record.after \in Row => record.after \in source'
    BY <2>1, NoRowAssumption DEF SourceStep, WellFormed
  <2>3. PICK n \in Nat : n = Len(batch)
    BY AppendFacts, <2>1 DEF TypeInv
  <2>4. /\ Len(batch') = n + 1
        /\ \A i \in 1 .. n : batch'[i] = batch[i]
        /\ batch'[n + 1] = record
    BY <2>1, <2>3, AppendFacts DEF TypeInv
  <2>5. ASSUME NEW i \in 1 .. n + 1, batch'[i].after \in Row
        PROVE  batch'[i].after \in held'
    <3>1. CASE i \in 1 .. n
      BY <2>2, <2>3, <2>4, <2>5, <3>1 DEF HeldInv
    <3>2. CASE i = n + 1
      BY <2>2, <2>4, <2>5, <3>2
    <3> QED BY <3>1, <3>2
  <2>6. ~disturbed' => View' \subseteq held'
    BY <2>2 DEF HeldInv, View
  <2> QED BY <2>2, <2>4, <2>5, <2>6 DEF HeldInv
<1>2. CASE Poll
  <2>1. UNCHANGED <<source, batch, table, held>> /\ (~disturbed' => ~disturbed)
    BY <1>2 DEF Poll
  <2> QED BY <2>1 DEF HeldInv, View
<1>3. CASE WriteChunk \/ FailChunk
  <2>1. ChunkStep /\ UNCHANGED <<source, batch, held, disturbed>>
    BY <1>3, ChunkSteps DEF ChunkStep
  <2>2. ASSUME ~disturbed, NEW r \in table', ~r.deleted
        PROVE  [key |-> r.key, val |-> r.val] \in held
    <3>1. CASE r \in table
      BY <2>2, <3>1 DEF HeldInv, View
    <3>2. CASE \E i \in 1 .. Len(batch) : Stages(batch[i], r)
      <4>1. PICK i \in 1 .. Len(batch) : Stages(batch[i], r)
        BY <3>2
      <4>2. batch[i].after \in Row /\ r = Live(batch[i])
        BY <2>2, <4>1 DEF Stages, Tombstone
      <4>3. [key |-> r.key, val |-> r.val] = batch[i].after
        BY <4>2 DEF Live, Row
      <4> QED BY <4>2, <4>3 DEF HeldInv
    <3> QED BY <2>1, <2>2, <3>1, <3>2, ChunkStages
  <2>3. ~disturbed' => View' \subseteq held'
    BY <2>1, <2>2 DEF View
  <2> QED BY <2>1, <2>3 DEF HeldInv
<1>4. CASE FinishBatch
  <2>1. /\ UNCHANGED <<source, table, held, disturbed>>
        /\ batch' = <<>> /\ Len(batch') = 0
    BY <1>4 DEF FinishBatch
  <2> QED BY <2>1 DEF HeldInv, View
<1>5. CASE UNCHANGED <<source, batch, table, held, disturbed>>
  BY <1>5 DEF HeldInv, View
<1> QED
  BY <1>1, <1>2, <1>3, <1>4, <1>5 DEF Next, vars, groupQueryWithRecords

\* Half way through a batch or after an error, ClickHouse shows no row that the
\* source has never had: every live row is an image of some record.
THEOREM NothingInvented == Spec => []NeverInvented
<1> DEFINE Inv == TypeInv /\ ListInv /\ TableInv /\ HeldInv
<1>1. Init => Inv
  BY TypeInvInit, ListInit, TableInit
<1>2. Inv /\ [Next]_vars => Inv'
  BY TypeInvNext, ListNext, TableNext, HeldNext
<1>3. Inv => NeverInvented
  BY DEF HeldInv, NeverInvented
<1> QED
  BY <1>1, <1>2, <1>3, PTL DEF Spec

--------------------------------------------------------------------------------
(* What a chunk does to the rows of a key                                     *)

\* A chunk holds m records of the batch, in the order of their versions, and every
\* one that its list has and the rest of it has not.
Holds(m, list, rest) ==
    /\ m >= 1 /\ DOMAIN NextChunk = 1 .. m
    /\ \A p \in 1 .. m : \E j \in 1 .. Len(batch) :
          NextChunk[p] = batch[j] /\ batch[j] \in ToSet(list)
    /\ \A p, o \in 1 .. m : p <= o => NextChunk[p].version <= NextChunk[o].version
    /\ \A i \in 1 .. Len(batch) :
          batch[i] \in ToSet(list) /\ batch[i] \notin ToSet(rest)
             => \E p \in 1 .. m : NextChunk[p] = batch[i]

LEMMA ChunkPositions ==
    ASSUME TypeInv, ListInv, pc = "writing", ~disturbed, Pending # {},
           NEW list, list = queryToRecordsMap[CurrentQuery],
           NEW rest, rest = SubSeq(list, Len(NextChunk) + 1, Len(list))
    PROVE  \E m \in Nat : Holds(m, list, rest)
<1>1. CurrentQuery \in Queries /\ list \in Seq(ToSet(batch))
  BY CurrentList DEF TypeInv
<1>2. PICK len \in Nat : len = Len(list)
  BY <1>1
<1>m. PICK m \in Nat : Takes(m, list, rest)
  BY ChunkFacts DEF TypeInv
<1>3. /\ m \in 1 .. len /\ DOMAIN NextChunk = 1 .. m
      /\ \A p \in 1 .. m : NextChunk[p] = list[p]
      /\ rest \in Seq(ToSet(batch)) /\ Len(rest) = len - m
      /\ \A p \in 1 .. len - m : rest[p] = list[p + m]
  BY <1>2, <1>m DEF Takes
<1>4. m >= 1 /\ \A p \in 1 .. m : p \in 1 .. len
  BY <1>2, <1>3
<1>5. DOMAIN list = 1 .. len /\ DOMAIN rest = 1 .. len - m
  <2>1. DOMAIN list = 1 .. len
    BY <1>1, <1>2
  <2>2. rest \in Seq(ToSet(batch)) /\ Len(rest) = len - m
    BY <1>3
  <2>3. DOMAIN rest = 1 .. Len(rest)
    BY <2>2
  <2> QED BY <2>1, <2>2, <2>3
<1>6. \A p \in 1 .. len : \A o \in p .. len : list[p].version <= list[o].version
  BY <1>1, <1>2 DEF ListInv, InLists
<1>7. ASSUME NEW p \in 1 .. m
      PROVE  \E j \in 1 .. Len(batch) : NextChunk[p] = batch[j] /\ batch[j] \in ToSet(list)
  <2>0. NextChunk[p] = list[p] /\ p \in DOMAIN list
    BY <1>3, <1>4, <1>5
  <2>1. NextChunk[p] = list[p] /\ list[p] \in ToSet(list) /\ list[p] \in ToSet(batch)
    BY <1>1, <2>0 DEF ToSet
  <2>2. ToSet(batch) = {batch[j] : j \in 1 .. Len(batch)}
    BY BatchFacts DEF TypeInv
  <2>3. PICK j \in 1 .. Len(batch) : batch[j] = list[p]
    BY <2>1, <2>2
  <2> QED BY <2>1, <2>3
<1>8. ASSUME NEW p \in 1 .. m, NEW o \in 1 .. m, p <= o
      PROVE  NextChunk[p].version <= NextChunk[o].version
  <2>1. p \in 1 .. len /\ o \in p .. len
    BY <1>4, <1>8
  <2> QED BY <1>3, <1>6, <2>1
<1>9. ASSUME NEW i \in 1 .. Len(batch), batch[i] \in ToSet(list), batch[i] \notin ToSet(rest)
      PROVE  \E p \in 1 .. m : NextChunk[p] = batch[i]
  <2>1. PICK p \in 1 .. len : batch[i] = list[p]
    BY <1>5, <1>9 DEF ToSet
  <2>2. CASE p \in 1 .. m
    BY <1>3, <2>1, <2>2
  <2>3. CASE p \notin 1 .. m
    <3>1. p - m \in 1 .. len - m /\ (p - m) + m = p
      BY <1>2, <1>3, <2>3
    <3>2. rest[p - m] = batch[i]
      BY <1>3, <2>1, <3>1
    <3> QED BY <1>5, <1>9, <3>1, <3>2 DEF ToSet
  <2> QED BY <2>2, <2>3
<1>10. Holds(m, list, rest)
  BY <1>3, <1>4, <1>7, <1>8, <1>9 DEF Holds
<1> QED
  BY <1>10

\* A row of the table that a chunk leaves alone.
LEMMA Stays ==
    ASSUME NEW m \in Nat, DOMAIN NextChunk = 1 .. m,
           \A p \in 1 .. m : NextChunk[p].op # "t",
           NEW r \in table,
           \A p \in 1 .. m : \A s \in StagedRows(CurrentQuery, NextChunk[p]) :
              s.key = r.key => s.version < r.version
    PROVE  r \in ExecuteChunk(table, CurrentQuery, NextChunk)
<1> DEFINE block == [i \in DOMAIN NextChunk |-> StagedRows(CurrentQuery, NextChunk[i])]
<1>1. ExecuteChunk(table, CurrentQuery, NextChunk) = Merge(table, block)
  BY DEF ExecuteChunk
<1>2. DOMAIN block = 1 .. m /\ \A p \in 1 .. m : block[p] = StagedRows(CurrentQuery, NextChunk[p])
  OBVIOUS
<1> HIDE DEF block
<1>3. \A i \in DOMAIN block : \A s \in block[i] : s.key = r.key =>
         s.version < r.version \/ (s.version = r.version /\ i <= 0)
  BY <1>2
<1>4. r \in Merge(table, block)
  BY <1>3 DEF Merge
<1> QED
  BY <1>1, <1>4

\* A row of a chunk that no other row of its key outlives.
LEMMA Arrives ==
    ASSUME NEW m \in Nat, DOMAIN NextChunk = 1 .. m,
           \A p \in 1 .. m : NextChunk[p].op # "t",
           NEW p \in 1 .. m, NEW r \in StagedRows(CurrentQuery, NextChunk[p]),
           \A o \in 1 .. m : \A s \in StagedRows(CurrentQuery, NextChunk[o]) :
              s.key = r.key => s.version < r.version \/ (s.version = r.version /\ o <= p),
           \A s \in table : s.key = r.key => s.version <= r.version
    PROVE  r \in ExecuteChunk(table, CurrentQuery, NextChunk)
<1> DEFINE block == [i \in DOMAIN NextChunk |-> StagedRows(CurrentQuery, NextChunk[i])]
<1>1. ExecuteChunk(table, CurrentQuery, NextChunk) = Merge(table, block)
  BY DEF ExecuteChunk
<1>2. DOMAIN block = 1 .. m /\ \A o \in 1 .. m : block[o] = StagedRows(CurrentQuery, NextChunk[o])
  OBVIOUS
<1> HIDE DEF block
<1>3. \A i \in DOMAIN block : \A s \in block[i] : s.key = r.key =>
         s.version < r.version \/ (s.version = r.version /\ i <= p)
  BY <1>2
<1>4. p \in DOMAIN block /\ r \in block[p]
  BY <1>2
<1>5. r \in Merge(table, block)
  BY <1>3, <1>4 DEF Merge
<1> QED
  BY <1>1, <1>5

\* A record stages rows at the keys that it touches.
LEMMA StagesTouches ==
    ASSUME NEW record, WellFormed(record), NEW s, Stages(record, s)
    PROVE  Touches(record, s.key)
<1>1. CASE record.after \in Row /\ s = Live(record)
  BY <1>1 DEF Live, Touches, Puts
<1>2. CASE Tombstone(record, s)
  BY <1>2 DEF Tombstone, WellFormed, Touches, Leaves
<1> QED
  BY <1>1, <1>2 DEF Stages

--------------------------------------------------------------------------------
(* The keys that the batch leaves alone                                       *)

\* There ClickHouse shows what the source has.
Shown(k) == \A r \in Row : r.key = k => (r \in source <=> r \in View)

UntouchedInv == Plain /\ ~disturbed => \A k \in Keys : Untouched(k) => Shown(k)

LEMMA UntouchedInit == Init => UntouchedInv
BY DEF Init, UntouchedInv, Shown, View

\* A chunk has no row there.
LEMMA UntouchedChunk ==
    ASSUME TypeInv, ListInv, UntouchedInv, ChunkStep
    PROVE  UntouchedInv'
<1>1. UNCHANGED <<source, batch, disturbed>> /\ pc = "writing" /\ Pending # {}
  BY DEF ChunkStep
<1> SUFFICES ASSUME Plain, ~disturbed, NEW k \in Keys, Untouched(k) PROVE Shown(k)'
  BY <1>1 DEF UntouchedInv, Plain, Untouched
<1>2. Shown(k)
  BY DEF UntouchedInv
<1>l. PICK list : list = queryToRecordsMap[CurrentQuery]
  OBVIOUS
<1>r. PICK rest : rest = SubSeq(list, Len(NextChunk) + 1, Len(list))
  OBVIOUS
<1>m. PICK m \in Nat : Holds(m, list, rest)
  BY <1>1, <1>l, <1>r, ChunkPositions
<1>3. /\ DOMAIN NextChunk = 1 .. m
      /\ \A p \in 1 .. m : \E j \in 1 .. Len(batch) :
            NextChunk[p] = batch[j] /\ batch[j] \in ToSet(list)
  BY <1>m DEF Holds
<1>4. \A p \in 1 .. m : NextChunk[p].op # "t"
  BY <1>3 DEF Plain
<1>5. ASSUME NEW p \in 1 .. m, NEW s \in StagedRows(CurrentQuery, NextChunk[p]), s.key = k
      PROVE  FALSE
  <2>1. PICK j \in 1 .. Len(batch) :
           /\ NextChunk[p] = batch[j]
           /\ batch[j] \in ToSet(queryToRecordsMap[CurrentQuery])
    BY <1>3, <1>l
  <2>2. /\ CurrentQuery \in Lists(batch[j]) /\ ~Fills(batch[j])
        /\ batch[j] \in Record /\ WellFormed(batch[j]) /\ batch[j].op # "t"
    BY <1>1, <1>4, <2>1, ChunkRecords, BatchFacts DEF TypeInv
  <2>3. Stages(batch[j], s)
    BY <1>5, <2>1, <2>2, StagedFacts
  <2> QED BY <1>5, <2>2, <2>3, StagesTouches DEF Untouched
<1>6. ASSUME NEW r, r.key = k PROVE r \in table' <=> r \in table
  <2>1. CASE r \in table
    <3>1. r \in ExecuteChunk(table, CurrentQuery, NextChunk)
      BY <1>3, <1>4, <1>5, <1>6, <2>1, Stays
    <3> QED BY <2>1, <3>1 DEF ChunkStep
  <2>2. ASSUME r \in table', r \notin table PROVE FALSE
    <3>1. PICK i \in 1 .. Len(batch) : Stages(batch[i], r)
      BY <2>2, ChunkStages
    <3>2. Touches(batch[i], r.key)
      BY <3>1, StagesTouches, BatchFacts DEF TypeInv
    <3> QED BY <1>6, <3>2 DEF Untouched
  <2> QED BY <2>1, <2>2
<1>7. ASSUME NEW r \in Row, r.key = k PROVE r \in View' <=> r \in View
  <2>1. \A x : [key |-> x.key, val |-> x.val] = r => x.key = k
    BY <1>7
  <2>2. r \in View <=> \E x \in table : ~x.deleted /\ [key |-> x.key, val |-> x.val] = r
    BY DEF View
  <2>3. r \in View' <=> \E x \in table' : ~x.deleted /\ [key |-> x.key, val |-> x.val] = r
    BY DEF View
  <2> QED BY <1>6, <2>1, <2>2, <2>3
<1> QED
  BY <1>1, <1>2, <1>7 DEF Shown

--------------------------------------------------------------------------------
(* The keys that the batch touches                                            *)

\* The list in which the last record at a key has its last say, and the row that
\* says it.
Final(record, k) == ModifiedFields(IF Puts(record, k) THEN record.after ELSE record.before)

SettledIn(rows, record, k) == \E r \in rows : r.key = k /\ Stages(record, r)

\* A batch is done at a key when the last record there has left that list, and a
\* TRUNCATE is done when its list is empty.
DoneInv ==
    pc = "writing" /\ ~disturbed =>
        /\ Plain => \A k \in Keys : \A i \in 1 .. Len(batch) :
              LastAt(i, k) /\ batch[i] \notin ToSet(queryToRecordsMap[Final(batch[i], k)])
                 => SettledIn(table, batch[i], k)
        /\ Alone /\ queryToRecordsMap[TruncateQuery] = <<>> => table = {}

LEMMA DoneInit == Init => DoneInv
BY DEF Init, DoneInv

LEMMA FinalIsList ==
    ASSUME NEW record, WellFormed(record), NEW k, Touches(record, k)
    PROVE  Final(record, k) \in Lists(record)
<1>1. CASE Puts(record, k)
  BY <1>1, FieldsAreQueries DEF Final, Puts, Lists
<1>2. CASE ~Puts(record, k)
  BY <1>2, FieldsAreQueries DEF Final, Touches, Leaves, Lists
<1> QED
  BY <1>1, <1>2

\* A record stages one version at a key.
LEMMA OneVersion ==
    ASSUME NEW record, WellFormed(record), NEW r, Stages(record, r),
           NEW s, Stages(record, s), r.key = s.key
    PROVE  r.version = s.version
<1> USE NoRowAssumption
<1>1. ASSUME record.after \in Row, NEW x, NEW y, x = Live(record), Tombstone(record, y), x.key = y.key
      PROVE  FALSE
  <2>1. record.op # "d"
    BY <1>1 DEF WellFormed
  <2>2. Moves(record) /\ y.key = record.before.key /\ x.key = record.after.key
    BY <1>1, <2>1 DEF Tombstone, Live
  <2> QED BY <1>1, <2>2 DEF Moves
<1>2. CASE Tombstone(record, r) /\ Tombstone(record, s)
  BY <1>2 DEF Tombstone
<1> QED
  BY <1>1, <1>2 DEF Stages

\* The last record at a key comes after every other one there.
LEMMA LastComesLast ==
    ASSUME TypeInv, NEW k, NEW i \in 1 .. Len(batch), LastAt(i, k),
           NEW j \in 1 .. Len(batch), Touches(batch[j], k)
    PROVE  j <= i
<1>1. Len(batch) \in Nat
  BY BatchFacts DEF TypeInv
<1>2. ~(j \in i + 1 .. Len(batch))
  BY DEF LastAt
<1> QED
  BY <1>1, <1>2

\* A record at a key stages a row there, whichever of its lists is executed.
LEMMA StagesThere ==
    ASSUME NEW record \in Record, WellFormed(record), record.op # "t", ~Fills(record),
           NEW query \in Lists(record), NEW k, Touches(record, k)
    PROVE  \E w \in StagedRows(query, record) : w.key = k /\ Stages(record, w)
<1> USE NoRowAssumption
<1>1. CASE Puts(record, k)
  <2>1. Live(record) \in StagedRows(query, record) /\ record.after \in Row
    BY <1>1, StagedFacts DEF Puts
  <2>2. Live(record).key = k
    BY <1>1 DEF Puts, Live
  <2> QED BY <2>1, <2>2 DEF Stages
<1>2. CASE ~Puts(record, k)
  <2>1. record.before \in Row /\ record.before.key = k
    BY <1>2 DEF Touches, Leaves
  <2>2. record.op = "d" \/ Moves(record)
    BY <1>2, <2>1 DEF WellFormed, Puts, Moves
  <2>3. PICK w \in StagedRows(query, record) : Tombstone(record, w)
    BY <2>2, StagedFacts
  <2> QED BY <2>1, <2>3 DEF Tombstone, Stages
<1> QED
  BY <1>1, <1>2

\* When the last record at a key is in a chunk, its row is there after the chunk:
\* the list is in the order of the versions, and a tombstone one version below
\* its record is still no lower than any row of the records before.
LEMMA LastIsWritten ==
    ASSUME TypeInv, ListInv, TableInv, pc = "writing", ~disturbed, Plain, Pending # {},
           NEW k \in Keys, NEW i \in 1 .. Len(batch), LastAt(i, k),
           \E p \in DOMAIN NextChunk : NextChunk[p] = batch[i]
    PROVE  SettledIn(ExecuteChunk(table, CurrentQuery, NextChunk), batch[i], k)
<1> DEFINE L == batch[i]
           v == L.version
<1>b. /\ Len(batch) \in Nat /\ captured \in Nat /\ captured - Len(batch) \in Nat
      /\ \A j \in 1 .. Len(batch) :
            /\ batch[j] \in Record /\ WellFormed(batch[j])
            /\ batch[j].version = captured - Len(batch) + j
  BY BatchFacts DEF TypeInv
<1>p. \A j \in 1 .. Len(batch) : batch[j].op # "t"
  BY DEF Plain
<1>l. PICK list : list = queryToRecordsMap[CurrentQuery]
  OBVIOUS
<1>r. PICK rest : rest = SubSeq(list, Len(NextChunk) + 1, Len(list))
  OBVIOUS
<1>m. PICK m \in Nat : Holds(m, list, rest)
  BY <1>l, <1>r, ChunkPositions
<1>1. /\ DOMAIN NextChunk = 1 .. m
      /\ \A p \in 1 .. m : \E j \in 1 .. Len(batch) :
            NextChunk[p] = batch[j] /\ batch[j] \in ToSet(list)
      /\ \A p, o \in 1 .. m : p <= o => NextChunk[p].version <= NextChunk[o].version
  BY <1>m DEF Holds
<1>2. PICK p \in 1 .. m : /\ NextChunk[p] = L
                          /\ \A o \in 1 .. m : NextChunk[o] = L => o <= p
  <2> DEFINE S == {p \in 1 .. m : NextChunk[p] = L}
  <2>1. S \in SUBSET (1 .. m) /\ S # {}
    BY <1>1
  <2>2. \E p \in S : \A o \in S : o <= p
    <3> HIDE DEF S
    <3> QED BY <2>1, LastExists
  <2> QED BY <2>2
<1>3. ASSUME NEW j \in 1 .. Len(batch), batch[j] \in ToSet(list)
      PROVE  CurrentQuery \in Lists(batch[j]) /\ ~Fills(batch[j])
  BY <1>3, <1>l, ChunkRecords
<1>4. L \in ToSet(list)
  BY <1>1, <1>2
<1>5. PICK w \in StagedRows(CurrentQuery, L) : w.key = k /\ Stages(L, w)
  <2>1. Touches(L, k)
    BY DEF LastAt
  <2> QED BY <1>b, <1>p, <1>3, <1>4, <2>1, StagesThere
<1>6. w \in TableRow /\ w.version \in Int /\ v \in Int /\ (w.version = v \/ w.version = v - 1)
  <2>1. w \in TableRow
    BY <1>b, <1>p, <1>5, StagedType
  <2>2. w.version \in Int
    BY <2>1 DEF TableRow
  <2>3. v \in Int
    BY <1>b
  <2>4. w.version = v \/ w.version = v - 1
    BY <1>b, <1>5, StagesVersion
  <2> QED BY <2>1, <2>2, <2>3, <2>4
<1>7. ASSUME NEW j \in 1 .. Len(batch), NEW s \in TableRow, Stages(batch[j], s), s.key = k
      PROVE  /\ s.version <= w.version
             /\ j = i \/ batch[j].version < v
  <2>1. j <= i
    BY <1>b, <1>7, StagesTouches, LastComesLast
  <2>2. CASE j = i
    BY <1>b, <1>5, <1>6, <1>7, <2>2, OneVersion
  <2>3. CASE j < i
    <3>1. s.version = batch[j].version \/ s.version = batch[j].version - 1
      BY <1>b, <1>7, StagesVersion
    <3>2. batch[j].version = captured - Len(batch) + j /\ v = captured - Len(batch) + i
      BY <1>b
    <3> QED BY <1>b, <1>6, <2>3, <3>1, <3>2
  <2> QED BY <2>1, <2>2, <2>3
<1> HIDE DEF L, v
<1>8. ASSUME NEW o \in 1 .. m, NEW s \in StagedRows(CurrentQuery, NextChunk[o]), s.key = k
      PROVE  s.version < w.version \/ (s.version = w.version /\ o <= p)
  <2>1. PICK j \in 1 .. Len(batch) : NextChunk[o] = batch[j] /\ batch[j] \in ToSet(list)
    BY <1>1
  <2>2. Stages(batch[j], s)
    BY <1>b, <1>p, <1>3, <1>8, <2>1, StagedFacts
  <2>3. s \in TableRow /\ s.version \in Int
    <3>1. s \in TableRow
      BY <1>b, <1>p, <1>8, <2>1, StagedType
    <3> QED BY <3>1 DEF TableRow
  <2>4. s.version <= w.version /\ (j = i \/ batch[j].version < v)
    BY <1>7, <1>8, <2>2, <2>3
  <2>5. o <= p
    <3>1. CASE j = i
      BY <1>2, <2>1, <3>1 DEF L
    <3>2. CASE batch[j].version < v
      <4>1. SUFFICES ASSUME p <= o PROVE FALSE
        OBVIOUS
      <4>2. NextChunk[p].version <= NextChunk[o].version
        BY <1>1, <4>1
      <4>3. v <= batch[j].version
        BY <1>2, <2>1, <4>2 DEF v
      <4>4. batch[j].version \in Int
        BY <1>b
      <4> QED BY <1>6, <3>2, <4>3, <4>4
    <3> QED BY <2>4, <3>1, <3>2
  <2> QED BY <1>6, <2>3, <2>4, <2>5
<1>9. ASSUME NEW s \in table, s.key = k PROVE s.version <= w.version
  <2>1. s \in TableRow /\ s.version \in Int
    BY <1>9 DEF TypeInv, TypeOK, TableRow
  <2>2. CASE FromEarlier(s)
    <3>1. s.version <= captured - Len(batch) /\ v = captured - Len(batch) + i
      BY <1>b, <2>2 DEF FromEarlier, L, v
    <3> QED BY <1>b, <1>6, <2>1, <3>1
  <2>3. CASE FromBatch(s)
    BY <1>7, <1>9, <2>1, <2>3 DEF FromBatch
  <2> QED BY <1>9, <2>2, <2>3 DEF TableInv
<1>10. \A o \in 1 .. m : NextChunk[o].op # "t"
  BY <1>1, <1>p
<1>11. w \in ExecuteChunk(table, CurrentQuery, NextChunk)
  BY <1>1, <1>2, <1>5, <1>8, <1>9, <1>10, Arrives
<1> QED
  BY <1>5, <1>11 DEF SettledIn, L

\* When the last record at a key has left its final list and is not in the chunk,
\* its row stays.  Only the record right before it could stage a row that is as
\* high as a tombstone; that record has left the list too, unless it belongs in
\* another one as well, which OrderMatters excepts.
LEMMA LastStays ==
    ASSUME TypeInv, SourceInv, ListInv, pc = "writing", ~disturbed, Plain, Pending # {},
           NEW k \in Keys, NEW i \in 1 .. Len(batch), LastAt(i, k),
           ~ \E p \in DOMAIN NextChunk : NextChunk[p] = batch[i],
           batch[i] \notin ToSet(queryToRecordsMap[Final(batch[i], k)]),
           SettledIn(table, batch[i], k)
    PROVE  SettledIn(ExecuteChunk(table, CurrentQuery, NextChunk), batch[i], k)
<1> DEFINE L == batch[i]
           v == L.version
           f == Final(L, k)
<1>b. /\ Len(batch) \in Nat /\ captured \in Nat /\ captured - Len(batch) \in Nat
      /\ \A j \in 1 .. Len(batch) :
            /\ batch[j] \in Record /\ WellFormed(batch[j])
            /\ batch[j].version = captured - Len(batch) + j
  BY BatchFacts DEF TypeInv
<1>p. \A j \in 1 .. Len(batch) : batch[j].op # "t"
  BY DEF Plain
<1>l. PICK list : list = queryToRecordsMap[CurrentQuery]
  OBVIOUS
<1>r. PICK rest : rest = SubSeq(list, Len(NextChunk) + 1, Len(list))
  OBVIOUS
<1>m. PICK m \in Nat : Holds(m, list, rest)
  BY <1>l, <1>r, ChunkPositions
<1>1. /\ DOMAIN NextChunk = 1 .. m
      /\ \A p \in 1 .. m : \E j \in 1 .. Len(batch) :
            NextChunk[p] = batch[j] /\ batch[j] \in ToSet(list)
      /\ \A p, o \in 1 .. m : p <= o => NextChunk[p].version <= NextChunk[o].version
  BY <1>m DEF Holds
<1>2. PICK x \in table : x.key = k /\ Stages(L, x)
  BY DEF SettledIn
<1>3. x.version \in Int /\ v \in Int /\ (x.version = v \/ x.version = v - 1)
  <2>1. x.version \in Int
    BY <1>2 DEF TypeInv, TypeOK, TableRow
  <2>2. v \in Int
    BY <1>b
  <2>3. x.version = v \/ x.version = v - 1
    BY <1>b, <1>2, StagesVersion
  <2> QED BY <2>1, <2>2, <2>3
<1>4. f \in Lists(L) /\ f \in Queries
  <2>1. f \in Lists(L)
    BY <1>b, FinalIsList DEF LastAt
  <2> QED BY <2>1 DEF Lists
<1>5. Touches(L, k)
  BY DEF LastAt
<1>6. ASSUME NEW j \in 1 .. Len(batch), batch[j] \in ToSet(list), NEW s, Stages(batch[j], s),
             s.key = k, j + 1 = i, s.version = batch[j].version, x.version = v - 1
      PROVE  FALSE
  <2> DEFINE E == batch[j]
  <2>1. Moves(L) /\ L.before \in Row /\ L.before.key = k
    <3>1. ~(x = Live(L))
      BY <1>3, <1>6 DEF Live
    <3>2. Tombstone(L, x) /\ L.op # "d"
      BY <1>2, <1>3, <1>6, <3>1 DEF Stages, Tombstone
    <3>3. Moves(L) /\ L.before.key = k
      BY <1>2, <3>2 DEF Tombstone
    <3> QED BY <1>b, <3>3 DEF Moves, WellFormed
  <2>2. f = ModifiedFields(L.before)
    BY <2>1 DEF Final, Puts, Moves
  <2>3. E.after = L.before
    <3>1. Touches(E, k)
      BY <1>b, <1>6, StagesTouches
    <3> QED BY <1>6, <2>1, <3>1 DEF SourceInv, Chained
  <2>4. CurrentQuery \in Lists(E) /\ ~Fills(E)
    BY <1>6, <1>l, ChunkRecords
  <2>5. CurrentQuery # f
    <3>1. SUFFICES ASSUME CurrentQuery = f PROVE FALSE
      OBVIOUS
    <3>2. batch[j] \in ToSet(queryToRecordsMap[f])
      BY <1>6, <1>l, <3>1
    <3>3. j <= i
      BY <1>6, <1>b
    <3>4. batch[i] \in ToSet(queryToRecordsMap[f])
      BY <1>4, <3>2, <3>3 DEF ListInv, Closed
    <3> QED BY <3>4
  <2>6. E.before \in Row /\ ModifiedFields(E.before) # ModifiedFields(E.after)
    BY <1>p, <2>2, <2>3, <2>4, <2>5 DEF Lists
  <2>7. E.op = "u"
    BY <1>b, <2>1, <2>3, <2>6, NoRowAssumption DEF WellFormed
  <2>8. Empties(E)
    BY <2>4, <2>6, <2>7 DEF Empties, Fills, ModifiedFields
  <2>9. ~OrderMatters(batch)
    BY DEF TypeInv, BatchInv
  <2>10. i = j + 1
    BY <1>6
  <2> QED BY <2>1, <2>3, <2>8, <2>9, <2>10, CalmFacts DEF TypeInv
<1>7. ASSUME NEW p \in 1 .. m, NEW s \in StagedRows(CurrentQuery, NextChunk[p]), s.key = k
      PROVE  s.version < x.version
  <2>1. PICK j \in 1 .. Len(batch) : NextChunk[p] = batch[j] /\ batch[j] \in ToSet(list)
    BY <1>1
  <2>2. CurrentQuery \in Lists(batch[j]) /\ ~Fills(batch[j])
    BY <1>l, <2>1, ChunkRecords
  <2>3. Stages(batch[j], s) /\ s.version \in Int
    <3>1. Stages(batch[j], s)
      BY <1>b, <1>p, <1>7, <2>1, <2>2, StagedFacts
    <3>2. s \in TableRow
      BY <1>b, <1>p, <1>7, <2>1, StagedType
    <3> QED BY <3>1, <3>2 DEF TableRow
  <2>4. j <= i
    BY <1>b, <1>7, <2>3, StagesTouches, LastComesLast
  <2>5. j # i
    BY <1>1, <2>1
  <2>6. s.version = batch[j].version \/ s.version = batch[j].version - 1
    BY <1>b, <2>3, StagesVersion
  <2>7. batch[j].version = captured - Len(batch) + j /\ v = captured - Len(batch) + i
    BY <1>b
  <2> HIDE DEF L, v, f
  <2>8. SUFFICES ASSUME ~(s.version < x.version) PROVE FALSE
    OBVIOUS
  <2>n. PICK c \in Int : c = captured - Len(batch)
    BY <1>b
  <2>9. batch[j].version = c + j /\ v = c + i /\ i \in Int /\ j \in Int
    BY <2>7, <2>n
  <2>e. PICK e \in Int : e = batch[j].version
    BY <2>9
  <2>10. e + (i - j) = v /\ i - j >= 1
    BY <2>4, <2>5, <2>9, <2>e
  <2>11. j + 1 = i /\ s.version = e /\ x.version = v - 1
    BY <1>3, <2>3, <2>6, <2>8, <2>9, <2>e, <2>10
  <2> QED BY <1>6, <1>7, <2>1, <2>3, <2>e, <2>11
<1>8. \A p \in 1 .. m : NextChunk[p].op # "t"
  BY <1>1, <1>p
<1>9. x \in ExecuteChunk(table, CurrentQuery, NextChunk)
  BY <1>1, <1>2, <1>7, <1>8, Stays
<1> QED
  BY <1>2, <1>9 DEF SettledIn

\* A chunk of a batch without TRUNCATE.
LEMMA DoneChunkPlain ==
    ASSUME TypeInv, SourceInv, ListInv, TableInv, DoneInv, WriteChunk, ~disturbed, Plain,
           NEW k \in Keys, NEW i \in 1 .. Len(batch), LastAt(i, k),
           batch[i] \notin ToSet(queryToRecordsMap'[Final(batch[i], k)])
    PROVE  SettledIn(table', batch[i], k)
<1> DEFINE L == batch[i]
           f == Final(L, k)
<1>1. pc = "writing" /\ Pending # {} /\ table' = ExecuteChunk(table, CurrentQuery, NextChunk)
  BY DEF WriteChunk
<1>2. CASE \E p \in DOMAIN NextChunk : NextChunk[p] = L
  BY <1>1, <1>2, LastIsWritten
<1>3. CASE ~ \E p \in DOMAIN NextChunk : NextChunk[p] = L
  <2>1. f \in Queries /\ CurrentQuery \in Queries /\ queryToRecordsMap \in [Queries -> Seq(ToSet(batch))]
    <3>1. WellFormed(L) /\ Touches(L, k)
      BY BatchFacts DEF TypeInv, LastAt
    <3>2. f \in Queries
      BY <3>1, FinalIsList DEF Lists
    <3> QED BY <1>1, <3>2, CurrentList DEF TypeInv, TypeOK
  <2>l. PICK list : list = queryToRecordsMap[CurrentQuery]
    OBVIOUS
  <2>r. PICK rest : rest = SubSeq(list, Len(NextChunk) + 1, Len(list))
    OBVIOUS
  <2>2. queryToRecordsMap' = [queryToRecordsMap EXCEPT ![CurrentQuery] = rest]
    BY <2>l, <2>r DEF WriteChunk
  <2>3. L \in ToSet(list) /\ L \notin ToSet(rest) => \E p \in DOMAIN NextChunk : NextChunk[p] = L
    <3>1. PICK m \in Nat : Holds(m, list, rest)
      BY <1>1, <2>l, <2>r, ChunkPositions
    <3> QED BY <3>1 DEF Holds
  <2> HIDE DEF f, L
  <2>4. L \notin ToSet(queryToRecordsMap[f])
    <3>1. CASE f = CurrentQuery
      <4>1. queryToRecordsMap'[f] = rest /\ queryToRecordsMap[f] = list
        BY <2>1, <2>2, <2>l, <3>1
      <4> QED BY <1>3, <2>3, <4>1 DEF f, L
    <3>2. CASE f # CurrentQuery
      <4>1. queryToRecordsMap'[f] = queryToRecordsMap[f]
        BY <2>1, <2>2, <3>2
      <4> QED BY <4>1 DEF f, L
    <3> QED BY <3>1, <3>2
  <2>5. SettledIn(table, L, k)
    BY <1>1, <2>4 DEF DoneInv, f, L
  <2> QED BY <1>1, <1>3, <2>4, <2>5, LastStays DEF f, L
<1> QED
  BY <1>2, <1>3

\* A TRUNCATE that is alone in its batch empties the table.
LEMMA DoneChunkAlone ==
    ASSUME TypeInv, ListInv, WriteChunk, ~disturbed, Alone
    PROVE  table' = {}
<1>1. pc = "writing" /\ Pending # {} /\ table' = ExecuteChunk(table, CurrentQuery, NextChunk)
  BY DEF WriteChunk
<1>l. PICK list : list = queryToRecordsMap[CurrentQuery]
  OBVIOUS
<1>r. PICK rest : rest = SubSeq(list, Len(NextChunk) + 1, Len(list))
  OBVIOUS
<1>m. PICK m \in Nat : Holds(m, list, rest)
  BY <1>1, <1>l, <1>r, ChunkPositions
<1>2. /\ m >= 1 /\ DOMAIN NextChunk = 1 .. m
      /\ \A p \in 1 .. m : \E j \in 1 .. Len(batch) :
            NextChunk[p] = batch[j] /\ batch[j] \in ToSet(list)
  BY <1>m DEF Holds
<1>3. 1 \in DOMAIN NextChunk /\ \E j \in 1 .. 1 : NextChunk[1] = batch[j]
  BY <1>2 DEF Alone
<1>4. NextChunk[1].op = "t"
  BY <1>3 DEF Alone
<1> QED
  BY <1>1, <1>3, <1>4 DEF ExecuteChunk

LEMMA DoneNext ==
    ASSUME TypeInv, SourceInv, ListInv, TableInv, DoneInv, [Next]_vars
    PROVE  DoneInv'
<1>1. CASE pc' # "writing"
  BY <1>1 DEF DoneInv
<1>2. CASE groupQueryWithRecords
  <2>1. /\ queryToRecordsMap' = Grouped(batch)
        /\ UNCHANGED <<batch, table, disturbed>>
    BY <1>2 DEF groupQueryWithRecords
  <2>2. PICK new : new = Grouped(batch)
    OBVIOUS
  <2>3. Filled(new, Len(batch)) /\ queryToRecordsMap' = new
    BY <2>1, <2>2, GroupedFacts DEF TypeInv
  <2>4. ASSUME Plain, NEW k \in Keys, NEW i \in 1 .. Len(batch), LastAt(i, k)
        PROVE  batch[i] \in ToSet(new[Final(batch[i], k)])
    <3>1. WellFormed(batch[i]) /\ Touches(batch[i], k)
      BY <2>4, BatchFacts DEF TypeInv, LastAt
    <3>2. Final(batch[i], k) \in Lists(batch[i])
      BY <3>1, FinalIsList
    <3>3. Final(batch[i], k) \in Queries
      BY <3>2 DEF Lists
    <3> QED BY <2>3, <2>4, <3>2, <3>3 DEF Filled
  <2>5. Alone => new[TruncateQuery] # <<>>
    BY <2>3 DEF Filled, Alone
  <2> QED BY <2>1, <2>3, <2>4, <2>5 DEF DoneInv, Plain, Alone, LastAt
<1>3. CASE WriteChunk
  <2>1. UNCHANGED <<batch, disturbed>>
    BY <1>3 DEF WriteChunk
  <2>2. ASSUME ~disturbed, Plain, NEW k \in Keys, NEW i \in 1 .. Len(batch), LastAt(i, k),
               batch[i] \notin ToSet(queryToRecordsMap'[Final(batch[i], k)])
        PROVE  SettledIn(table', batch[i], k)
    BY <1>3, <2>2, DoneChunkPlain
  <2>3. ~disturbed /\ Alone => table' = {}
    BY <1>3, DoneChunkAlone
  <2> QED BY <2>1, <2>2, <2>3 DEF DoneInv, Plain, Alone, LastAt
<1>4. CASE UNCHANGED vars
  <2>1. UNCHANGED <<pc, batch, queryToRecordsMap, table, disturbed>>
    BY <1>4 DEF vars
  <2> QED BY <2>1 DEF DoneInv, Plain, Alone, LastAt
<1>5. CASE Insert \/ Update \/ Delete \/ Truncate
  <2>1. pc' = pc /\ pc = "capturing"
    BY <1>5, SourceSteps DEF TypeInv, SourceStep
  <2> QED BY <1>1, <2>1
<1>6. [Next]_vars => \/ Insert \/ Update \/ Delete \/ Truncate \/ pc' # "writing"
                     \/ groupQueryWithRecords \/ WriteChunk \/ UNCHANGED vars
  BY DEF Next, Poll, FailChunk, FinishBatch
<1> QED
  BY <1>1, <1>2, <1>3, <1>4, <1>5, <1>6

--------------------------------------------------------------------------------
(* The end of a batch                                                         *)

\* When every list is done ClickHouse shows what the source has.
LEMMA BatchShown ==
    ASSUME TypeInv, SourceInv, TableInv, UntouchedInv, DoneInv,
           pc = "writing", ~disturbed, Pending = {}
    PROVE  View = source
<1>1. \A q \in Queries : queryToRecordsMap[q] = <<>>
  BY OrderIsFull DEF Pending, TypeInv, TypeOK
<1>2. \A q \in Queries : ToSet(queryToRecordsMap[q]) = {}
  BY <1>1 DEF ToSet
<1>b. /\ Len(batch) \in Nat
      /\ \A j \in 1 .. Len(batch) : batch[j] \in Record /\ WellFormed(batch[j])
  BY BatchFacts DEF TypeInv
<1>3. ~OrderMatters(batch)
  BY DEF TypeInv, BatchInv
<1>4. CASE Alone
  <2>1. "t" \in Operations
    BY <1>b, <1>4 DEF Alone, Record
  <2>2. queryToRecordsMap[TruncateQuery] = <<>>
    BY <1>1, <2>1 DEF Queries
  <2>3. table = {} /\ source = {}
    BY <1>4, <2>2 DEF DoneInv, SourceInv, SourceTells
  <2> QED BY <2>3 DEF View
<1>5. CASE Plain
  <2>1. View \subseteq Row /\ source \subseteq Row
    BY DEF View, TypeInv, TypeOK, TableRow, Row
  <2>2. ASSUME NEW k \in Keys, ~Untouched(k) PROVE Shown(k)
    <3>1. PICK i \in 1 .. Len(batch) : LastAt(i, k)
      <4> DEFINE S == {i \in 1 .. Len(batch) : Touches(batch[i], k)}
      <4>1. S \in SUBSET (1 .. Len(batch)) /\ S # {}
        BY <2>2 DEF Untouched
      <4>2. PICK i \in S : \A j \in S : j <= i
        <5> HIDE DEF S
        <5> QED BY <1>b, <4>1, LastExists
      <4>3. \A j \in i + 1 .. Len(batch) : j \in 1 .. Len(batch) /\ ~(j <= i)
        BY <1>b
      <4> QED BY <4>2, <4>3 DEF LastAt
    <3> DEFINE L == batch[i]
    <3>2. WellFormed(L) /\ Touches(L, k)
      BY <1>b, <3>1 DEF LastAt
    <3>3. Final(L, k) \in Queries
      BY <3>2, FinalIsList DEF Lists
    <3>4. SettledIn(table, L, k)
      BY <1>2, <1>5, <3>1, <3>3 DEF DoneInv
    <3>5. PICK x \in table : x.key = k /\ Stages(L, x)
      BY <3>4 DEF SettledIn
    <3>6. \A y \in table : y.key = k => y = x
      BY <3>5 DEF TableInv, Unique
    <3>7. IF Puts(L, k) THEN L.after \in source ELSE \A r \in source : r.key # k
      BY <1>5, <3>1 DEF SourceInv, SourceTells
    <3> HIDE DEF L
    <3>8. CASE Puts(L, k)
      <4>1. x = Live(L)
        <5>1. SUFFICES ASSUME Tombstone(L, x) PROVE FALSE
          BY <3>5 DEF Stages
        <5>2. L.op # "d"
          BY <3>2, <3>8, NoRowAssumption DEF WellFormed, Puts
        <5> QED BY <3>5, <3>8, <5>1, <5>2 DEF Tombstone, Moves, Puts
      <4>2. L.after \in Row /\ L.after.key = k
        BY <3>8 DEF Puts
      <4>3. [key |-> x.key, val |-> x.val] = L.after /\ ~x.deleted
        BY <4>1, <4>2 DEF Live, Row
      <4>4. ASSUME NEW r \in Row, r.key = k PROVE r \in View <=> r = L.after
        <5>1. r \in View <=> \E y \in table : ~y.deleted /\ [key |-> y.key, val |-> y.val] = r
          BY DEF View
        <5>2. \A y : [key |-> y.key, val |-> y.val] = r => y.key = k
          BY <4>4
        <5> QED BY <3>5, <3>6, <4>3, <5>1, <5>2
      <4>5. ASSUME NEW r \in Row, r.key = k PROVE r \in source <=> r = L.after
        BY <3>7, <3>8, <4>2, <4>5 DEF SourceInv, SourceKeys
      <4> QED BY <4>4, <4>5 DEF Shown
    <3>9. CASE ~Puts(L, k)
      <4>1. x.deleted
        BY <3>5, <3>9 DEF Stages, Tombstone, Live, Puts
      <4>2. ASSUME NEW r \in Row, r.key = k PROVE r \notin View
        <5>1. r \in View <=> \E y \in table : ~y.deleted /\ [key |-> y.key, val |-> y.val] = r
          BY DEF View
        <5>2. \A y : [key |-> y.key, val |-> y.val] = r => y.key = k
          BY <4>2
        <5> QED BY <3>6, <4>1, <5>1, <5>2
      <4> QED BY <3>7, <3>9, <4>2 DEF Shown
    <3> QED BY <3>8, <3>9
  <2>3. ASSUME NEW k \in Keys PROVE Shown(k)
    BY <1>5, <2>2, <2>3 DEF UntouchedInv
  <2>4. \A r \in Row : r.key \in Keys
    BY DEF Row
  <2> QED BY <2>1, <2>3, <2>4 DEF Shown
<1> QED
  BY <1>3, <1>4, <1>5, CalmFacts DEF TypeInv

\* A change of the source shows in the rows of the keys that it touches.
LEMMA UntouchedSource ==
    ASSUME TypeInv, UntouchedInv, NEW record, SourceStep(record)
    PROVE  UntouchedInv'
<1>1. PICK n \in Nat : n = Len(batch)
  BY AppendFacts DEF TypeInv
<1>2. /\ Len(batch') = n + 1
      /\ \A i \in 1 .. n : batch'[i] = batch[i]
      /\ batch'[n + 1] = record
  BY <1>1, AppendFacts DEF TypeInv
<1>3. \A i \in 1 .. n : i \in 1 .. n + 1
  OBVIOUS
<1>4. n + 1 \in 1 .. n + 1
  OBVIOUS
<1>5. UNCHANGED <<table, disturbed>> /\ source \subseteq Row
  BY DEF SourceStep, TypeInv, TypeOK
<1> SUFFICES ASSUME Plain', ~disturbed, NEW k \in Keys, Untouched(k)' PROVE Shown(k)'
  BY <1>5 DEF UntouchedInv
<1>6. /\ \A i \in 1 .. n + 1 : batch'[i].op # "t"
      /\ \A i \in 1 .. n + 1 : ~Touches(batch'[i], k)
  BY <1>2 DEF Plain, Untouched
<1>7. Plain /\ Untouched(k) /\ record.op # "t" /\ ~Touches(record, k)
  <2>1. Plain
    BY <1>1, <1>2, <1>3, <1>6 DEF Plain
  <2>2. Untouched(k)
    BY <1>1, <1>2, <1>3, <1>6 DEF Untouched
  <2> QED BY <1>2, <1>4, <1>6, <2>1, <2>2
<1>8. Shown(k)
  BY <1>7 DEF UntouchedInv
<1>9. source' = (source \ {record.before}) \cup ({record.after} \cap Row)
  BY <1>7 DEF SourceStep
<1>10. ASSUME NEW r \in Row, r.key = k PROVE r \in source' <=> r \in source
  <2>1. r # record.before /\ r # record.after
    BY <1>7, <1>10 DEF Touches, Leaves, Puts
  <2> QED BY <1>9, <2>1
<1> QED
  BY <1>5, <1>8, <1>10 DEF Shown, View

LEMMA UntouchedNext ==
    ASSUME TypeInv, SourceInv, ListInv, TableInv, DoneInv, UntouchedInv, [Next]_vars
    PROVE  UntouchedInv'
<1>1. CASE Insert \/ Update \/ Delete \/ Truncate
  BY <1>1, SourceSteps, UntouchedSource DEF TypeInv
<1>2. CASE Poll \/ groupQueryWithRecords \/ UNCHANGED vars
  <2>1. UNCHANGED <<source, batch, table>>
    BY <1>2 DEF Poll, groupQueryWithRecords, vars
  <2>2. CASE Poll
    BY <2>2, <2>1 DEF Poll, UntouchedInv, Plain, Untouched, Shown, View
  <2>3. CASE UNCHANGED disturbed
    BY <2>1, <2>3 DEF UntouchedInv, Plain, Untouched, Shown, View
  <2> QED BY <1>2, <2>2, <2>3 DEF groupQueryWithRecords, vars
<1>3. CASE WriteChunk \/ FailChunk
  BY <1>3, ChunkSteps, UntouchedChunk
<1>4. CASE FinishBatch
  <2>1. UNCHANGED <<source, table, disturbed>> /\ pc = "writing" /\ Pending = {}
    BY <1>4 DEF FinishBatch
  <2>2. ~disturbed => View = source
    BY <2>1, BatchShown
  <2> QED BY <2>1, <2>2 DEF UntouchedInv, Shown, View
<1> QED
  BY <1>1, <1>2, <1>3, <1>4 DEF Next

\* Once a batch is done ClickHouse shows the table of the source, whatever the
\* order of the lists, wherever a chunk failed, and wherever the rows have moved.
THEOREM ReplicaIsFaithful == Spec => []ReplicaMatches
<1> DEFINE Inv == /\ TypeInv /\ SourceInv /\ ListInv /\ TableInv
                  /\ DoneInv /\ UntouchedInv
<1>1. Init => Inv
  BY TypeInvInit, SourceInit, ListInit, TableInit, DoneInit, UntouchedInit
<1>2. Inv /\ [Next]_vars => Inv'
  BY TypeInvNext, SourceNext, ListNext, TableNext, DoneNext, UntouchedNext
<1>3. ASSUME Inv, AtRest, ~disturbed PROVE View = source
  <2>1. Len(batch) = 0 /\ Plain /\ \A k \in Keys : Untouched(k)
    BY <1>3 DEF AtRest, Plain, Untouched
  <2>2. \A k \in Keys : Shown(k)
    BY <1>3, <2>1 DEF UntouchedInv
  <2>3. View \subseteq Row /\ source \subseteq Row /\ \A r \in Row : r.key \in Keys
    BY <1>3 DEF View, TypeInv, TypeOK, TableRow, Row
  <2> QED BY <2>2, <2>3 DEF Shown
<1>4. Inv => ReplicaMatches
  BY <1>3 DEF ReplicaMatches
<1> HIDE DEF Inv
<1> QED
  BY <1>1, <1>2, <1>4, PTL DEF Spec
================================================================================
