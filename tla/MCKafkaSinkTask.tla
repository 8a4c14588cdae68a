---------------------------- MODULE MCKafkaSinkTask ----------------------------
(* KafkaSinkTask on small instances: two topics of one partition each.  The   *)
(* tasks are interchangeable.                                                 *)
EXTENDS KafkaSinkTask, TLC

CONSTANTS p1, p2, c1, c2

TwoTopics == p1 :> c1 @@ p2 :> c2

\* A tombstone is the second record of a partition.
OneTombstone == {<<p1, 1>>}

ThreeAndOne == p1 :> 3 @@ p2 :> 1

Perms == Permutations(Tasks)
================================================================================
