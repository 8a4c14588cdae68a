---------------------------- MODULE MCTableReplica -----------------------------
(* TableReplica on small instances.  Keys and values are interchangeable.     *)
EXTENDS TableReplica, TLC

Perms == Permutations(Keys) \cup Permutations(Values)
================================================================================
