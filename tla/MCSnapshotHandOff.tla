--------------------------- MODULE MCSnapshotHandOff ---------------------------
(* SnapshotHandOff on small instances.                                        *)
EXTENDS SnapshotHandOff

CONSTANTS t1
================================================================================
