--------------------------- MODULE MCChecksumSnapshot ---------------------------
(* Two runs, which may overlap.                                               *)
EXTENDS ChecksumSnapshot

CONSTANTS a, b, t1, t2
================================================================================
