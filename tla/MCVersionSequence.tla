--------------------------- MODULE MCVersionSequence ---------------------------
(* VersionSequence on small instances: a tick of the clock is half a second.  *)
EXTENDS VersionSequence, TLC
================================================================================
