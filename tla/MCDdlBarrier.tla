------------------------------ MODULE MCDdlBarrier -----------------------------
(* DdlBarrier on small instances.                                             *)
EXTENDS DdlBarrier, TLC

CONSTANTS db, history, t, w1, w2

\* The rows go to another database than that of the source.
Overridden == db :> history
================================================================================
