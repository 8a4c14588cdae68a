---------------------------- MODULE MCBatchPipeline ----------------------------
(* Values of the constants for TLC.                                           *)
EXTENDS BatchPipeline

\* errors.max.retries = -1: an engine that fails is not replaced.
NoRetries == -1
================================================================================
