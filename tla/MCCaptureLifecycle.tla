--------------------------- MODULE MCCaptureLifecycle ---------------------------
(* Values of the constants for TLC.                                           *)
EXTENDS CaptureLifecycle

CONSTANTS main, r1, r2
================================================================================
