----------------------------- MODULE MCCounters -----------------------------
(* Data of three bits: every pair of readings, with wraps of the value in    *)
(* both directions.                                                         *)
EXTENDS Counters

AllKinds  == {"NONE", "DIFFERENCE", "CUMUL_NOT_100", "CUMUL"}
Cumulated == {"CUMUL"}
=============================================================================
