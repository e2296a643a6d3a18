----------------------------- MODULE MCMainLoop -----------------------------
(* The main loop with a minute of four interrupts and a second of two: the   *)
(* flags of a minute and of a second come together, and a second alone.      *)
EXTENDS MainLoop

CONSTANT a

OneClient == {a}

InMinutes == [x \in OneClient |-> "RR_1m"]
InSeconds == [x \in OneClient |-> "RR_1s"]
=============================================================================
