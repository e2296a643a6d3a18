------------------------------ MODULE MCTimer -------------------------------
(* The timer with the constants of timer.h: every state of a minute.        *)
EXTENDS Timer
=============================================================================
