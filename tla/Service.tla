------------------------------- MODULE Service -------------------------------
(***************************************************************************)
(* What the start of service promises: the broker and the manager of the   *)
(* clients become ready, in any order, and stay so; the timer runs only    *)
(* when both are; and the gateway is in service only with its timer, and   *)
(* for ever.                                                               *)
(*                                                                         *)
(* Startup.tla implements this call by call, and MainLoop.tla with one     *)
(* step for each call of init_sys: what the loop takes for granted of the  *)
(* start is what the start gives.                                          *)
(***************************************************************************)

VARIABLES
  mqtt, manager,   \* what is ready
  timer,           \* the interrupts are coming
  inService        \* init_sys is not called any more

vars == <<mqtt, manager, timer, inService>>

Init == ~mqtt /\ ~manager /\ ~timer /\ ~inService

\* Some of init_sys, or all of it.
Attempt ==
  /\ ~inService
  /\ mqtt' \in {mqtt, TRUE} /\ manager' \in {manager, TRUE}
  /\ timer' \in {FALSE, mqtt' /\ manager'}
  /\ inService' \in {FALSE, timer'}

Spec == Init /\ [][Attempt]_vars
=============================================================================
