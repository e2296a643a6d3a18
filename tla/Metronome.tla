----------------------------- MODULE Metronome ------------------------------
(***************************************************************************)
(* What the timer promises to the main loop: one independent clock per     *)
(* refresh rate.  Each clock counts the interrupts since it last struck    *)
(* and, when its period is over, raises a flag that the main loop takes    *)
(* down.  A flag raised twice before it is taken is one flag.              *)
(*                                                                         *)
(* timer.c keeps a single counter for the three clocks (Timer.tla).        *)
(***************************************************************************)
EXTENDS Integers

CONSTANTS
  Periods,   \* the clocks
  Length     \* Length[p]: interrupts between two strokes of clock p

VARIABLES
  age,       \* age[p]: interrupts since clock p last struck
  t_period,  \* t_period[p]: the flag of clock p
  armed      \* the interrupts are coming

vars == <<age, t_period, armed>>

Init ==
  /\ age = [p \in Periods |-> 0]
  /\ t_period = [p \in Periods |-> FALSE]
  /\ armed = FALSE

Strikes(p) == age[p] + 1 = Length[p]

Interrupt ==
  /\ armed
  /\ age' = [p \in Periods |-> IF Strikes(p) THEN 0 ELSE age[p] + 1]
  /\ t_period' = [p \in Periods |-> t_period[p] \/ Strikes(p)]
  /\ UNCHANGED armed

Take(p) ==
  /\ t_period' = [t_period EXCEPT ![p] = FALSE]
  /\ UNCHANGED <<age, armed>>

Arm(on) ==
  /\ armed' = on
  /\ UNCHANGED <<age, t_period>>

Next ==
  \/ Interrupt
  \/ \E p \in Periods : Take(p)
  \/ \E on \in BOOLEAN : Arm(on)

Spec == Init /\ [][Next]_vars
=============================================================================
