------------------------------- MODULE Timer --------------------------------
(***************************************************************************)
(* src/timer.c: the SIGALRM handler of the 100 ms interval timer, the one  *)
(* counter it keeps, and the three flags of t_period through which the     *)
(* main loop learns that 100 ms, a second or a minute have passed.  The    *)
(* main loop takes a flag down at the end of the block that serves it.     *)
(***************************************************************************)
EXTENDS Integers

CONSTANTS
  TIMER_1S,   \* interrupts in a second: 10
  TIMER_1M    \* interrupts in a minute: 600

ASSUME TimerAssumption ==
  /\ TIMER_1S \in Nat \ {0}
  /\ TIMER_1M \in Nat \ {0}
  /\ TIMER_1M % TIMER_1S = 0    \* timer.h: TIMER_1M is TIMER_1S * 60

Periods == {"RR_100ms", "RR_1s", "RR_1m"}

VARIABLES
  timer_counter,   \* interrupts since the last minute
  t_period,        \* t_period[p]: the flag of period p
  armed            \* setitimer has the interrupts coming

vars == <<timer_counter, t_period, armed>>

TypeOK ==
  /\ timer_counter \in 0 .. TIMER_1M - 1
  /\ t_period \in [Periods -> BOOLEAN]
  /\ armed \in BOOLEAN

\* The program starts with static zeroes and no interval timer.
Init ==
  /\ timer_counter = 0
  /\ t_period = [p \in Periods |-> FALSE]
  /\ armed = FALSE

\* The periods that end with the n-th interrupt of the minute.
Ended(n) ==
  {"RR_100ms"} \union {p \in {"RR_1s"} : n % TIMER_1S = 0}
               \union {p \in {"RR_1m"} : n = TIMER_1M}

Raise(ps) == t_period' = [p \in Periods |-> t_period[p] \/ p \in ps]

\* Mutant: the wrap of the counter is tested one interrupt late.
timer_handler_100ms_LateWrap ==
  /\ armed
  /\ LET n == timer_counter + 1 IN
       /\ Raise(Ended(n))
       /\ timer_counter' = IF n > TIMER_1M THEN 0 ELSE n
  /\ UNCHANGED armed

\* Mutant: the counter is taken back before the minute is tested.
timer_handler_100ms_WrapFirst ==
  /\ armed
  /\ LET n == (timer_counter + 1) % TIMER_1M IN
       /\ Raise(Ended(n))
       /\ timer_counter' = n
  /\ UNCHANGED armed

timer_handler_100ms ==
  /\ armed
  /\ LET n == timer_counter + 1 IN
       /\ Raise(Ended(n))
       /\ timer_counter' = IF n = TIMER_1M THEN 0 ELSE n
  /\ UNCHANGED armed

\* setitimer may refuse, and the caller looks at its result.
timer_start(ok) ==
  /\ armed' = (armed \/ ok)
  /\ UNCHANGED <<timer_counter, t_period>>

timer_stop ==
  /\ armed' = FALSE
  /\ UNCHANGED <<timer_counter, t_period>>

\* The main loop has served period p.
Served(p) ==
  /\ t_period' = [t_period EXCEPT ![p] = FALSE]
  /\ UNCHANGED <<timer_counter, armed>>

Next ==
  \/ timer_handler_100ms
  \/ \E ok \in BOOLEAN : timer_start(ok)
  \/ timer_stop
  \/ \E p \in Periods : Served(p)

Spec == Init /\ [][Next]_vars

\* An armed interval timer goes on firing.
FairSpec == Spec /\ WF_vars(timer_handler_100ms)

-----------------------------------------------------------------------------
Length == [p \in Periods |->
  CASE p = "RR_100ms" -> 1 [] p = "RR_1s" -> TIMER_1S [] OTHER -> TIMER_1M]

Abstract == INSTANCE Metronome WITH
  age <- [p \in Periods |-> timer_counter % Length[p]]

\* One counter, taken back every minute, keeps three exact clocks: no second
\* is cut short or stretched where the counter wraps, and the minute flag
\* comes every TIMER_1M interrupts, whenever the main loop takes flags down.
ImplementsMetronome == Abstract!Spec

\* A timer that stays armed raises every flag again and again, so no lane of
\* the main loop is forgotten.
EveryPeriodComes ==
  (<>[]armed) => \A p \in Periods : []<>t_period[p]
=============================================================================
