----------------------------- MODULE TimerProofs -----------------------------
(***************************************************************************)
(* Proofs about the interval timer, for any numbers of interrupts in a     *)
(* second and in a minute of which the first divides the second: the       *)
(* variables keep their types, and the one counter of the handler          *)
(* implements the three clocks of Metronome.tla.                           *)
(***************************************************************************)
EXTENDS Timer, TLAPS

USE TimerAssumption

-----------------------------------------------------------------------------
(* Remainders.                                                             *)

LEMMA Divide ==
  ASSUME NEW L \in Int, L > 0, NEW c \in Int
  PROVE  c % L \in 0 .. L - 1 /\ c \div L \in Int /\ c = L * (c \div L) + (c % L)
<1>1. c % L \in 0 .. L - 1 /\ c \div L \in Int
  OBVIOUS
<1>2. c = L * (c \div L) + (c % L)
  OBVIOUS
<1> QED
  BY <1>1, <1>2

LEMMA OneRemainder ==
  ASSUME NEW L \in Int, L > 0, NEW q \in Int, NEW r \in 0 .. L - 1,
         NEW p \in Int, NEW s \in 0 .. L - 1, L * q + r = L * p + s
  PROVE  r = s
<1>1. L * (q - p) = s - r
  OBVIOUS
<1>2. q - p < 1
  <2> SUFFICES ASSUME q - p >= 1 PROVE FALSE
    OBVIOUS
  <2>1. L * (q - p) >= L
    OBVIOUS
  <2> QED
    BY <1>1, <2>1
<1>3. q - p > -1
  <2> SUFFICES ASSUME q - p <= -1 PROVE FALSE
    OBVIOUS
  <2>1. L * (q - p) <= -L
    OBVIOUS
  <2> QED
    BY <1>1, <2>1
<1>4. q = p
  BY <1>2, <1>3
<1> QED
  BY <1>1, <1>4

\* A remainder goes on by one, and back to zero at the divisor.
LEMMA Successor ==
  ASSUME NEW L \in Int, L > 0, NEW c \in Int
  PROVE  (c + 1) % L = IF (c % L) + 1 = L THEN 0 ELSE (c % L) + 1
<1>1. /\ c % L \in 0 .. L - 1 /\ c \div L \in Int
      /\ c = L * (c \div L) + (c % L)
  BY Divide
<1>2. /\ (c + 1) % L \in 0 .. L - 1 /\ (c + 1) \div L \in Int
      /\ c + 1 = L * ((c + 1) \div L) + ((c + 1) % L)
  BY Divide
<1>3. CASE (c % L) + 1 = L
  <2>1. L * (c \div L + 1) = L * (c \div L) + L
    BY <1>1
  <2>2. L * ((c + 1) \div L) + ((c + 1) % L) = L * (c \div L + 1) + 0
    BY <1>1, <1>2, <1>3, <2>1
  <2>3. c \div L + 1 \in Int /\ 0 \in 0 .. L - 1
    BY <1>1
  <2>4. (c + 1) % L = 0
    BY ONLY <1>2, <2>2, <2>3, L \in Int, L > 0, OneRemainder
  <2> QED
    BY <1>3, <2>4
<1>4. CASE (c % L) + 1 # L
  <2>1. (c % L) + 1 \in 0 .. L - 1
    BY <1>1, <1>4
  <2>2. L * ((c + 1) \div L) + ((c + 1) % L) = L * (c \div L) + ((c % L) + 1)
    BY <1>1, <1>2
  <2>3. (c + 1) % L = (c % L) + 1
    BY ONLY <1>1, <1>2, <2>1, <2>2, L \in Int, L > 0, OneRemainder
  <2> QED
    BY <1>4, <2>3
<1> QED
  BY <1>3, <1>4

-----------------------------------------------------------------------------
LEMMA TypeInit == Init => TypeOK
<1>1. 0 \in 0 .. TIMER_1M - 1
  OBVIOUS
<1>2. [p \in Periods |-> FALSE] \in [Periods -> BOOLEAN]
  OBVIOUS
<1> QED
  BY <1>1, <1>2 DEF Init, TypeOK

LEMMA TypeStep == TypeOK /\ [Next]_vars => TypeOK'
<1> SUFFICES ASSUME TypeOK, [Next]_vars PROVE TypeOK'
  OBVIOUS
<1>1. CASE timer_handler_100ms
  BY <1>1 DEF timer_handler_100ms, Raise, TypeOK
<1>2. ASSUME NEW ok \in BOOLEAN, timer_start(ok) PROVE TypeOK'
  BY <1>2 DEF timer_start, TypeOK
<1>3. CASE timer_stop
  BY <1>3 DEF timer_stop, TypeOK
<1>4. ASSUME NEW p \in Periods, Served(p) PROVE TypeOK'
  BY <1>4 DEF Served, TypeOK
<1>5. CASE UNCHANGED vars
  BY <1>5 DEF vars, TypeOK
<1> QED
  BY <1>1, <1>2, <1>3, <1>4, <1>5 DEF Next

\* The counter stays below the interrupts of a minute.
THEOREM TimerTypes == Spec => []TypeOK
BY TypeInit, TypeStep, PTL DEF Spec

-----------------------------------------------------------------------------
LEMMA Lengths ==
  /\ Length["RR_100ms"] = 1 /\ Length["RR_1s"] = TIMER_1S
  /\ Length["RR_1m"] = TIMER_1M
  /\ \A p \in Periods : Length[p] \in Nat \ {0}
BY DEF Length, Periods

\* The clocks of the abstract timer.
Ages == [p \in Periods |-> timer_counter % Length[p]]

\* An interrupt strikes the clocks that the handler raises a flag for, and sets
\* the others on by one.
LEMMA ClocksGoOn ==
  ASSUME TypeOK, timer_handler_100ms, NEW p \in Periods
  PROVE  /\ p \in Ended(timer_counter + 1) <=> Ages[p] + 1 = Length[p]
         /\ Ages'[p] = IF Ages[p] + 1 = Length[p] THEN 0 ELSE Ages[p] + 1
<1>0. PICK c \in Int : c = timer_counter /\ c \in 0 .. TIMER_1M - 1
  BY DEF TypeOK
<1>1. PICK L \in Int : L = Length[p] /\ L > 0
  BY Lengths
<1>2. /\ Ages[p] = c % L /\ Ages'[p] = timer_counter' % L
      /\ timer_counter' = IF c + 1 = TIMER_1M THEN 0 ELSE c + 1
  BY <1>0, <1>1 DEF Ages, timer_handler_100ms
<1>3. /\ (c + 1) % L = IF (c % L) + 1 = L THEN 0 ELSE (c % L) + 1
      /\ c % L \in 0 .. L - 1
  BY <1>1, Successor, Divide
<1>4. TIMER_1M % L = 0 /\ 0 % L = 0
  <2>1. TIMER_1M % TIMER_1M = 0 /\ TIMER_1M % 1 = 0
    OBVIOUS
  <2> QED
    BY <1>1, <2>1, Lengths DEF Periods
<1>5. Ages'[p] = (c + 1) % L
  BY <1>2, <1>4
<1>6. (c % L) + 1 = L <=> (c + 1) % L = 0
  BY <1>3
<1>7. p \in Ended(c + 1) <=> (c % L) + 1 = L
  <2>1. CASE p = "RR_100ms"
    BY <1>1, <1>3, <2>1, Lengths DEF Ended
  <2>2. CASE p = "RR_1s"
    <3>1. p \in Ended(c + 1) <=> (c + 1) % TIMER_1S = 0
      BY <2>2 DEF Ended
    <3> QED
      BY <1>1, <1>6, <2>2, <3>1, Lengths
  <2>3. CASE p = "RR_1m"
    <3>1. p \in Ended(c + 1) <=> c + 1 = TIMER_1M
      BY <2>3 DEF Ended
    <3>2. c % TIMER_1M = c
      BY <1>0
    <3> QED
      BY <1>1, <2>3, <3>1, <3>2, Lengths
  <2> QED
    BY <2>1, <2>2, <2>3 DEF Periods
<1> QED
  BY <1>0, <1>1, <1>2, <1>3, <1>5, <1>7

LEMMA ClocksInit == Init => Abstract!Init
<1> SUFFICES ASSUME Init PROVE Abstract!Init
  OBVIOUS
<1>1. \A p \in Periods : timer_counter % Length[p] = 0
  BY Lengths DEF Init
<1> QED
  BY <1>1 DEF Init, Abstract!Init

LEMMA ClocksStep == TypeOK /\ [Next]_vars => [Abstract!Next]_(Abstract!vars)
<1> SUFFICES ASSUME TypeOK, [Next]_vars PROVE [Abstract!Next]_(Abstract!vars)
  OBVIOUS
<1>1. CASE timer_handler_100ms
  <2>1. /\ Ages' = [p \in Periods |->
                      IF Ages[p] + 1 = Length[p] THEN 0 ELSE Ages[p] + 1]
        /\ t_period' = [p \in Periods |-> t_period[p] \/ Ages[p] + 1 = Length[p]]
    <3>1. \A p \in Periods :
            /\ p \in Ended(timer_counter + 1) <=> Ages[p] + 1 = Length[p]
            /\ Ages'[p] = IF Ages[p] + 1 = Length[p] THEN 0 ELSE Ages[p] + 1
      BY <1>1, ClocksGoOn
    <3>2. t_period' = [p \in Periods |->
                         t_period[p] \/ p \in Ended(timer_counter + 1)]
      BY <1>1 DEF timer_handler_100ms, Raise
    <3>3. Ages' = [p \in Periods |-> Ages'[p]]
      BY DEF Ages
    <3> QED
      BY <3>1, <3>2, <3>3
  <2>2. armed /\ armed' = armed
    BY <1>1 DEF timer_handler_100ms
  <2>3. Abstract!Interrupt
    BY <2>1, <2>2 DEF Abstract!Interrupt, Abstract!Strikes, Ages
  <2> QED
    BY <2>3 DEF Abstract!Next
<1>2. ASSUME NEW ok \in BOOLEAN, timer_start(ok) PROVE Abstract!Next
  <2>1. armed' \in BOOLEAN /\ UNCHANGED <<Ages, t_period>>
    BY <1>2 DEF timer_start, TypeOK, Ages
  <2> QED
    BY <2>1 DEF Abstract!Next, Abstract!Arm, Ages
<1>3. CASE timer_stop
  <2>1. armed' \in BOOLEAN /\ UNCHANGED <<Ages, t_period>>
    BY <1>3 DEF timer_stop, Ages
  <2> QED
    BY <2>1 DEF Abstract!Next, Abstract!Arm, Ages
<1>4. ASSUME NEW p \in Periods, Served(p) PROVE Abstract!Next
  <2>1. t_period' = [t_period EXCEPT ![p] = FALSE] /\ UNCHANGED <<Ages, armed>>
    BY <1>4 DEF Served, Ages
  <2> QED
    BY <2>1 DEF Abstract!Next, Abstract!Take, Ages
<1>5. CASE UNCHANGED vars
  BY <1>5 DEF vars, Abstract!vars
<1> QED
  BY <1>1, <1>2, <1>3, <1>4, <1>5 DEF Next

\* The one counter keeps three exact clocks, for any division of the minute.
THEOREM TimerKeepsClocks == Spec => ImplementsMetronome
BY ClocksInit, ClocksStep, TimerTypes, PTL DEF Spec, ImplementsMetronome, Abstract!Spec
=============================================================================
