------------------------------ MODULE Counters ------------------------------
(***************************************************************************)
(* The counter of one client (src/counters.c) and the value it gives to    *)
(* the report: counterUpdate, counterGet, client_computation and           *)
(* client_to_mqtt after every reading, counterReset after every accepted   *)
(* report.  Integers have the widths of the build: IntBits for int and     *)
(* DWORD, LongBits for long; a signed result that does not fit wraps, as   *)
(* the generated code makes it.                                            *)
(*                                                                         *)
(* The value of the client is an int, a dword, or of a type ("OTHER") that *)
(* the counters refuse: the reading itself is then reported.               *)
(*                                                                         *)
(* `heard`, `last`, `exact`, `wrapped`, `mistaken`, `invented` and         *)
(* `readings` are history variables; readings is bounded by MaxReadings.   *)
(***************************************************************************)
EXTENDS Integers

CONSTANTS
  Kinds,        \* the counters considered, among those of CounterType
  IntBits,      \* bits of int and of DWORD: 32
  LongBits,     \* bits of long: 32 on the MIPS target, 64 on a PC
  Hundred,      \* the reading that cumulated_not_100 does not count
  Factor,       \* the factor of client_computation, 1 for LCT_NONE
  MaxReadings   \* bound: updates of the counter between two reports

ASSUME CounterAssumption ==
  /\ Kinds \subseteq {"NONE", "DIFFERENCE", "CUMUL_NOT_100", "CUMUL"}
  /\ IntBits \in Nat \ {0} /\ LongBits \in Nat /\ LongBits >= IntBits
  /\ Hundred \in Nat /\ Factor \in Nat \ {0} /\ MaxReadings \in Nat

\* What is used of the powers of two, which the provers do not compute.
ASSUME PowerAssumption ==
  /\ 2^(IntBits - 1) \in Nat \ {0} /\ 2^IntBits = 2 * 2^(IntBits - 1)
  /\ 2^(LongBits - 1) \in Nat \ {0} /\ 2^LongBits = 2 * 2^(LongBits - 1)
  /\ 2^(LongBits - 1) >= 2^(IntBits - 1) /\ 2^LongBits % 2^IntBits = 0

VARIABLES
  kind, type,    \* counter and dataType of the client
  currentData,   \* the last reading
  counter,       \* differenceCounter, cumulatedNot100Counter or
                 \* cumulatedCounter, whichever the kind uses
  report,        \* the value of the client in mqtt_data
  started,       \* the survey is over: the counter has been updated
  (* history; exact, wrapped, mistaken and readings are of what came since the *)
  (* last accepted report *)
  heard,         \* the client has answered
  last,          \* its last reading, zero before the first
  exact,         \* what was to be counted of its readings
  wrapped,       \* an int has risen by more than an int holds
  mistaken,      \* a reading was taken for the first one, and was not
  invented,      \* the counter has, or will have, counted the zeroes that
                 \* stand for a client that did not answer the survey
  readings       \* updates of the counter, the failed survey included

vars ==
  <<kind, type, currentData, counter, report, started, heard, last, exact, wrapped,
    mistaken, invented, readings>>

Unsigned(x, bits) == x % 2^bits

Signed(x, bits) ==
  LET u == x % 2^bits IN IF u < 2^(bits - 1) THEN u ELSE u - 2^bits

Types == {"INT", "DWORD", "OTHER"}

\* A value of the client's data type.
Value(x) == IF type = "INT" THEN Signed(x, IntBits) ELSE Unsigned(x, IntBits)

\* Mutant: the counters are kept without a width.
Stored_Unbounded(x) == x

\* cumulatedCounter is a long, the other two are unsigned long.
Stored(x) ==
  IF kind = "CUMUL" THEN Signed(x, LongBits) ELSE Unsigned(x, LongBits)

Readings == {Value(x) : x \in 0 .. 2^IntBits - 1}

NotStarted == -1   \* cumulatedCounter before the first reading

TypeOK ==
  /\ kind \in Kinds /\ type \in Types
  /\ currentData \in Readings
  /\ counter \in IF kind = "CUMUL" THEN -(2^(LongBits - 1)) .. 2^(LongBits - 1) - 1
                                     ELSE 0 .. 2^LongBits - 1
  /\ report \in -(2^(LongBits - 1)) .. 2^LongBits - 1
  /\ started \in BOOLEAN /\ heard \in BOOLEAN /\ last \in Readings
  /\ exact \in Int /\ wrapped \in BOOLEAN /\ mistaken \in BOOLEAN
  /\ invented \in BOOLEAN
  /\ readings \in 0 .. MaxReadings

\* counterAdd, on a _counters full of zeroes.
counterAdd ==
  /\ currentData = 0
  /\ counter = IF kind = "CUMUL" THEN NotStarted ELSE 0

Init ==
  /\ kind \in Kinds /\ type \in Types
  /\ counterAdd
  /\ report = 0
  /\ started = FALSE /\ heard = FALSE /\ last = 0
  /\ exact = 0 /\ wrapped = FALSE /\ mistaken = FALSE /\ invented = FALSE
  /\ readings = 0

\* A counter of a type without counters; only the first reading of
\* "cumulated" is accepted, before the type is looked at.
Refused ==
  type = "OTHER" /\ kind # "NONE" /\ ~(kind = "CUMUL" /\ counter = NotStarted)

\* Whether the reading v adds to the counter: an int when it rises, and so
\* does a dword for "difference"; "cumulated" takes any change of a dword.
Counted(v) ==
  IF kind = "CUMUL" /\ type = "DWORD" THEN v # currentData ELSE v > currentData

\* The counter after the reading v.
Updated(v) ==
  IF kind = "NONE" \/ Refused THEN counter ELSE
  CASE kind = "CUMUL_NOT_100" ->
         IF v = Hundred THEN counter ELSE Stored(counter + 1)
    [] kind = "CUMUL" /\ counter = NotStarted -> 0
    [] OTHER ->
         IF Counted(v) THEN Stored(counter + Value(v - currentData)) ELSE counter

\* The value after the reading v left n in the counter; the reading itself
\* without a counter, or with one of a type that has none.
counterGet(v, n) == IF kind = "NONE" \/ type = "OTHER" THEN v ELSE Value(n)

\* client_computation with the factor f (1 when the survey fails), and
\* client_to_mqtt; a dword is reported as a long.
Reported(v, n, f) ==
  LET computed == Value(counterGet(v, n) * f)
  IN  CASE type = "OTHER" -> v
        [] type = "INT"   -> computed
        [] type = "DWORD" -> Signed(computed, LongBits)

\* What the reading v of the client is to add, without widths and marks: rises,
\* readings other than 100, rises or changes after the first reading.
Gain(v) ==
  IF kind = "NONE" \/ type = "OTHER" THEN 0 ELSE
  CASE kind = "CUMUL_NOT_100" -> IF v = Hundred THEN 0 ELSE 1
    [] kind = "CUMUL" /\ ~heard -> 0
    [] kind = "CUMUL" /\ heard /\ type = "DWORD" -> v - last
    [] OTHER -> IF v > last THEN v - last ELSE 0

\* Mutant: a reading that is not counted is not remembered.
counterUpdate_CountedOnly(v, f) ==
  /\ readings < MaxReadings /\ readings' = readings + 1
  /\ started' = TRUE
  /\ counter' = Updated(v)
  /\ currentData' = IF Counted(v) THEN v ELSE currentData
  /\ report' = Reported(v, Updated(v), f)
  /\ UNCHANGED <<kind, type>>

counterUpdate(v, f) ==
  /\ readings < MaxReadings /\ readings' = readings + 1
  /\ started' = TRUE
  /\ counter' = Updated(v)
  /\ currentData' = IF Refused THEN currentData ELSE v
  /\ report' = Reported(v, Updated(v), f)
  /\ UNCHANGED <<kind, type>>

\* A poll that succeeds, in the survey or in a polling block.
Receive(v) ==
  /\ counterUpdate(v, Factor)
  /\ heard' = TRUE /\ last' = v /\ exact' = exact + Gain(v)
  /\ wrapped' = (wrapped \/ (type = "INT" /\ v - last >= 2^(IntBits - 1)))
  /\ mistaken' = (mistaken \/ (started /\ kind = "CUMUL" /\ counter = NotStarted))
  /\ UNCHANGED invented

\* A client that does not answer the survey: the counter is updated with a
\* reading of zeroes that nobody has sent.  One kind counts it, another takes it
\* for the first reading; a difference from zero is what the first reading is
\* counted as in any case.  (In the polling blocks nothing is updated.)
SurveyFails ==
  /\ ~started /\ counterUpdate(0, 1)
  /\ invented' = (kind \in {"CUMUL_NOT_100", "CUMUL"})
  /\ UNCHANGED <<heard, last, exact, wrapped, mistaken>>

NoteReport ==
  /\ exact' = 0 /\ wrapped' = FALSE /\ mistaken' = FALSE /\ readings' = 0
  /\ invented' = (invented /\ kind = "CUMUL" /\ ~heard)
  /\ UNCHANGED <<started, heard, last>>

\* Mutant: a cumulated counter starts anew, as if there had been no reading.
counterReset_ToMark ==
  /\ started
  /\ counter' = IF kind = "CUMUL" THEN NotStarted ELSE 0
  /\ NoteReport
  /\ UNCHANGED <<kind, type, currentData, report>>

\* The report has been accepted.
counterReset ==
  /\ started
  /\ counter' = IF kind = "NONE" THEN counter ELSE 0
  /\ NoteReport
  /\ UNCHANGED <<kind, type, currentData, report>>

Next ==
  \/ \E v \in Readings : Receive(v)
  \/ SurveyFails
  \/ counterReset

Spec == Init /\ [][Next]_vars

-----------------------------------------------------------------------------
\* Every reading received reports the exact count of what the client has sent
\* since the last accepted report, times the factor, in the width of its type:
\* neither the width of the counter nor a report between two readings makes it
\* miss or repeat a gain, as long as no int rises by more than an int holds and
\* no reading is mistaken for the first.  A client that did not answer the survey
\* is counted exactly from the first report on that follows its first answer.
\* What "cumulated" is to add is the change of the data, as the code has it
\* (counters.c:109-123); README.md:247 has another, see CumulatedAsDocumented.
CountsExactly ==
  [][(\E v \in Readings : Receive(v)) /\ kind # "NONE" /\ type # "OTHER"
       /\ ~wrapped' /\ ~mistaken' /\ ~invented'
       => Value(report') = Value(exact' * Factor)]_vars

\* A reading is mistaken for the first one only when more has come in since the
\* last accepted report than a long is sure to hold; with an int, only when what
\* was to be counted is more than a long holds.
FullWhenMistaken ==
  mistaken =>
    \/ wrapped
    \/ /\ readings * 2^IntBits > 2^(LongBits - 1)
       /\ type = "INT" /\ ~invented => exact >= 2^(LongBits - 1)

\* README.md:247, "cumulated": "Incremented by 1 when data changes. Erase when
\* data sending.", with 100, 200 and 200 counted as 0, 1 and 1: the first reading
\* is not counted, one that brings a change adds 1, and one that brings none
\* leaves the counter.
CumulatedAsDocumented ==
  [][\A v \in Readings : Receive(v) /\ kind = "CUMUL" /\ type # "OTHER" =>
       counter' = IF ~heard THEN 0 ELSE IF v # last THEN counter + 1 ELSE counter]_vars
=============================================================================
