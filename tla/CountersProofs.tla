--------------------------- MODULE CountersProofs ---------------------------
(***************************************************************************)
(* Proofs about the counter of one client, for any widths of int and long: *)
(* the variables keep their types, every reading reports the exact count   *)
(* of what the client has sent, unless a reading before it was mistaken    *)
(* for the first or a failed survey was counted, and none is mistaken      *)
(* while a long holds what has come in since the last accepted report.     *)
(***************************************************************************)
EXTENDS Counters, TLAPS

-----------------------------------------------------------------------------
(* Remainders.                                                             *)

\* x and y differ by a multiple of M.
Same(M, x, y) == \E k \in Int : x = y + M * k

LEMMA Divide ==
  ASSUME NEW M \in Int, M > 0, NEW x \in Int
  PROVE  /\ x % M \in 0 .. M - 1 /\ x \div M \in Int
         /\ x = (x % M) + M * (x \div M)
<1>1. x % M \in 0 .. M - 1 /\ x \div M \in Int
  OBVIOUS
<1>2. x = (x % M) + M * (x \div M)
  OBVIOUS
<1> QED
  BY <1>1, <1>2

LEMMA OneRemainder ==
  ASSUME NEW M \in Int, M > 0, NEW r \in 0 .. M - 1, NEW s \in 0 .. M - 1,
         Same(M, r, s)
  PROVE  r = s
<1>1. PICK k \in Int : r = s + M * k
  BY DEF Same
<1>2. k < 1
  <2> SUFFICES ASSUME k >= 1 PROVE FALSE
    OBVIOUS
  <2>1. M * k >= M
    OBVIOUS
  <2> QED
    BY <1>1, <2>1
<1>3. k > -1
  <2> SUFFICES ASSUME k <= -1 PROVE FALSE
    OBVIOUS
  <2>1. M * k <= -M
    OBVIOUS
  <2> QED
    BY <1>1, <2>1
<1>4. k = 0
  BY <1>2, <1>3
<1> QED
  BY <1>1, <1>4

LEMMA SameReflexive ==
  ASSUME NEW M \in Int, NEW x \in Int
  PROVE  Same(M, x, x)
<1>1. 0 \in Int /\ x = x + M * 0
  OBVIOUS
<1> QED
  BY <1>1 DEF Same

LEMMA SameSymmetric ==
  ASSUME NEW M \in Int, NEW x \in Int, NEW y \in Int, Same(M, x, y)
  PROVE  Same(M, y, x)
<1>1. PICK k \in Int : x = y + M * k
  BY DEF Same
<1>2. -k \in Int /\ y = x + M * (-k)
  BY <1>1
<1> QED
  BY <1>2 DEF Same

LEMMA SameTransitive ==
  ASSUME NEW M \in Int, NEW x \in Int, NEW y \in Int, NEW z \in Int,
         Same(M, x, y), Same(M, y, z)
  PROVE  Same(M, x, z)
<1>1. PICK k \in Int : x = y + M * k
  BY DEF Same
<1>2. PICK j \in Int : y = z + M * j
  BY DEF Same
<1>3. k + j \in Int /\ x = z + M * (k + j)
  BY <1>1, <1>2
<1> QED
  BY <1>3 DEF Same

LEMMA SameSum ==
  ASSUME NEW M \in Int, NEW x \in Int, NEW y \in Int, NEW u \in Int,
         NEW v \in Int, Same(M, x, y), Same(M, u, v)
  PROVE  Same(M, x + u, y + v)
<1>1. PICK k \in Int : x = y + M * k
  BY DEF Same
<1>2. PICK j \in Int : u = v + M * j
  BY DEF Same
<1>3. k + j \in Int /\ x + u = (y + v) + M * (k + j)
  BY <1>1, <1>2
<1> QED
  BY <1>3 DEF Same

LEMMA SameProduct ==
  ASSUME NEW M \in Int, NEW x \in Int, NEW y \in Int, NEW f \in Int,
         Same(M, x, y)
  PROVE  Same(M, x * f, y * f)
<1>1. PICK k \in Int : x = y + M * k
  BY DEF Same
<1>2. (y + M * k) * f = y * f + M * (k * f)
  OBVIOUS
<1>3. k * f \in Int /\ x * f = y * f + M * (k * f)
  BY <1>1, <1>2
<1> QED
  BY <1>3 DEF Same

\* A multiple of a multiple of M is one of M.
LEMMA SameWider ==
  ASSUME NEW M \in Int, NEW N \in Int, M > 0, N % M = 0,
         NEW x \in Int, NEW y \in Int, Same(N, x, y)
  PROVE  Same(M, x, y)
<1>1. N \div M \in Int /\ N = M * (N \div M)
  BY Divide
<1>2. PICK k \in Int : x = y + N * k
  BY DEF Same
<1>3. (M * (N \div M)) * k = M * ((N \div M) * k)
  BY <1>1
<1>4. (N \div M) * k \in Int /\ x = y + M * ((N \div M) * k)
  BY <1>1, <1>2, <1>3
<1> QED
  BY <1>4 DEF Same

-----------------------------------------------------------------------------
(* Widths.                                                                 *)

\* The number of values of an int.
W == 2^IntBits

LEMMA Widths ==
  /\ W \in Int /\ W > 0 /\ 2^(IntBits - 1) \in Nat
  /\ 2^LongBits \in Int /\ 2^LongBits > 0 /\ 2^(LongBits - 1) \in Nat
  /\ W = 2 * 2^(IntBits - 1) /\ 2^LongBits = 2 * 2^(LongBits - 1)
  /\ 2^(LongBits - 1) >= 2^(IntBits - 1) /\ 2^LongBits % W = 0
<1>1. /\ 2^(IntBits - 1) \in Nat \ {0} /\ W = 2 * 2^(IntBits - 1)
      /\ 2^(LongBits - 1) \in Nat \ {0} /\ 2^LongBits = 2 * 2^(LongBits - 1)
      /\ 2^(LongBits - 1) >= 2^(IntBits - 1) /\ 2^LongBits % W = 0
  BY PowerAssumption DEF W
<1>2. W \in Int /\ W > 0 /\ 2^LongBits \in Int /\ 2^LongBits > 0
  BY <1>1
<1> QED
  BY <1>1, <1>2

\* What is kept of x in so many bits differs from x by a multiple of 2^bits.
LEMMA UnsignedKeeps ==
  ASSUME NEW bits, 2^bits \in Int, 2^bits > 0, NEW x \in Int
  PROVE  /\ Unsigned(x, bits) \in 0 .. 2^bits - 1
         /\ Same(2^bits, Unsigned(x, bits), x)
<1> DEFINE M == 2^bits
<1>1. /\ x % M \in 0 .. M - 1 /\ x \div M \in Int
      /\ x = (x % M) + M * (x \div M)
  BY Divide
<1>2. Same(M, x, x % M)
  BY <1>1 DEF Same
<1>3. Same(M, x % M, x)
  BY <1>1, <1>2, SameSymmetric
<1> QED
  BY <1>1, <1>3 DEF Unsigned

LEMMA SignedKeeps ==
  ASSUME NEW bits, 2^bits \in Int, 2^(bits - 1) \in Nat \ {0},
         2^bits = 2 * 2^(bits - 1), NEW x \in Int
  PROVE  /\ Signed(x, bits) \in -(2^(bits - 1)) .. 2^(bits - 1) - 1
         /\ Same(2^bits, Signed(x, bits), x)
         /\ x \in 0 .. 2^(bits - 1) - 1 => Signed(x, bits) = x
<1> DEFINE M == 2^bits
           H == 2^(bits - 1)
           u == x % M
<1>1. M \in Int /\ M > 0 /\ H \in Nat \ {0} /\ M = 2 * H
  OBVIOUS
<1>2. Signed(x, bits) = IF u < H THEN u ELSE u - M
  BY DEF Signed
<1>3. u \in 0 .. M - 1 /\ Same(M, u, x)
  BY <1>1, UnsignedKeeps DEF Unsigned
<1> HIDE DEF M, H, u
<1>4. Signed(x, bits) \in -H .. H - 1
  BY <1>1, <1>2, <1>3
<1>5. Same(M, u - M, u)
  <2>1. -1 \in Int /\ u - M = u + M * (-1)
    BY <1>1, <1>3
  <2> QED
    BY <2>1 DEF Same
<1>6. Same(M, Signed(x, bits), x)
  <2>1. Same(M, u - M, x)
    BY <1>1, <1>3, <1>5, SameTransitive
  <2> QED
    BY <1>2, <1>3, <2>1
<1>7. x \in 0 .. H - 1 => u = x
  BY <1>1, <1>3, OneRemainder
<1> QED
  BY <1>2, <1>4, <1>6, <1>7, <1>1 DEF M, H

LEMMA ValueKeeps ==
  ASSUME NEW x \in Int
  PROVE  /\ Value(x) \in IF type = "INT"
                           THEN -(2^(IntBits - 1)) .. 2^(IntBits - 1) - 1
                           ELSE 0 .. W - 1
         /\ Same(W, Value(x), x)
         /\ x \in 0 .. 2^(IntBits - 1) - 1 => Value(x) = x
<1>1. CASE type = "INT"
  BY <1>1, PowerAssumption, SignedKeeps DEF Value, W
<1>2. CASE type # "INT"
  <2>1. Unsigned(x, IntBits) \in 0 .. W - 1 /\ Same(W, Unsigned(x, IntBits), x)
    BY PowerAssumption, UnsignedKeeps DEF W
  <2>2. x \in 0 .. W - 1 => Unsigned(x, IntBits) = x
    BY <2>1, Widths, OneRemainder
  <2> QED
    BY <1>2, <2>1, <2>2, Widths DEF Value
<1> QED
  BY <1>1, <1>2

\* Numbers that differ by a multiple of the width have one value.
LEMMA ValueOfSame ==
  ASSUME NEW x \in Int, NEW y \in Int, Same(W, x, y)
  PROVE  Value(x) = Value(y)
<1>1. /\ x % W \in 0 .. W - 1 /\ Same(W, x % W, x)
      /\ y % W \in 0 .. W - 1 /\ Same(W, y % W, y)
  BY Widths, UnsignedKeeps DEF Unsigned, W
<1>2. Same(W, y, y % W)
  BY <1>1, Widths, SameSymmetric
<1>3. Same(W, x % W, y)
  BY <1>1, Widths, SameTransitive
<1>4. Same(W, x % W, y % W)
  BY <1>1, <1>2, <1>3, Widths, SameTransitive
<1>5. x % W = y % W
  BY <1>1, <1>4, Widths, OneRemainder
<1> QED
  BY <1>5 DEF Value, Signed, Unsigned, W

\* What is equal in the width of a long is equal in that of an int.
LEMMA LongIsWider ==
  ASSUME NEW s \in Int, NEW x \in Int, Same(2^LongBits, s, x)
  PROVE  Same(W, s, x)
<1> DEFINE N == 2^LongBits
<1>1. W \in Int /\ W > 0 /\ N \in Int /\ N % W = 0 /\ Same(N, s, x)
  BY Widths
<1> HIDE DEF N
<1> QED
  BY <1>1, SameWider

LEMMA StoredKeeps ==
  ASSUME NEW x \in Int
  PROVE  /\ Stored(x) \in IF kind = "CUMUL"
                            THEN -(2^(LongBits - 1)) .. 2^(LongBits - 1) - 1
                            ELSE 0 .. 2^LongBits - 1
         /\ Same(W, Stored(x), x)
         /\ kind = "CUMUL" /\ x \in 0 .. 2^(LongBits - 1) - 1 => Stored(x) = x
<1>1. CASE kind = "CUMUL"
  <2>1. /\ Signed(x, LongBits) \in -(2^(LongBits - 1)) .. 2^(LongBits - 1) - 1
        /\ Same(2^LongBits, Signed(x, LongBits), x)
        /\ x \in 0 .. 2^(LongBits - 1) - 1 => Signed(x, LongBits) = x
    BY PowerAssumption, SignedKeeps
  <2>2. Same(W, Signed(x, LongBits), x)
    BY <2>1, Widths, LongIsWider
  <2> QED
    BY <1>1, <2>1, <2>2 DEF Stored
<1>2. CASE kind # "CUMUL"
  <2>1. /\ Unsigned(x, LongBits) \in 0 .. 2^LongBits - 1
        /\ Same(2^LongBits, Unsigned(x, LongBits), x)
    BY Widths, UnsignedKeeps
  <2>2. Same(W, Unsigned(x, LongBits), x)
    BY <2>1, Widths, LongIsWider
  <2> QED
    BY <1>2, <2>1, <2>2 DEF Stored
<1> QED
  BY <1>1, <1>2

-----------------------------------------------------------------------------
(* Types.                                                                  *)

CounterRange ==
  IF kind = "CUMUL" THEN -(2^(LongBits - 1)) .. 2^(LongBits - 1) - 1
                    ELSE 0 .. 2^LongBits - 1

ReportRange == -(2^(LongBits - 1)) .. 2^LongBits - 1

LEMMA ReadingType ==
  ASSUME NEW v \in Readings
  PROVE  /\ v \in IF type = "INT"
                    THEN -(2^(IntBits - 1)) .. 2^(IntBits - 1) - 1
                    ELSE 0 .. W - 1
         /\ v \in Int
<1>1. PICK x \in 0 .. W - 1 : v = Value(x)
  BY DEF Readings, W
<1>2. x \in Int
  BY Widths
<1> QED
  BY <1>1, <1>2, ValueKeeps, Widths

LEMMA ZeroReading == 0 \in Readings
<1>1. 0 \in 0 .. W - 1 /\ 0 \in 0 .. 2^(IntBits - 1) - 1
  BY PowerAssumption, Widths
<1>2. Value(0) = 0
  BY <1>1, ValueKeeps
<1> QED
  BY <1>1, <1>2 DEF Readings, W

LEMMA UpdatedType ==
  ASSUME TypeOK, NEW v \in Readings
  PROVE  Updated(v) \in CounterRange
<1>1. counter \in CounterRange /\ counter \in Int
  BY Widths DEF TypeOK, CounterRange
<1>2. v - currentData \in Int
  BY ReadingType DEF TypeOK
<1>3. Value(v - currentData) \in Int
  BY <1>2, ValueKeeps, Widths
<1>4. /\ Stored(counter + 1) \in CounterRange
      /\ Stored(counter + Value(v - currentData)) \in CounterRange
  <2>1. \A x \in Int : Stored(x) \in CounterRange
    BY StoredKeeps DEF CounterRange
  <2> QED
    BY <1>1, <1>3, <2>1
<1>5. 0 \in CounterRange
  BY PowerAssumption, Widths DEF CounterRange
<1> QED
  BY <1>1, <1>4, <1>5 DEF Updated

LEMMA ReportedType ==
  ASSUME TypeOK, NEW v \in Readings, NEW n \in Int, NEW f \in Int
  PROVE  Reported(v, n, f) \in ReportRange
<1>1. counterGet(v, n) \in Int
  BY ReadingType, ValueKeeps, Widths DEF counterGet
<1>2. counterGet(v, n) * f \in Int
  BY <1>1
<1>3. Value(counterGet(v, n) * f)
        \in IF type = "INT" THEN -(2^(IntBits - 1)) .. 2^(IntBits - 1) - 1
                            ELSE 0 .. W - 1
  BY <1>2, ValueKeeps
<1>4. Value(counterGet(v, n) * f) \in Int
  BY <1>3, Widths
<1>5. Signed(Value(counterGet(v, n) * f), LongBits) \in ReportRange
  BY <1>4, PowerAssumption, Widths, SignedKeeps DEF ReportRange
<1>6. type = "INT" => Value(counterGet(v, n) * f) \in ReportRange
  BY <1>3, Widths DEF ReportRange
<1>7. type = "OTHER" => v \in ReportRange
  BY ReadingType, Widths DEF ReportRange
<1> QED
  BY <1>5, <1>6, <1>7 DEF Reported, TypeOK, Types

LEMMA GainType ==
  ASSUME TypeOK, NEW v \in Readings
  PROVE  Gain(v) \in Int
BY ReadingType DEF Gain, TypeOK

LEMMA TypeInit == Init => TypeOK
<1> SUFFICES ASSUME Init PROVE TypeOK
  OBVIOUS
<1>1. 0 \in Readings
  BY ZeroReading
<1>2. counter \in CounterRange
  BY PowerAssumption, Widths DEF Init, counterAdd, NotStarted, CounterRange
<1>3. report \in ReportRange
  BY Widths DEF Init, ReportRange
<1>4. /\ started \in BOOLEAN /\ heard \in BOOLEAN /\ readings \in 0 .. MaxReadings
      /\ invented \in BOOLEAN /\ exact \in Int /\ wrapped \in BOOLEAN /\ mistaken \in BOOLEAN
      /\ currentData \in Readings /\ last \in Readings
  <2>1. readings \in 0 .. MaxReadings
    BY CounterAssumption DEF Init
  <2>2. /\ wrapped \in BOOLEAN /\ mistaken \in BOOLEAN /\ started \in BOOLEAN
        /\ heard \in BOOLEAN /\ invented \in BOOLEAN
    BY DEF Init
  <2>3. exact \in Int
    BY DEF Init
  <2> QED
    BY <1>1, <2>1, <2>2, <2>3 DEF Init, counterAdd
<1> QED
  BY <1>2, <1>3, <1>4
     DEF Init, TypeOK, Types, CounterRange, ReportRange

\* What an update does to the counter and to the report.
LEMMA UpdateType ==
  ASSUME TypeOK, NEW v \in Readings, NEW f \in Int, counterUpdate(v, f)
  PROVE  /\ kind' = kind /\ type' = type /\ Readings' = Readings
         /\ counter' \in CounterRange /\ report' \in ReportRange
         /\ started' = TRUE /\ currentData' \in Readings
         /\ readings' \in 0 .. MaxReadings
<1>1. kind' = kind /\ type' = type /\ Readings' = Readings /\ started' = TRUE
  BY DEF counterUpdate, Readings, Value
<1>2. Updated(v) \in CounterRange /\ Updated(v) \in Int
  BY UpdatedType, Widths DEF CounterRange
<1>3. counter' \in CounterRange /\ report' \in ReportRange
  BY <1>2, ReportedType DEF counterUpdate
<1>4. readings' \in 0 .. MaxReadings
  BY CounterAssumption DEF counterUpdate, TypeOK
<1>5. currentData' \in Readings
  BY DEF counterUpdate, TypeOK
<1> QED
  BY <1>1, <1>3, <1>4, <1>5

LEMMA TypeStep == TypeOK /\ [Next]_vars => TypeOK'
<1> SUFFICES ASSUME TypeOK, [Next]_vars PROVE TypeOK'
  OBVIOUS
<1>0. Factor \in Int /\ 1 \in Int
  BY CounterAssumption
<1>1. ASSUME NEW v \in Readings, Receive(v)
      PROVE  TypeOK'
  <2>1. /\ kind' = kind /\ type' = type /\ Readings' = Readings
        /\ counter' \in CounterRange /\ report' \in ReportRange
        /\ started' = TRUE /\ currentData' \in Readings
        /\ readings' \in 0 .. MaxReadings
    BY <1>0, <1>1, UpdateType DEF Receive
  <2>2. exact' \in Int /\ last' \in Readings
    BY <1>1, GainType DEF Receive, TypeOK
  <2>3. /\ wrapped' \in BOOLEAN /\ mistaken' \in BOOLEAN /\ heard' \in BOOLEAN
        /\ invented' \in BOOLEAN
    BY <1>1 DEF Receive, TypeOK
  <2> QED
    BY <2>1, <2>2, <2>3 DEF TypeOK, CounterRange, ReportRange
<1>2. CASE SurveyFails
  <2>1. /\ kind' = kind /\ type' = type /\ Readings' = Readings
        /\ counter' \in CounterRange /\ report' \in ReportRange
        /\ started' = TRUE /\ currentData' \in Readings
        /\ readings' \in 0 .. MaxReadings
    BY <1>0, <1>2, ZeroReading, UpdateType DEF SurveyFails
  <2>2. /\ invented' \in BOOLEAN
        /\ UNCHANGED <<heard, last, exact, wrapped, mistaken>>
    BY <1>2 DEF SurveyFails
  <2> QED
    BY <2>1, <2>2 DEF TypeOK, CounterRange, ReportRange
<1>3. CASE counterReset
  <2>1. counter' \in CounterRange
    BY <1>3, PowerAssumption, Widths DEF counterReset, TypeOK, CounterRange
  <2>2. kind' = kind /\ type' = type /\ Readings' = Readings
    BY <1>3 DEF counterReset, Readings, Value
  <2>3. exact' \in Int /\ readings' \in 0 .. MaxReadings
    BY <1>3, CounterAssumption DEF counterReset, NoteReport
  <2>4. /\ wrapped' \in BOOLEAN /\ mistaken' \in BOOLEAN /\ invented' \in BOOLEAN
        /\ UNCHANGED <<currentData, report, last, started, heard>>
    BY <1>3 DEF counterReset, NoteReport
  <2> QED
    BY <2>1, <2>2, <2>3, <2>4 DEF TypeOK, CounterRange
<1>4. CASE UNCHANGED vars
  BY <1>4 DEF vars, TypeOK, Readings, Value
<1> QED
  BY <1>1, <1>2, <1>3, <1>4 DEF Next

\* The variables keep their types; in particular the counter keeps the width of
\* its C type and the report that of a long or of an unsigned long.
THEOREM CounterTypes == Spec => []TypeOK
BY TypeInit, TypeStep, PTL DEF Spec

-----------------------------------------------------------------------------
(* Exactness.                                                              *)

\* The number of values of a long that are not negative.
H == 2^(LongBits - 1)

\* Differences are taken from the last reading.
LastKept == kind # "NONE" /\ type # "OTHER" => currentData = last

\* Before the survey, before the first answer, and for a type that has no
\* counters.
StartKept ==
  /\ ~started => /\ readings = 0 /\ ~mistaken /\ ~invented
                 /\ counter = IF kind = "CUMUL" THEN NotStarted ELSE 0
  /\ heard => started
  /\ ~heard => /\ last = 0 /\ exact = 0
               /\ kind = "CUMUL" /\ started => invented
  /\ kind # "CUMUL" => ~mistaken
  /\ kind = "CUMUL" /\ type = "OTHER" => ~mistaken /\ (started => counter = 0)

\* A counter that nothing has gone wrong with since the last accepted report.
Sound == type # "OTHER" /\ ~wrapped /\ ~mistaken

\* The counter and the exact count are the same in the width of an int, unless
\* a failed survey is in the counter.
SumKept ==
  Sound /\ ~invented /\ kind # "NONE" /\ (kind = "CUMUL" => started)
    => Same(W, counter, exact)

\* A cumulated counter holds no more than its readings can add, if a long can
\* hold that; with an int, it is the exact count, if a long can hold that.
LevelKept ==
  Sound /\ kind = "CUMUL" /\ started =>
    /\ readings * W <= H => counter \in 0 .. readings * (W - 1)
    /\ type = "INT" /\ ~invented => exact \in Nat /\ (exact < H => counter = exact)

CInv ==
  /\ TypeOK
  /\ LastKept /\ StartKept /\ SumKept /\ LevelKept /\ FullWhenMistaken

LEMMA Numbers ==
  ASSUME TypeOK
  PROVE  /\ counter \in Int /\ exact \in Int /\ readings \in Nat /\ last \in Int
         /\ currentData \in Int /\ kind \in {"NONE", "DIFFERENCE", "CUMUL_NOT_100", "CUMUL"}
         /\ type \in {"INT", "DWORD", "OTHER"}
         /\ wrapped \in BOOLEAN /\ mistaken \in BOOLEAN /\ started \in BOOLEAN
         /\ heard \in BOOLEAN /\ invented \in BOOLEAN
         /\ W \in Int /\ W > 0 /\ H \in Nat /\ H > 0
<1>1. H \in Nat /\ H > 0
  BY PowerAssumption DEF H
<1> QED
  BY <1>1, Widths, ReadingType, CounterAssumption DEF TypeOK, Types, H

LEMMA FullInWidths ==
  FullWhenMistaken <=>
    (mistaken => \/ wrapped
                 \/ readings * W > H /\ (type = "INT" /\ ~invented => exact >= H))
BY DEF FullWhenMistaken, W, H

LEMMA FullInWidthsNext ==
  FullWhenMistaken' <=>
    (mistaken' => \/ wrapped'
                  \/ /\ readings' * W > H
                     /\ type' = "INT" /\ ~invented' => exact' >= H)
BY DEF FullWhenMistaken, W, H

\* A counted difference is the gain in the width of an int, and no more than
\* an int holds; what is not counted is no gain; and the gains of an int are
\* rises, which an int holds.
LEMMA DifferenceIsGain ==
  ASSUME TypeOK, kind \in {"DIFFERENCE", "CUMUL"}, type # "OTHER",
         currentData = last,
         NEW v \in Readings, ~(type = "INT" /\ v - last >= 2^(IntBits - 1))
  PROVE  /\ Counted(v) => Value(v - currentData) \in 0 .. W - 1
         /\ (kind = "CUMUL" => heard) =>
              /\ Counted(v) => Same(W, Value(v - currentData), Gain(v))
              /\ ~Counted(v) => Gain(v) = 0
              /\ type = "INT" => /\ Gain(v) \in Nat
                                 /\ Counted(v) => Value(v - currentData) = Gain(v)
<1>1. v \in Int /\ last \in Int /\ v - currentData \in Int
  BY ReadingType DEF TypeOK
<1>2. (kind = "CUMUL" => heard) /\ Counted(v) => Gain(v) = v - currentData
  BY <1>1 DEF Counted, Gain, TypeOK, Types
<1>3. (kind = "CUMUL" => heard) /\ ~Counted(v) => Gain(v) = 0
  BY <1>1 DEF Counted, Gain, TypeOK, Types
<1>4. Same(W, Value(v - currentData), v - currentData)
  BY <1>1, ValueKeeps
<1>5. ASSUME Counted(v), type = "INT"
      PROVE  /\ v - currentData \in 0 .. 2^(IntBits - 1) - 1
             /\ Value(v - currentData) = v - currentData
  <2>1. v - currentData \in 0 .. 2^(IntBits - 1) - 1
    BY <1>1, <1>5, Widths DEF Counted
  <2> QED
    BY <1>1, <2>1, ValueKeeps
<1>6. ASSUME Counted(v)
      PROVE  Value(v - currentData) \in 0 .. W - 1
  <2>1. CASE type = "INT"
    BY <1>5, <1>6, <2>1, Widths
  <2>2. CASE type # "INT"
    BY <1>1, <2>2, ValueKeeps
  <2> QED
    BY <2>1, <2>2
<1>7. ASSUME type = "INT", kind = "CUMUL" => heard
      PROVE  Gain(v) \in Nat
  <2>1. CASE Counted(v)
    BY <1>1, <1>2, <1>5, <1>7, <2>1, Widths
  <2>2. CASE ~Counted(v)
    BY <1>3, <1>7, <2>2
  <2> QED
    BY <2>1, <2>2
<1> QED
  BY <1>2, <1>3, <1>4, <1>5, <1>6, <1>7

-----------------------------------------------------------------------------
(* One update of the counter, conjunct by conjunct.                        *)

\* A reading that is not refused is remembered, and one without a wrap or a
\* mistake had none before.
LEMMA UpdateNotes ==
  ASSUME TypeOK, NEW v \in Readings, Receive(v)
  PROVE  /\ kind' = kind /\ type' = type /\ counter' = Updated(v)
         /\ started' = TRUE /\ heard' = TRUE /\ invented' = invented
         /\ last' = v /\ exact' = exact + Gain(v)
         /\ readings' = readings + 1 /\ Gain(v) \in Int
         /\ type # "OTHER" => currentData' = v
         /\ ~wrapped' <=> (~wrapped /\ ~(type = "INT" /\ v - last >= 2^(IntBits - 1)))
         /\ ~mistaken' <=>
              (~mistaken /\ ~(started /\ kind = "CUMUL" /\ counter = NotStarted))
<1>1. type # "OTHER" => currentData' = v
  BY DEF Receive, counterUpdate, Refused
<1> QED
  BY <1>1, GainType DEF Receive, counterUpdate

LEMMA StartKeptUpdate ==
  ASSUME CInv, NEW v \in Readings, Receive(v)
  PROVE  LastKept' /\ StartKept'
<1>0. TypeOK /\ StartKept
  BY DEF CInv
<1>1. LastKept'
  BY <1>0, UpdateNotes DEF LastKept
<1>2. kind # "CUMUL" => ~mistaken'
  BY <1>0, UpdateNotes DEF StartKept
<1>3. ASSUME kind = "CUMUL", type = "OTHER"
      PROVE  ~mistaken' /\ counter' = 0
  <2>1. ~mistaken /\ (started => counter = 0) /\ (~started => counter = NotStarted)
    BY <1>0, <1>3 DEF StartKept
  <2>2. started \in BOOLEAN
    BY <1>0, Numbers
  <2>3. ~mistaken'
    <3>1. ~(started /\ kind = "CUMUL" /\ counter = NotStarted)
      BY <2>1 DEF NotStarted
    <3> QED
      BY <1>0, <2>1, <3>1, UpdateNotes
  <2>4. Updated(v) = 0
    BY <1>3, <2>1, <2>2 DEF Updated, Refused, NotStarted
  <2> QED
    BY <1>0, <2>3, <2>4, UpdateNotes
<1> QED
  BY <1>0, <1>1, <1>2, <1>3, UpdateNotes DEF StartKept

\* The first reading of a cumulated counter sets it to zero, and adds nothing.
LEMMA FirstReading ==
  ASSUME CInv, NEW v \in Readings, Receive(v),
         kind = "CUMUL", type # "OTHER", ~started
  PROVE  counter' = 0 /\ exact' = 0 /\ readings' = 1
<1>0. TypeOK
  BY DEF CInv
<1>1. counter = NotStarted /\ exact = 0 /\ readings = 0 /\ ~heard
  BY <1>0, Numbers DEF CInv, StartKept
<1>2. Updated(v) = 0
  BY <1>1 DEF Updated, Refused
<1>3. Gain(v) = 0
  BY <1>1 DEF Gain
<1>4. counter' = Updated(v) /\ exact' = exact + Gain(v) /\ readings' = readings + 1
  BY <1>0, UpdateNotes
<1> QED
  BY <1>1, <1>2, <1>3, <1>4

\* Of a counter of differences that has started, and was sound.
LEMMA SumOfDifferences ==
  ASSUME CInv, NEW v \in Readings, Receive(v), Sound',
         kind \in {"DIFFERENCE", "CUMUL"}, kind = "CUMUL" => started
  PROVE  /\ Sound /\ currentData = last
         /\ ~(type = "INT" /\ v - last >= 2^(IntBits - 1))
         /\ counter' = IF Counted(v) THEN Stored(counter + Value(v - currentData))
                                     ELSE counter
<1>0. TypeOK
  BY DEF CInv
<1>1. Sound /\ ~(type = "INT" /\ v - last >= 2^(IntBits - 1))
      /\ (kind = "CUMUL" => counter # NotStarted)
  BY <1>0, UpdateNotes DEF Sound
<1>2. currentData = last
  BY <1>1 DEF CInv, LastKept, Sound
<1>3. ~Refused /\ kind \notin {"NONE", "CUMUL_NOT_100"}
  BY <1>1 DEF Refused, Sound
<1>4. Updated(v) = IF Counted(v) THEN Stored(counter + Value(v - currentData))
                                 ELSE counter
  BY <1>1, <1>3 DEF Updated
<1> QED
  BY <1>0, <1>1, <1>2, <1>4, UpdateNotes

LEMMA SumKeptUpdate ==
  ASSUME CInv, NEW v \in Readings, Receive(v),
         Sound', ~invented', kind # "NONE"
  PROVE  Same(W, counter', exact')
<1>0. TypeOK /\ SumKept /\ StartKept
  BY DEF CInv
<1>1. /\ counter \in Int /\ exact \in Int /\ Gain(v) \in Int /\ W \in Int
      /\ Sound /\ kind \in {"DIFFERENCE", "CUMUL_NOT_100", "CUMUL"}
      /\ counter' = Updated(v) /\ exact' = exact + Gain(v) /\ ~invented
  BY <1>0, Numbers, UpdateNotes DEF Sound
<1>2. CASE kind = "CUMUL" /\ ~started
  <2>1. counter' = 0 /\ exact' = 0
    BY <1>1, <1>2, FirstReading DEF Sound
  <2> QED
    BY <1>1, <2>1, SameReflexive
<1>3. CASE kind = "CUMUL_NOT_100"
  <2>0. Same(W, counter, exact) /\ ~Refused
    BY <1>0, <1>1, <1>3 DEF SumKept, Refused, Sound
  <2>1. CASE v = Hundred
    BY <1>1, <1>3, <2>0, <2>1 DEF Updated, Gain, Sound
  <2>2. CASE v # Hundred
    <3>1. counter' = Stored(counter + 1) /\ exact' = exact + 1
      BY <1>1, <1>3, <2>0, <2>2 DEF Updated, Gain, Sound
    <3>2. Same(W, Stored(counter + 1), counter + 1) /\ Stored(counter + 1) \in Int
      BY <1>1, StoredKeeps, Widths
    <3>3. Same(W, counter + 1, exact + 1)
      <4>1. Same(W, 1, 1)
        BY <1>1, SameReflexive
      <4> QED
        BY <1>1, <2>0, <4>1, SameSum
    <3> QED
      BY <1>1, <3>1, <3>2, <3>3, SameTransitive
  <2> QED
    BY <2>1, <2>2
<1>4. CASE kind \in {"DIFFERENCE", "CUMUL"} /\ (kind = "CUMUL" => started)
  <2> DEFINE d == Value(v - currentData)
  <2>0. Same(W, counter, exact)
    BY <1>0, <1>1, <1>4 DEF SumKept
  <2>1. /\ currentData = last /\ ~(type = "INT" /\ v - last >= 2^(IntBits - 1))
        /\ counter' = IF Counted(v) THEN Stored(counter + d) ELSE counter
    BY <1>4, SumOfDifferences
  <2>h. kind = "CUMUL" => heard
    BY <1>0, <1>1, <1>4, Numbers DEF StartKept
  <2>2. /\ Counted(v) => Same(W, d, Gain(v)) /\ d \in 0 .. W - 1
        /\ ~Counted(v) => Gain(v) = 0
    BY <1>0, <1>1, <1>4, <2>1, <2>h, DifferenceIsGain DEF Sound
  <2> HIDE DEF d
  <2>3. CASE Counted(v)
    <3>1. d \in Int /\ Same(W, d, Gain(v))
      BY <1>1, <2>2, <2>3
    <3>2. Same(W, counter + d, exact + Gain(v))
      BY <1>1, <2>0, <3>1, SameSum
    <3>3. Same(W, Stored(counter + d), counter + d) /\ Stored(counter + d) \in Int
      BY <1>1, <3>1, StoredKeeps, Widths
    <3> QED
      BY <1>1, <2>1, <2>3, <3>1, <3>2, <3>3, SameTransitive
  <2>4. CASE ~Counted(v)
    BY <1>1, <2>0, <2>1, <2>2, <2>4
  <2> QED
    BY <2>3, <2>4
<1> QED
  BY <1>1, <1>2, <1>3, <1>4

\* One reading more.
LEMMA OneMore ==
  ASSUME NEW n \in Nat, NEW w \in Int, w > 0
  PROVE  /\ (n + 1) * w = n * w + w /\ n * w \in Int
         /\ (n + 1) * (w - 1) = n * (w - 1) + (w - 1) /\ n * (w - 1) \in Nat
         /\ n * (w - 1) + n = n * w
OBVIOUS

LEMMA LevelKeptUpdate ==
  ASSUME CInv, NEW v \in Readings, Receive(v),
         Sound', kind = "CUMUL"
  PROVE  /\ readings' * W <= H => counter' \in 0 .. readings' * (W - 1)
         /\ type = "INT" /\ ~invented' =>
              exact' \in Nat /\ (exact' < H => counter' = exact')
<1>0. TypeOK /\ LevelKept /\ StartKept
  BY DEF CInv
<1>1. /\ counter \in Int /\ exact \in Int /\ readings \in Nat /\ Gain(v) \in Int
      /\ W \in Int /\ W > 0 /\ H \in Nat /\ started \in BOOLEAN /\ Sound
      /\ exact' = exact + Gain(v) /\ readings' = readings + 1
      /\ invented' = invented
  BY <1>0, Numbers, UpdateNotes DEF Sound
<1>2. CASE ~started
  <2>1. counter' = 0 /\ exact' = 0 /\ readings' = 1
    BY <1>1, <1>2, FirstReading DEF Sound
  <2>2. 1 * (W - 1) = W - 1
    BY <1>1
  <2> QED
    BY <1>1, <2>1, <2>2
<1>3. CASE started
  <2> DEFINE d == Value(v - currentData)
  <2>1. /\ currentData = last /\ ~(type = "INT" /\ v - last >= 2^(IntBits - 1))
        /\ counter' = IF Counted(v) THEN Stored(counter + d) ELSE counter
    BY <1>3, SumOfDifferences
  <2>2. /\ Counted(v) => d \in 0 .. W - 1
        /\ ~invented => /\ ~Counted(v) => Gain(v) = 0
                        /\ type = "INT" => /\ Gain(v) \in Nat
                                           /\ Counted(v) => d = Gain(v)
    <3>1. ~invented => heard
      BY <1>0, <1>3, Numbers DEF StartKept
    <3> QED
      BY <1>0, <1>1, <1>3, <2>1, <3>1, DifferenceIsGain DEF Sound
  <2> HIDE DEF d
  <2>3. /\ readings * W <= H => counter \in 0 .. readings * (W - 1)
        /\ type = "INT" /\ ~invented =>
             exact \in Nat /\ (exact < H => counter = exact)
    BY <1>0, <1>1, <1>3 DEF LevelKept
  <2>4. ASSUME Counted(v), counter + d \in 0 .. H - 1
        PROVE  counter' = counter + d
    <3>1. counter + d \in Int
      BY <1>1, <2>2, <2>4
    <3>2. Stored(counter + d) = counter + d
      BY <2>4, <3>1, StoredKeeps DEF H
    <3> QED
      BY <2>1, <2>4, <3>2
  <2>5. ASSUME readings' * W <= H
        PROVE  counter' \in 0 .. readings' * (W - 1)
    <3>1. /\ (readings + 1) * W = readings * W + W /\ readings * W \in Int
          /\ (readings + 1) * (W - 1) = readings * (W - 1) + (W - 1)
          /\ readings * (W - 1) \in Nat
          /\ readings * (W - 1) + readings = readings * W
      BY <1>1, OneMore
    <3>2. /\ readings' * W = readings * W + W
          /\ readings' * (W - 1) = readings * (W - 1) + (W - 1)
      BY <1>1, <3>1
    <3>3. /\ counter >= 0 /\ counter <= readings * (W - 1)
          /\ readings * (W - 1) + (W - 1) < H
      BY <1>1, <2>3, <2>5, <3>1, <3>2
    <3>4. CASE Counted(v)
      <4>1. d \in Int /\ d >= 0 /\ d <= W - 1
        BY <1>1, <2>2, <3>4
      <4>2. counter + d \in 0 .. H - 1
        BY <1>1, <3>1, <3>3, <4>1
      <4> QED
        BY <1>1, <2>4, <3>1, <3>2, <3>3, <3>4, <4>1, <4>2
    <3>5. CASE ~Counted(v)
      BY <1>1, <2>1, <3>1, <3>2, <3>3, <3>5
    <3> QED
      BY <3>4, <3>5
  <2>6. ASSUME type = "INT", ~invented
        PROVE  exact' \in Nat /\ (exact' < H => counter' = exact')
    <3>1. exact \in Nat /\ Gain(v) \in Nat
      BY <2>2, <2>3, <2>6
    <3> SUFFICES ASSUME exact + Gain(v) < H PROVE counter' = exact + Gain(v)
      BY <1>1, <3>1
    <3>2. counter = exact
      BY <1>1, <2>3, <2>6, <3>1
    <3>3. CASE Counted(v)
      BY <1>1, <2>2, <2>4, <2>6, <3>1, <3>2, <3>3
    <3>4. CASE ~Counted(v)
      BY <1>1, <2>1, <2>2, <2>6, <3>2, <3>4
    <3> QED
      BY <3>3, <3>4
  <2> QED
    BY <1>1, <2>5, <2>6
<1> QED
  BY <1>1, <1>2, <1>3

\* A mistake needs a counter that is at the mark again, which a cumulated one
\* is not while a long holds what it has added; and a mistake stays excused.
LEMMA FullUpdate ==
  ASSUME CInv, NEW v \in Readings, Receive(v)
  PROVE  FullWhenMistaken'
<1> SUFFICES ASSUME mistaken', ~wrapped'
             PROVE  /\ readings' * W > H
                    /\ type = "INT" /\ ~invented => exact' >= H
  <2>1. type' = type /\ invented' = invented
    BY DEF Receive, counterUpdate
  <2> QED
    BY <2>1, FullInWidthsNext
<1>0. TypeOK /\ LevelKept /\ FullWhenMistaken /\ StartKept /\ LastKept
  BY DEF CInv
<1>1. /\ counter \in Int /\ exact \in Int /\ readings \in Nat /\ Gain(v) \in Int
      /\ W \in Int /\ W > 0 /\ H \in Nat /\ started \in BOOLEAN
      /\ exact' = exact + Gain(v) /\ readings' = readings + 1
      /\ ~wrapped /\ ~(type = "INT" /\ v - last >= 2^(IntBits - 1))
  BY <1>0, Numbers, UpdateNotes
<1>2. mistaken \/ (started /\ kind = "CUMUL" /\ counter = NotStarted)
  BY <1>0, UpdateNotes
<1>3. kind = "CUMUL" /\ type # "OTHER" /\ started
  BY <1>0, <1>1, <1>2 DEF StartKept, NotStarted
<1>4. readings * W > H /\ (type = "INT" /\ ~invented => exact >= H)
  <2>1. CASE mistaken
    BY <1>0, <1>1, <2>1, FullInWidths
  <2>2. CASE ~mistaken /\ counter = -1
    <3>1. Sound
      BY <1>1, <1>3, <2>2 DEF Sound
    <3>2. /\ readings * W <= H => counter \in 0 .. readings * (W - 1)
          /\ type = "INT" /\ ~invented => exact \in Nat /\ (exact < H => counter = exact)
      BY <1>0, <1>3, <3>1 DEF LevelKept
    <3>3. readings * W \in Int
      BY <1>1, OneMore
    <3> QED
      BY <1>1, <2>2, <3>2, <3>3
  <2> QED
    BY <1>2, <2>1, <2>2 DEF NotStarted
<1>5. (readings + 1) * W = readings * W + W /\ readings * W \in Int
  BY <1>1, OneMore
<1>6. type = "INT" /\ ~invented => Gain(v) \in Nat
  <2>1. currentData = last
    BY <1>0, <1>3 DEF LastKept
  <2>2. ~invented => heard
    BY <1>0, <1>3, Numbers DEF StartKept
  <2> QED
    BY <1>0, <1>1, <1>3, <2>1, <2>2, DifferenceIsGain
<1>7. readings' * W > H
  BY <1>1, <1>4, <1>5
<1>8. type = "INT" /\ ~invented => exact' >= H
  BY <1>1, <1>4, <1>6
<1> QED
  BY <1>7, <1>8

\* A failed survey: what it counts is of no reading, and it is the first.
LEMMA SurveyKept ==
  ASSUME CInv, SurveyFails
  PROVE  LastKept' /\ StartKept' /\ SumKept' /\ LevelKept' /\ FullWhenMistaken'
<1>0. TypeOK
  BY DEF CInv
<1>1. /\ ~heard /\ last = 0 /\ exact = 0 /\ readings = 0 /\ ~mistaken
      /\ counter = IF kind = "CUMUL" THEN NotStarted ELSE 0
  BY <1>0, Numbers DEF CInv, StartKept, SurveyFails
<1>2. /\ UNCHANGED <<kind, type, heard, last, exact, wrapped, mistaken>>
      /\ started' = TRUE /\ readings' = 1 /\ counter' = Updated(0)
      /\ currentData' = IF Refused THEN currentData ELSE 0
      /\ invented' = (kind \in {"CUMUL_NOT_100", "CUMUL"})
  BY <1>1 DEF SurveyFails, counterUpdate
<1>3. kind = "CUMUL" => counter' = 0
  BY <1>1, <1>2 DEF Updated, Refused
<1>4. LastKept'
  BY <1>1, <1>2 DEF LastKept, Refused
<1>5. StartKept'
  BY <1>1, <1>2, <1>3 DEF StartKept
<1>6. SumKept'
  <2> SUFFICES ASSUME Sound', ~invented', kind # "NONE"
               PROVE  Same(W, counter', exact')
    <3>1. Same(W, counter, exact)' <=> Same(W, counter', exact')
      BY DEF Same, W
    <3> QED
      BY <1>2, <3>1 DEF SumKept
  <2>1. kind = "DIFFERENCE" /\ type # "OTHER"
    BY <1>0, <1>2, Numbers DEF Sound
  <2>2. currentData = 0
    BY <1>1, <2>1 DEF CInv, LastKept
  <2>3. counter' = 0
    BY <1>1, <1>2, <2>1, <2>2 DEF Updated, Counted
  <2> QED
    BY <1>1, <1>2, <2>3, Widths, SameReflexive
<1>7. LevelKept'
  <2>1. W' = W /\ H' = H /\ 0 \in 0 .. 1 * (W - 1)
    BY Widths DEF W, H
  <2> QED
    BY <1>2, <1>3, <2>1 DEF LevelKept
<1>8. FullWhenMistaken'
  BY <1>1, <1>2 DEF FullWhenMistaken
<1> QED
  BY <1>4, <1>5, <1>6, <1>7, <1>8

-----------------------------------------------------------------------------
LEMMA CInvInit == Init => CInv
<1> SUFFICES ASSUME Init PROVE CInv
  OBVIOUS
<1>1. Same(W, 0, 0)
  BY Widths, SameReflexive
<1>2. TypeOK
  BY TypeInit
<1>3. LastKept /\ StartKept /\ FullWhenMistaken /\ LevelKept
  BY DEF Init, counterAdd, LastKept, StartKept, FullWhenMistaken, LevelKept
<1>4. SumKept
  BY <1>1 DEF Init, counterAdd, SumKept
<1> QED
  BY <1>2, <1>3, <1>4 DEF CInv

LEMMA CInvStep == CInv /\ [Next]_vars => CInv'
<1> SUFFICES ASSUME CInv, [Next]_vars PROVE CInv'
  OBVIOUS
<1>0. TypeOK /\ TypeOK' /\ W' = W /\ H' = H
  BY TypeStep DEF CInv, W, H
<1>s. Same(W, counter, exact)' <=> Same(W, counter', exact')
  BY DEF Same, W
<1>1. ASSUME NEW v \in Readings, Receive(v)
      PROVE  CInv'
  <2>1. Receive(v)
    BY <1>1
  <2>2. kind' = kind /\ type' = type
    BY <2>1 DEF Receive, counterUpdate
  <2>3. SumKept'
    BY <1>s, <2>1, <2>2, SumKeptUpdate DEF SumKept
  <2>4. LevelKept'
    <3> SUFFICES ASSUME Sound', kind = "CUMUL"
                 PROVE  /\ readings' * W <= H => counter' \in 0 .. readings' * (W - 1)
                        /\ type = "INT" /\ ~invented' =>
                             exact' \in Nat /\ (exact' < H => counter' = exact')
      BY <1>0, <2>2 DEF LevelKept
    <3> QED
      BY <2>1, LevelKeptUpdate
  <2> QED
    BY <1>0, <2>1, <2>3, <2>4, StartKeptUpdate, FullUpdate DEF CInv
<1>2. CASE SurveyFails
  BY <1>0, <1>2, SurveyKept DEF CInv
<1>3. CASE counterReset
  <2>1. /\ started /\ UNCHANGED <<kind, type, currentData, started, heard, last>>
        /\ counter' = IF kind = "NONE" THEN counter ELSE 0
        /\ exact' = 0 /\ ~wrapped' /\ ~mistaken' /\ readings' = 0
        /\ invented' = (invented /\ kind = "CUMUL" /\ ~heard)
    BY <1>3 DEF counterReset, NoteReport
  <2>2. LastKept' /\ StartKept' /\ FullWhenMistaken'
    BY <2>1 DEF CInv, LastKept, StartKept, FullWhenMistaken
  <2>3. Same(W, 0, 0) /\ 0 \in 0 .. 0 * (W - 1)
    BY Widths, SameReflexive
  <2>4. SumKept'
    BY <1>s, <2>1, <2>3 DEF SumKept
  <2>5. LevelKept'
    BY <1>0, <2>1, <2>3 DEF LevelKept
  <2> QED
    BY <1>0, <2>2, <2>4, <2>5 DEF CInv
<1>4. CASE UNCHANGED vars
  <2>1. UNCHANGED <<kind, type, currentData, counter, started, heard, last, exact,
                    wrapped, mistaken, invented, readings>>
    BY <1>4 DEF vars
  <2>2. LastKept' /\ StartKept' /\ FullWhenMistaken' /\ (Sound' <=> Sound)
    BY <2>1 DEF CInv, LastKept, StartKept, FullWhenMistaken, Sound
  <2>3. SumKept'
    BY <1>s, <2>1, <2>2 DEF CInv, SumKept
  <2>4. LevelKept'
    BY <1>0, <2>1, <2>2 DEF CInv, LevelKept
  <2> QED
    BY <1>0, <2>2, <2>3, <2>4 DEF CInv
<1> QED
  BY <1>1, <1>2, <1>3, <1>4 DEF Next

LEMMA CounterInvariant == Spec => []CInv
BY CInvInit, CInvStep, PTL DEF Spec

\* No reading is mistaken for the first while a long holds what has come in
\* since the last accepted report.  For a 64-bit long that is 2^31 readings;
\* for a 32-bit one, a sum of rises of an int below 2^31.
THEOREM MistakenOnlyFull == Spec => []FullWhenMistaken
<1>1. CInv => FullWhenMistaken
  BY DEF CInv
<1> QED
  BY CounterInvariant, <1>1, PTL

\* What is reported of a counter is the same as the counter, times the factor.
LEMMA ReportedKeeps ==
  ASSUME kind # "NONE", type \in {"INT", "DWORD"}, NEW v, NEW n \in Int,
         NEW e \in Int, NEW f \in Int, Same(W, n, e)
  PROVE  Value(Reported(v, n, f)) = Value(e * f)
<1> DEFINE g == Value(n)
           r == Value(g * f)
<1>1. g \in Int /\ Same(W, g, n)
  BY ValueKeeps, Widths
<1>2. Same(W, g, e)
  BY <1>1, Widths, SameTransitive
<1>3. Same(W, g * f, e * f) /\ g * f \in Int /\ e * f \in Int
  BY <1>1, <1>2, Widths, SameProduct
<1>4. r \in Int /\ Same(W, r, g * f)
  BY <1>3, ValueKeeps, Widths
<1>5. Same(W, r, e * f)
  BY <1>3, <1>4, Widths, SameTransitive
<1>6. counterGet(v, n) = g
  BY DEF counterGet
<1>7. CASE type = "INT"
  <2>1. Reported(v, n, f) = r
    BY <1>6, <1>7 DEF Reported
  <2> QED
    BY <1>3, <1>4, <1>5, <2>1, ValueOfSame
<1>8. CASE type = "DWORD"
  <2>1. Reported(v, n, f) = Signed(r, LongBits)
    BY <1>6, <1>8 DEF Reported
  <2>2. Signed(r, LongBits) \in Int /\ Same(2^LongBits, Signed(r, LongBits), r)
    BY <1>4, PowerAssumption, SignedKeeps, Widths
  <2>3. Same(W, Signed(r, LongBits), r)
    BY <1>4, <2>2, LongIsWider
  <2>4. Same(W, Signed(r, LongBits), e * f)
    BY <1>3, <1>4, <1>5, <2>2, <2>3, Widths, SameTransitive
  <2> QED
    BY <1>3, <2>1, <2>2, <2>4, ValueOfSame
<1> QED
  BY <1>7, <1>8

\* Every reading received reports the exact count of the client's readings since
\* the last accepted report, whatever the widths and the factor, unless since
\* then an int has risen by more than an int holds, a reading was mistaken for
\* the first or the zeroes of a failed survey were counted.
THEOREM CountersExact == Spec => CountsExactly
<1>1. ASSUME CInv, [Next]_vars
      PROVE  [(\E v \in Readings : Receive(v)) /\ kind # "NONE" /\ type # "OTHER"
                /\ ~wrapped' /\ ~mistaken' /\ ~invented'
                => Value(report') = Value(exact' * Factor)]_vars
  <2> SUFFICES ASSUME NEW v \in Readings, Receive(v), kind # "NONE",
                      type # "OTHER", ~wrapped', ~mistaken', ~invented'
               PROVE  Value(report') = Value(exact' * Factor)
    OBVIOUS
  <2>1. counterUpdate(v, Factor) /\ Factor \in Int /\ TypeOK
    BY <1>1, CounterAssumption DEF Receive, CInv
  <2>2. Sound' /\ type \in {"INT", "DWORD"}
    BY <2>1 DEF Sound, counterUpdate, TypeOK, Types
  <2>3. Same(W, counter', exact')
    BY <1>1, <2>2, SumKeptUpdate
  <2>4. report' = Reported(v, counter', Factor) /\ exact' \in Int
    <3>1. exact \in Int /\ exact' = exact + Gain(v) /\ Gain(v) \in Int
      BY <2>1, UpdateNotes, Numbers
    <3>2. report' = Reported(v, counter', Factor)
      BY <2>1 DEF counterUpdate
    <3> QED
      BY <3>1, <3>2
  <2>5. counter' \in Int
    BY <2>1, UpdatedType, Widths DEF counterUpdate, CounterRange
  <2> QED
    BY <2>1, <2>2, <2>3, <2>4, <2>5, ReportedKeeps
<1> QED
  BY <1>1, CounterInvariant, PTL DEF Spec, CountsExactly
=============================================================================
