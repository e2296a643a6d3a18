----------------------------- MODULE ReportProofs -----------------------------
(***************************************************************************)
(* Proofs about the report, for any clients, types, numbers of fields,     *)
(* sizes of the buffer and lengths of the lines: a text passes the end of  *)
(* the buffer by no more than one line is longer than DATA_MAX_LINE_LEN, a *)
(* report that the formatter calls a success carries what the last polls   *)
(* gave, and how large a buffer never cuts a report.                       *)
(***************************************************************************)
EXTENDS Report, TLAPS

USE DataAssumption, ReportAssumption

\* While lines are still to come there is room for one of them, unless it is
\* longer than DATA_MAX_LINE_LEN.
Room ==
  /\ IF at = "overrun"
       THEN line > DATA_MAX_LINE_LEN /\ length < MAX_BUF + (line - DATA_MAX_LINE_LEN)
       ELSE length < MAX_BUF
  /\ at = "format" /\ i < Count => length < MAX_BUF - DATA_MAX_LINE_LEN

\* A success is returned after the last line.
AllWritten == at = "send" /\ rc = "DATA_ERR_SUCCESS" => i = Count

IInv == ReportTypeOK /\ ReportedAsGiven /\ Room /\ AllWritten

-----------------------------------------------------------------------------
(* Values.                                                                 *)

\* Zero, bytes and stack contents are not readings.
LEMMA NotReading == Zero \notin Readings /\ Part \notin Readings
<1>1. \A v \in Readings : DOMAIN v = {"by", "value", "scale"}
  BY DEF Readings
<1>2. DOMAIN Zero = {"is"} /\ DOMAIN Part = {"is"}
  BY DEF Zero, Part
<1> QED
  BY <1>1, <1>2

\* A line that is missing is told from every value.
LEMMA NotMissing == Missing \notin Contents \union {Unset}
<1>1. \A v \in Readings : DOMAIN v = {"by", "value", "scale"}
  BY DEF Readings
<1>2. DOMAIN Missing = {"is"}
  BY DEF Missing
<1>3. /\ Missing.is = "missing" /\ Zero.is = "zero" /\ Part.is = "part"
      /\ Unknown.is = "unknown" /\ Unset.is = "unset"
  BY DEF Missing, Zero, Part, Unknown, Unset
<1>4. Missing \notin Readings
  BY <1>1, <1>2
<1>5. Missing # Zero /\ Missing # Part /\ Missing # Unknown /\ Missing # Unset
  BY <1>3
<1> QED
  BY <1>4, <1>5 DEF Contents, Others

LEMMA ReadType ==
  ASSUME NEW c \in Clients, NEW n \in Values
  PROVE  Read(c, n) \in Readings
BY DEF Read, Readings

LEMMA ScaleType ==
  ASSUME NEW v \in Contents
  PROVE  Scale(v) \in Contents
<1>1. CASE v \in Readings /\ v.scale < MaxScale
  <2>1. Scale(v) = [v EXCEPT !.scale = @ + 1] /\ v.scale + 1 \in 0 .. MaxScale
    BY <1>1 DEF Scale, Readings
  <2>2. [v EXCEPT !.scale = @ + 1] \in Readings
    BY <1>1, <2>1 DEF Readings
  <2> QED BY <2>1, <2>2 DEF Contents
<1>2. CASE ~(v \in Readings /\ v.scale < MaxScale)
  BY <1>2 DEF Scale
<1> QED BY <1>1, <1>2

LEMMA ScaleZero == Scale(Zero) = Zero
BY NotReading DEF Scale

LEMMA ExpectedType ==
  ASSUME NEW c \in Clients, NEW n \in Values, NEW fits \in BOOLEAN
  PROVE  Expected(c, Read(c, n), fits) \in Contents
BY ReadType, ScaleType DEF Expected, Contents, Others

\* What a conversion leaves in clientData; for a client whose type is carried,
\* its field holds the answer, or zero for a node of another type.
Converted(c, n, fits) ==
  IF Protocol[c] = "modbus" THEN modbusToClientData(c, Read(c, n))
                            ELSE opcReceiveData(c, Read(c, n), fits)

LEMMA ConvertedType ==
  ASSUME TypeOK, NEW c \in Clients, NEW n \in Values, NEW fits \in BOOLEAN
  PROVE  Converted(c, n, fits) \in [Types -> Contents]
<1>1. Read(c, n) \in Contents /\ Zero \in Contents /\ Part \in Contents
  BY ReadType DEF Contents, Others
<1>2. clientData \in [Types -> Contents] /\ DataType[c] \in Types
  BY DEF TypeOK
<1>3. modbusToClientData(c, Read(c, n)) \in [Types -> Contents]
  BY <1>1, <1>2 DEF modbusToClientData
<1>4. opcReceiveData(c, Read(c, n), fits) \in [Types -> Contents]
  BY <1>1, <1>2 DEF opcReceiveData
<1> QED
  BY <1>3, <1>4 DEF Converted

LEMMA ConvertedField ==
  ASSUME TypeOK, NEW c \in Clients, NEW n \in Values, NEW fits \in BOOLEAN,
         Protocol[c] = "modbus" => fits, Carried(c)
  PROVE  Converted(c, n, fits)[DataType[c]] = IF fits THEN Read(c, n) ELSE Zero
<1>1. clientData \in [Types -> Contents] /\ DataType[c] \in Types
  BY DEF TypeOK
<1>2. CASE Protocol[c] = "modbus"
  BY <1>1, <1>2 DEF Converted, Carried, modbusToClientData
<1>3. CASE Protocol[c] # "modbus"
  <2>1. DataType[c] # "time" /\ DataType[c] # "char"
    BY <1>3 DEF Carried
  <2> QED
    BY <1>1, <1>3, <2>1 DEF Converted, opcReceiveData
<1> QED BY <1>2, <1>3

\* The computation keeps the types of the fields, and gives the client's own
\* field what is expected of it.
LEMMA ComputationType ==
  ASSUME NEW c \in Clients, NEW data \in [Types -> Contents]
  PROVE  client_computation(c, data) \in [Types -> Contents]
<1>1. DataType[c] \in Types
  OBVIOUS
<1>2. Scale(data[DataType[c]]) \in Contents
  BY <1>1, ScaleType
<1> QED
  BY <1>1, <1>2 DEF client_computation

LEMMA ComputationField ==
  ASSUME NEW c \in Clients, NEW data \in [Types -> Contents],
         NEW n \in Values, NEW fits \in BOOLEAN,
         data[DataType[c]] = IF fits THEN Read(c, n) ELSE Zero
  PROVE  client_computation(c, data)[DataType[c]] = Expected(c, Read(c, n), fits)
<1>1. DataType[c] \in Types
  OBVIOUS
<1>2. client_computation(c, data)[DataType[c]]
        = IF Computes(c) THEN Scale(data[DataType[c]]) ELSE data[DataType[c]]
  BY <1>1 DEF client_computation
<1> QED
  BY <1>2, ScaleZero DEF Expected

\* What a poll does, in one step.
LEMMA PollEffect ==
  ASSUME TypeOK, NEW c \in Clients, PollOk(c) \/ SurveyFails(c)
  PROVE  \E data \in [Types -> Contents], g \in Contents :
           /\ clientData' = data
           /\ mqtt_data' = [mqtt_data EXCEPT ![c] = data[DataType[c]]]
           /\ given' = [given EXCEPT ![c] = g]
           /\ surveyed' = surveyed \union {c}
           /\ Carried(c) => data[DataType[c]] = g
<1>1. CASE PollOk(c)
  <2>1. PICK n \in Values, fits \in BOOLEAN :
          /\ Protocol[c] = "modbus" => fits
          /\ clientData' = client_computation(c, Converted(c, n, fits))
          /\ given' = [given EXCEPT ![c] = Expected(c, Read(c, n), fits)]
    BY <1>1 DEF PollOk, Converted
  <2> DEFINE data == client_computation(c, Converted(c, n, fits))
  <2>2. Converted(c, n, fits) \in [Types -> Contents]
    BY ConvertedType
  <2>3. data \in [Types -> Contents]
    BY <2>2, ComputationType
  <2>4. Carried(c) => data[DataType[c]] = Expected(c, Read(c, n), fits)
    BY <2>1, <2>2, ConvertedField, ComputationField
  <2>5. mqtt_data' = [mqtt_data EXCEPT ![c] = data[DataType[c]]]
    BY <1>1, <2>1 DEF PollOk, client_to_mqtt
  <2>6. surveyed' = surveyed \union {c}
    BY <1>1 DEF PollOk
  <2> HIDE DEF data
  <2> QED
    BY <2>1, <2>3, <2>4, <2>5, <2>6, ExpectedType DEF data
<1>2. CASE SurveyFails(c)
  <2> DEFINE data == [t \in Types |-> Zero]
  <2>1. data \in [Types -> Contents] /\ Zero \in Contents
    BY DEF Contents, Others
  <2>2. data[DataType[c]] = Zero
    OBVIOUS
  <2> QED
    BY <1>2, <2>1, <2>2 DEF SurveyFails, client_to_mqtt
<1> QED BY <1>1, <1>2

-----------------------------------------------------------------------------
(* The steps.                                                              *)

LEMMA PollStep ==
  IInv /\ Poll => IInv'
<1> SUFFICES ASSUME IInv, Poll PROVE IInv'
  OBVIOUS
<1>0. TypeOK /\ ReportedAsGiven
  BY DEF IInv, ReportTypeOK
<1>1. PICK c \in Clients : PollOk(c) \/ SurveyFails(c)
  BY DEF Poll, Receive
<1>2. PICK data \in [Types -> Contents], g \in Contents :
        /\ clientData' = data
        /\ mqtt_data' = [mqtt_data EXCEPT ![c] = data[DataType[c]]]
        /\ given' = [given EXCEPT ![c] = g]
        /\ surveyed' = surveyed \union {c}
        /\ Carried(c) => data[DataType[c]] = g
  BY <1>0, <1>1, PollEffect
<1>3. data[DataType[c]] \in Contents
  BY DEF Types
<1>4. TypeOK'
  BY <1>0, <1>2, <1>3 DEF TypeOK
<1>5. ReportedAsGiven'
  <2> SUFFICES ASSUME NEW d \in Clients, Carried(d)
               PROVE  mqtt_data'[d] = given'[d]
    BY DEF ReportedAsGiven, Carried
  <2>1. CASE d = c
    BY <1>0, <1>2, <2>1 DEF TypeOK
  <2>2. CASE d # c
    BY <1>0, <1>2, <2>2 DEF TypeOK, ReportedAsGiven
  <2> QED BY <2>1, <2>2
<1> QED
  BY <1>4, <1>5 DEF IInv, ReportTypeOK, Poll, reportVars, Room, AllWritten

LEMMA LineStep ==
  IInv /\ Line => IInv'
<1> SUFFICES ASSUME IInv, Line PROVE IInv'
  OBVIOUS
<1>1. /\ at = "format" /\ i \in 0 .. Count /\ i < Count /\ length \in Nat
      /\ length < MAX_BUF - DATA_MAX_LINE_LEN
      /\ i' = i + 1
      /\ UNCHANGED <<clientData, mqtt_data, surveyed, given>>
  BY DEF Line, More, IInv, ReportTypeOK, Room, dataVars
<1>2. PICK n \in LineLengths : line' = n /\ length' = length + n
  BY DEF Line
<1>3. n \in Nat /\ Count \in Nat /\ MAX_BUF \in Nat /\ DATA_MAX_LINE_LEN \in Nat
  BY DEF Count
<1>4. line' \in Nat /\ length' \in Nat /\ i' \in 0 .. Count
  BY <1>1, <1>2, <1>3
<1>5. TypeOK' /\ ReportedAsGiven'
  BY <1>1 DEF IInv, ReportTypeOK, TypeOK, ReportedAsGiven
<1>6. CASE length' >= MAX_BUF /\ at' = "overrun" /\ UNCHANGED rc
  <2>1. /\ n > DATA_MAX_LINE_LEN
        /\ length' < MAX_BUF + (n - DATA_MAX_LINE_LEN)
    BY <1>1, <1>2, <1>3, <1>6
  <2> QED
    BY <1>2, <1>4, <1>5, <1>6, <2>1 DEF IInv, ReportTypeOK, Room, AllWritten
<1>7. CASE length' < MAX_BUF /\ NoRoom(length', i') /\ Return("DATA_ERR_BUF")
  BY <1>4, <1>5, <1>7 DEF Return, IInv, ReportTypeOK, Results, Room, AllWritten
<1>8. CASE length' < MAX_BUF /\ ~NoRoom(length', i') /\ UNCHANGED <<at, rc>>
  <2>1. i' < Count => length' < MAX_BUF - DATA_MAX_LINE_LEN
    BY <1>3, <1>4, <1>8 DEF NoRoom
  <2> QED
    BY <1>1, <1>4, <1>5, <1>8, <2>1 DEF IInv, ReportTypeOK, Room, AllWritten
<1> QED
  BY <1>6, <1>7, <1>8 DEF Line

LEMMA IInvInit == ReportInit => IInv
<1> SUFFICES ASSUME ReportInit PROVE IInv
  OBVIOUS
<1>1. TypeOK /\ ReportedAsGiven
  BY DEF ReportInit, Init, TypeOK, Contents, Others, ReportedAsGiven
<1> QED
  BY <1>1 DEF ReportInit, IInv, ReportTypeOK, Results, Room, AllWritten, Count

LEMMA IInvStep == IInv /\ [ReportNext]_vars => IInv'
<1> SUFFICES ASSUME IInv, [ReportNext]_vars PROVE IInv'
  OBVIOUS
<1>1. CASE Poll
  BY <1>1, PollStep
<1>2. CASE Begin
  <2>1. TypeOK' /\ ReportedAsGiven'
    BY <1>2 DEF Begin, dataVars, IInv, ReportTypeOK, TypeOK, ReportedAsGiven
  <2> QED
    BY <1>2, <2>1 DEF Begin, IInv, ReportTypeOK, Room, AllWritten, Count
<1>3. CASE Line
  BY <1>3, LineStep
<1>4. CASE Close
  <2>1. TypeOK' /\ ReportedAsGiven'
    BY <1>4 DEF Close, dataVars, IInv, ReportTypeOK, TypeOK, ReportedAsGiven
  <2>2. i = Count
    BY <1>4 DEF Close, More, IInv, ReportTypeOK, Count
  <2> QED
    BY <1>4, <2>1, <2>2 DEF Close, Return, IInv, ReportTypeOK, Results, Room,
                            AllWritten
<1>5. CASE Send
  <2>1. TypeOK' /\ ReportedAsGiven'
    BY <1>5 DEF Send, dataVars, IInv, ReportTypeOK, TypeOK, ReportedAsGiven
  <2> QED
    BY <1>5, <2>1 DEF Send, IInv, ReportTypeOK, Room, AllWritten
<1>6. CASE UNCHANGED vars
  BY <1>6 DEF vars, dataVars, reportVars, IInv, ReportTypeOK, TypeOK,
              ReportedAsGiven, Room, AllWritten
<1> QED
  BY <1>1, <1>2, <1>3, <1>4, <1>5, <1>6 DEF ReportNext, Overrun

LEMMA ReportInvariant == ReportSpec => []IInv
BY IInvInit, IInvStep, PTL DEF ReportSpec

-----------------------------------------------------------------------------
\* The variables of the report and of the values in it keep their types.
THEOREM ReportTypes == ReportSpec => []ReportTypeOK
<1>1. IInv => ReportTypeOK
  BY DEF IInv
<1> QED
  BY ReportInvariant, <1>1, PTL

\* However long the lines are, a report passes the end of its buffer by no more
\* than its last line is longer than DATA_MAX_LINE_LEN; with lines within that
\* length, not at all.
THEOREM ReportInBuffer == ReportSpec => []InBuffer
<1>1. IInv => InBuffer
  BY DEF IInv, ReportTypeOK, Room, InBuffer
<1> QED
  BY ReportInvariant, <1>1, PTL

\* A report that the formatter calls a success is complete, and every report is
\* true of the clients that are in it.
THEOREM ReportTrue == ReportSpec => []SuccessIsTrue
<1>1. IInv => SuccessIsTrue
  <2> SUFFICES ASSUME IInv, at = "send", NEW c \in Clients
               PROVE  /\ rc = "DATA_ERR_SUCCESS" => Sent[c] # Missing
                      /\ Carried(c) => Sent[c] \in {Missing, given[c]}
    BY DEF SuccessIsTrue
  <2>1. rc = "DATA_ERR_SUCCESS" => Field(c) < i
    BY DEF IInv, AllWritten, Field, Count
  <2>2. Sent[c] = IF Field(c) < i THEN mqtt_data[c] ELSE Missing
    BY DEF Sent
  <2>3. mqtt_data[c] # Missing
    BY NotMissing DEF IInv, ReportTypeOK, TypeOK
  <2> QED
    BY <2>1, <2>2, <2>3 DEF IInv, ReportedAsGiven
<1> QED
  BY ReportInvariant, <1>1, PTL

-----------------------------------------------------------------------------
(* Reports that are never cut.                                             *)

\* No line of the configuration is longer than L, which may be more than what
\* get_json keeps free for one.
Longest(L) ==
  L \in Nat /\ L >= DATA_MAX_LINE_LEN /\ LineLengths \subseteq 1 .. L

\* How far the lines written so far can have come.
WithinLines(L) == at # "poll" => length <= 1 + i * L

\* The report is neither cut nor too long.
NeverCut == at # "overrun" /\ (at = "send" => rc = "DATA_ERR_SUCCESS")

\* The report that send_data publishes has every field.
WholeReport ==
  /\ at # "overrun"
  /\ at = "send" => /\ rc = "DATA_ERR_SUCCESS"
                    /\ \A c \in Clients : Sent[c] # Missing

LEMMA LinesTake ==
  ASSUME NEW L \in Nat, NEW m \in Nat, NEW n \in Nat, m <= n
  PROVE  /\ m * L \in Nat /\ n * L \in Nat
         /\ (m + 1) * L = m * L + L
         /\ m * L <= n * L
         /\ m < n => m * L + L <= n * L
<1>1. m * L \in Nat /\ n * L \in Nat /\ (m + 1) * L = m * L + L
  OBVIOUS
<1>2. CASE m = n
  BY <1>1, <1>2
<1>3. CASE m < n
  <2>1. PICK k \in Nat : n = m + 1 + k
    <3>1. n - m - 1 \in Nat /\ n = m + 1 + (n - m - 1)
      BY <1>3
    <3> QED
      BY <3>1
  <2>2. n * L = m * L + L + k * L /\ k * L \in Nat
    BY <2>1
  <2> QED
    BY <1>1, <2>2
<1> QED
  BY <1>2, <1>3

\* A line takes the text no farther than a line may.
LEMMA WithinLine ==
  ASSUME NEW L, Longest(L), IInv, WithinLines(L), Line
  PROVE  /\ i \in Nat /\ Count \in Nat /\ i < Count /\ i' = i + 1
         /\ i' * L \in Nat /\ length' \in Nat /\ length' <= 1 + i' * L
<1>1. /\ i \in Nat /\ Count \in Nat /\ i < Count /\ i' = i + 1
      /\ length \in Nat /\ length <= 1 + i * L
  BY DEF Line, More, IInv, ReportTypeOK, WithinLines, Count
<1>2. PICK n \in 1 .. L : length' = length + n
  BY DEF Line, Longest
<1>3. L \in Nat /\ i * L \in Nat /\ i' * L = i * L + L
  BY <1>1, LinesTake DEF Longest
<1>4. length' \in Nat /\ length' <= 1 + i' * L /\ i' * L \in Nat
  <2> DEFINE p == i * L
             q == i' * L
  <2>1. /\ p \in Nat /\ q = p + L /\ L \in Nat
        /\ length \in Nat /\ length <= 1 + p
        /\ n \in Nat /\ n <= L /\ length' = length + n
    BY <1>1, <1>2, <1>3
  <2> HIDE DEF p, q
  <2>2. length' \in Nat /\ length' <= 1 + q /\ q \in Nat
    BY <2>1
  <2> QED
    BY <2>2 DEF q
<1> QED
  BY <1>1, <1>4

LEMMA WithinStep ==
  ASSUME NEW L, Longest(L), IInv, WithinLines(L), [ReportNext]_vars
  PROVE  WithinLines(L)'
<1>1. CASE Line
  BY <1>1, WithinLine DEF WithinLines
<1>2. CASE Begin
  <2>1. L \in Nat /\ 0 * L = 0
    BY DEF Longest
  <2> QED
    BY <1>2, <2>1 DEF Begin, WithinLines
<1>3. CASE Poll \/ Overrun \/ Close \/ Send \/ UNCHANGED vars
  BY <1>3 DEF Poll, Overrun, Close, Return, Send, vars, reportVars, WithinLines
<1> QED
  BY <1>1, <1>2, <1>3 DEF ReportNext

LEMMA NeverCutStep ==
  ASSUME NEW L, Longest(L), 1 + Count * L < MAX_BUF,
         IInv, WithinLines(L), NeverCut, [ReportNext]_vars
  PROVE  NeverCut'
<1>1. CASE Line
  <2>1. /\ i' \in Nat /\ Count \in Nat /\ i' <= Count /\ L \in Nat
        /\ i' * L \in Nat /\ length' \in Nat /\ length' <= 1 + i' * L
    BY <1>1, WithinLine DEF Longest
  <2>2. /\ Count * L \in Nat /\ i' * L <= Count * L
        /\ i' < Count => i' * L + L <= Count * L
    <3> DEFINE m == i'
               n == Count
    <3>1. m \in Nat /\ n \in Nat /\ m <= n /\ L \in Nat
      BY <2>1
    <3> HIDE DEF m, n
    <3>2. n * L \in Nat /\ m * L <= n * L /\ (m < n => m * L + L <= n * L)
      BY <3>1, LinesTake
    <3> QED
      BY <3>2 DEF m, n
  <2> DEFINE p == i' * L
             q == Count * L
  <2>3. /\ p \in Nat /\ q \in Nat /\ p <= q /\ (i' < Count => p + L <= q)
        /\ length' <= 1 + p /\ 1 + q < MAX_BUF
        /\ L \in Nat /\ L >= DATA_MAX_LINE_LEN
        /\ DATA_MAX_LINE_LEN \in Nat /\ MAX_BUF \in Nat
    BY <2>1, <2>2 DEF Longest
  <2> HIDE DEF p, q
  <2>4. length' < MAX_BUF /\ ~NoRoom(length', i')
    BY <2>1, <2>3 DEF NoRoom
  <2>5. UNCHANGED <<at, rc>>
    BY <1>1, <2>1, <2>3, <2>4 DEF Line
  <2> QED
    BY <2>5 DEF NeverCut
<1>2. CASE Poll \/ Begin \/ Overrun \/ Close \/ Send \/ UNCHANGED vars
  BY <1>2 DEF Poll, Begin, Overrun, Close, Return, Send, vars, reportVars, NeverCut
<1> QED
  BY <1>1, <1>2 DEF ReportNext

\* With room in send_buf for as many lines as there are fields, each as long as
\* the longest line of the configuration, no report is cut or passes the end.  For
\* 3072 characters (ts_module_const.h) and lines within 100 (ts_data.h), that is
\* up to thirty fields; for longer lines, fewer.  The main loop's reports, which
\* are always whole, are then those of get_json.
THEOREM ReportFits ==
  ASSUME NEW L, Longest(L), 1 + Count * L < MAX_BUF
  PROVE  ReportSpec => []WholeReport
<1>1. ReportInit => WithinLines(L) /\ NeverCut
  BY DEF ReportInit, WithinLines, NeverCut
<1>2. IInv /\ WithinLines(L) /\ NeverCut /\ [ReportNext]_vars
        => WithinLines(L)' /\ NeverCut'
  BY WithinStep, NeverCutStep
<1>3. NeverCut /\ SuccessIsTrue => WholeReport
  BY DEF NeverCut, SuccessIsTrue, WholeReport
<1> QED
  BY <1>1, <1>2, <1>3, ReportInvariant, ReportTrue, PTL DEF ReportSpec
=============================================================================
