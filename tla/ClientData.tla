------------------------------ MODULE ClientData ------------------------------
(***************************************************************************)
(* The way of a value from a poll into the report: the conversions of      *)
(* src/client_manager.c (Modbus) and src/opc_connect.c (OPC), the          *)
(* computation, and client_to_mqtt of src/main.c.  All polls use the one   *)
(* clientData of main, which has a field for every data type and is filled *)
(* in one field at a time.                                                 *)
(*                                                                         *)
(* A value is known by the client that gave it, a number, and how often    *)
(* the computation has been applied to it.  The clients here have no       *)
(* counter (Counters.tla has those that do).  `given` is a history         *)
(* variable: what the last poll of a client should report.                 *)
(***************************************************************************)
EXTENDS Integers

CONSTANTS
  Clients,       \* the configured clients
  Protocol,      \* Protocol[c]: "modbus" or "opc"
  DataType,      \* DataType[c]
  Computed,      \* the clients with a computation
  NarrowTime,    \* time_t has 4 bytes, as on 32-bit targets
  Values,        \* what a client may read
  MaxScale       \* bound: how often a computation is told apart

VARIABLES
  clientData,    \* clientData[t]: the field of type t
  mqtt_data,     \* mqtt_data[c]: the value of c in the next report
  surveyed,      \* the clients the first survey is done with
  given          \* given[c]: what the poll of c should report

dataVars == <<clientData, mqtt_data, surveyed, given>>

Types == {"bool", "int", "double", "dword", "time", "enum", "char"}

ASSUME DataAssumption ==
  /\ Protocol \in [Clients -> {"modbus", "opc"}]
  /\ DataType \in [Clients -> Types]
  \* manager_init_config refuses characters over Modbus
  /\ \A c \in Clients : ~(Protocol[c] = "modbus" /\ DataType[c] = "char")
  /\ Computed \subseteq Clients
  /\ NarrowTime \in BOOLEAN
  /\ MaxScale \in Nat \ {0}

Read(c, n) == [by |-> c, value |-> n, scale |-> 0]
Readings   == [by : Clients, value : Values, scale : 0 .. MaxScale]

Zero    == [is |-> "zero"]      \* zero, false or the empty string
Part    == [is |-> "part"]      \* bytes of something else
Unknown == [is |-> "unknown"]   \* what the stack held when main started
Unset   == [is |-> "unset"]     \* no type yet: the report stops here
Others  == {Zero, Part, Unknown}
Contents == Readings \union Others

TypeOK ==
  /\ clientData \in [Types -> Contents]
  /\ mqtt_data \in [Clients -> Contents \union {Unset}]
  /\ surveyed \subseteq Clients
  /\ given \in [Clients -> Contents \union {Unset}]

Init ==
  /\ clientData = [t \in Types |-> Unknown]
  /\ mqtt_data = [c \in Clients |-> Unset]
  /\ surveyed = {}
  /\ given = [c \in Clients |-> Unset]

-----------------------------------------------------------------------------
\* The registers are copied into the field of the type, but those of a double
\* over the dword and what follows it.
modbusToClientData(c, v) ==
  IF DataType[c] # "double"
    THEN [clientData EXCEPT ![DataType[c]] = v]
    ELSE [t \in Types |->
            IF t = "dword" \/ (t = "time" /\ NarrowTime) THEN Part
                                                         ELSE clientData[t]]

\* Mutant: a node of another type leaves the field as it is.
opcReceiveData_KeepsField(c, v, fits) ==
  IF ~fits \/ DataType[c] = "time"
    THEN clientData
    ELSE [clientData EXCEPT ![DataType[c]] = IF DataType[c] = "char" THEN Part
                                                                     ELSE v]

\* A node of another type than the client's gives zero, times are not known,
\* and of a string the header is copied.  The call succeeds in all cases.
opcReceiveData(c, v, fits) ==
  CASE DataType[c] = "time" -> clientData
    [] DataType[c] = "char" ->
         [clientData EXCEPT !["char"] = IF fits THEN Part ELSE Zero]
    [] OTHER ->
         [clientData EXCEPT ![DataType[c]] = IF fits THEN v ELSE Zero]

\* Zero stays zero, and what is no reading stays what it is.
Scale(v) ==
  IF v \in Readings /\ v.scale < MaxScale THEN [v EXCEPT !.scale = @ + 1] ELSE v

\* Types that client_computation knows; for the others it only complains.
Computes(c) == c \in Computed /\ DataType[c] \in {"int", "dword", "double"}

client_computation(c, data) ==
  IF Computes(c) THEN [data EXCEPT ![DataType[c]] = Scale(@)] ELSE data

client_to_mqtt(c, data) == data[DataType[c]]

\* What a poll of c with the answer v should report.
Expected(c, v, fits) ==
  IF ~fits THEN Zero ELSE IF Computes(c) THEN Scale(v) ELSE v

\* A poll that succeeds, in the survey or in a polling block; one that fails in
\* a polling block changes nothing here.
PollOk(c) ==
  /\ surveyed = Clients \/ c \notin surveyed
  /\ \E n \in Values, fits \in BOOLEAN :
       /\ Protocol[c] = "modbus" => fits
       /\ clientData' = client_computation(c,
                          IF Protocol[c] = "modbus"
                            THEN modbusToClientData(c, Read(c, n))
                            ELSE opcReceiveData(c, Read(c, n), fits))
       /\ given' = [given EXCEPT ![c] = Expected(c, Read(c, n), fits)]
  /\ mqtt_data' = [mqtt_data EXCEPT ![c] = client_to_mqtt(c, clientData')]
  /\ surveyed' = surveyed \union {c}

\* A poll that fails in the survey gives zeroes, in all the fields.
SurveyFails(c) ==
  /\ c \notin surveyed
  /\ clientData' = [t \in Types |-> Zero]
  /\ given' = [given EXCEPT ![c] = Zero]
  /\ mqtt_data' = [mqtt_data EXCEPT ![c] = client_to_mqtt(c, clientData')]
  /\ surveyed' = surveyed \union {c}

Receive == \E c \in Clients : PollOk(c) \/ SurveyFails(c)

-----------------------------------------------------------------------------
\* The clients whose values the conversions carry over.
Carried(c) ==
  IF Protocol[c] = "modbus" THEN DataType[c] # "double"
                            ELSE DataType[c] \notin {"time", "char"}

\* The report holds for a client what its own last poll gave, computed once,
\* although the polls of all clients share the fields of clientData.
ReportedAsGiven ==
  \A c \in Clients : Carried(c) => mqtt_data[c] = given[c]

\* "received data type (bool, int, dword, double, time, enum, char)"
\* (README.md:220), for every protocol: each of them is reported as given.
EveryTypeCarried ==
  \A c \in Clients : mqtt_data[c] = given[c]
=============================================================================
