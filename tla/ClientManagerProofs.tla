------------------------ MODULE ClientManagerProofs ------------------------
(***************************************************************************)
(* Proofs about ClientManager, for any number of clients, any assignment   *)
(* of protocols and devices, and any limit of descriptors: the types, the  *)
(* coherence of the flags with the links (ConnectedHasLink), the promise   *)
(* that a poll whose device answers throughout succeeds while there are    *)
(* descriptors and no alarm ends an attempt (PollAnswers), the account of  *)
(* the descriptors (HeldCounted, OnlyModbusForgets), and that a service of *)
(* OPC clients alone never lacks a descriptor and is never interrupted, so *)
(* that its polls succeed without those conditions (Reconnects).           *)
(***************************************************************************)
EXTENDS ClientManager, FiniteSetTheorems, TLAPS

LEMMA ClientSets ==
  /\ Modbus \subseteq Clients /\ OPC \subseteq Clients
  /\ \A c \in Clients : c \in OPC <=> c \notin Modbus
  /\ \A c \in Clients : Device[c] \in Devices
  /\ \A c \in Clients : c \in 1 .. clientsCnt + 1 /\ c + 1 \in 1 .. clientsCnt + 1
BY ManagerAssumption DEF Modbus, OPC, Clients, Devices

LEMMA SetStatusType ==
  ASSUME NEW c \in Clients, NEW status \in BOOLEAN, setConnectStatus(c, status), TypeOK
  PROVE  /\ connected' \in [Clients -> BOOLEAN]
         /\ connected'[c] = status
         /\ c \in OPC => \A d \in OPC : connected'[d] = status
         /\ \A d \in Clients : d # c /\ ~(c \in OPC /\ d \in OPC)
                                 => connected'[d] = connected[d]
BY ClientSets, Zenon DEF setConnectStatus, TypeOK

\* What the end of a connection attempt does to the flags and the call.
LEMMA ConnectDoneEffect ==
  ASSUME TypeOK, NEW c \in Clients, c = client, NEW status \in BOOLEAN,
         ConnectDone(c, status)
  PROVE  /\ connected' \in [Clients -> BOOLEAN] /\ connected'[c] = status
         /\ phase' = phase
         /\ phase = "init" =>
              /\ at' = "connect" /\ client' = client + 1 /\ result' = result
              /\ \A d \in Clients : d # c => connected'[d] = connected[d]
         /\ phase # "init" =>
              /\ client' = client
              /\ status => at' = "read" /\ result' = result
              /\ ~status => at' = "idle" /\ result' = FALSE
              /\ c \in OPC => \A d \in OPC : connected'[d] = status
              /\ \A d \in Clients : d # c /\ ~(c \in OPC /\ d \in OPC)
                                      => connected'[d] = connected[d]
<1>1. CASE phase = "init"
  BY <1>1 DEF ConnectDone, NextClient, TypeOK
<1>2. CASE phase # "init"
  <2>1. setConnectStatus(c, status)
    BY <1>2 DEF ConnectDone
  <2>2. /\ phase' = phase /\ client' = client
        /\ status => at' = "read" /\ result' = result
        /\ ~status => at' = "idle" /\ result' = FALSE
    BY <1>2 DEF ConnectDone, Return
  <2> QED
    BY <1>2, <2>1, <2>2, SetStatusType
<1> QED
  BY <1>1, <1>2

LEMMA ContextType ==
  ASSUME TypeOK, NEW c \in Modbus
  PROVE  /\ Context(c) \in {"NULL", "closed", "open", "broken"}
         /\ context[c] # "NULL" => Context(c) # "NULL" \/ c \in NoContext
         /\ phase # "init" => Context(c) = context[c]
BY DEF Context, TypeOK

-----------------------------------------------------------------------------
(* The steps of a call, and of the devices.                                *)

\* A step of a connection attempt of a Modbus client changes its context only.
LEMMA OpenEffect ==
  ASSUME TypeOK, NEW c \in Modbus, modbus_connect(c)
  PROVE  /\ context' \in [Modbus -> {"NULL", "closed", "open", "broken"}]
         /\ context'[c] \in {"open", "closed"}
         /\ \A d \in Modbus : d # c => context'[d] = context[d]
         /\ descriptors' \in 0 .. DescriptorLimit /\ descriptors' >= descriptors
         /\ interrupted' \in BOOLEAN
         /\ ~interrupted' => /\ ~interrupted
                             /\ Reachable(c) => context'[c] = "open"
<1>0. Free \in BOOLEAN /\ Reachable(c) \in BOOLEAN /\ interrupted \in BOOLEAN
  BY DEF Free, Reachable, TypeOK
<1>1. CASE /\ Reachable(c) /\ UNCHANGED interrupted
           /\ context' = [context EXCEPT ![c] = "open"]
           /\ descriptors' = descriptors + 1
  BY <1>0, <1>1, ManagerAssumption DEF Reachable, TypeOK, Free
<1>2. CASE /\ AttemptFails(c) /\ UNCHANGED descriptors
           /\ context' = [context EXCEPT ![c] = "closed"]
  <2>1. interrupted' \in BOOLEAN /\ (~interrupted' => ~interrupted /\ ~Reachable(c))
    BY <1>0, <1>2 DEF AttemptFails
  <2> QED
    BY <1>2, <2>1, ManagerAssumption DEF TypeOK
<1> QED
  BY <1>1, <1>2 DEF modbus_connect

LEMMA OpcEffect ==
  ASSUME NEW c \in OPC, NEW used, opcConnect(c, used)
  PROVE  /\ handler' \in {"NULL", "unconnected", "open"}
         /\ certified /\ Device[c] \in up /\ used < DescriptorLimit
              => handler' = "open"
         /\ ConnectDone(c, handler' = "open")
BY DEF opcConnect

LEMMA OpcDescriptors ==
  ASSUME NEW c \in OPC, NEW used \in 0 .. DescriptorLimit, opcConnect(c, used)
  PROVE  /\ descriptors' \in 0 .. DescriptorLimit
         /\ descriptors' = used + HandlerHas'
BY ManagerAssumption DEF opcConnect, HandlerHas

\* What the links hold, as numbers.
LEMMA HeldType ==
  /\ IsFiniteSet(Linked) /\ Cardinality(Linked) \in Nat /\ HandlerHas \in {0, 1}
  /\ Cardinality(Linked') \in Nat /\ HandlerHas' \in {0, 1}
<1>1. IsFiniteSet(Clients)
  BY ManagerAssumption, FS_Interval DEF Clients
<1>2. Linked \subseteq Clients /\ Linked' \subseteq Clients
  BY DEF Linked, Modbus
<1> QED
  BY <1>1, <1>2, FS_Subset, FS_CardinalityType DEF HandlerHas

\* A handler gives back the descriptor it has, and no other.
LEMMA CloseType ==
  ASSUME TypeOK, HeldCounted
  PROVE  /\ opcCloseConnection \in 0 .. DescriptorLimit
         /\ opcCloseConnection = descriptors - HandlerHas
<1>1. opcCloseConnection = descriptors - HandlerHas
  BY DEF opcCloseConnection, HandlerHas, TypeOK
<1>2. HandlerHas <= descriptors /\ HandlerHas >= 0
  BY HeldType DEF HeldCounted, Held, TypeOK
<1> QED
  BY <1>1, <1>2, HeldType, ManagerAssumption DEF TypeOK

\* A device that fails breaks links, and makes none.
LEMMA BreakEffect ==
  ASSUME TypeOK, NEW d \in Devices, Break(d)
  PROVE  /\ context' \in [Modbus -> {"NULL", "closed", "open", "broken"}]
         /\ \A c \in Modbus : \/ context'[c] = context[c]
                              \/ /\ context[c] = "open" /\ context'[c] = "broken"
                                 /\ Device[c] = d
         /\ \/ handler' = handler
            \/ /\ handler = "open" /\ handler' = "broken"
               /\ \E c \in OPC : Device[c] = d
         /\ steady' = (steady /\ Device[client] # d)
         /\ UNCHANGED <<certified, connected, descriptors, phase, at, client,
                        result, spare, interrupted>>
<1>1. PICK B \in SUBSET {c \in Modbus : /\ Protocol[c] = "TCP" /\ Device[c] = d
                                        /\ context[c] = "open"} :
        context' = [c \in Modbus |-> IF c \in B THEN "broken" ELSE context[c]]
  BY DEF Break
<1> QED
  BY <1>1 DEF Break, TypeOK

-----------------------------------------------------------------------------
LEMMA TypeInit == Init => TypeOK
<1> SUFFICES ASSUME Init PROVE TypeOK
  OBVIOUS
<1>1. /\ up \subseteq Devices /\ certified \in BOOLEAN
      /\ result \in BOOLEAN /\ steady \in BOOLEAN /\ spare \in BOOLEAN
      /\ interrupted \in BOOLEAN
  BY Zenon DEF Init
<1>2. descriptors \in 0 .. DescriptorLimit /\ client \in 1 .. clientsCnt + 1
  BY ManagerAssumption DEF Init
<1>3. /\ context \in [Modbus -> {"NULL", "closed", "open", "broken"}]
      /\ connected \in [Clients -> BOOLEAN]
  BY DEF Init
<1> QED
  BY <1>1, <1>2, <1>3 DEF Init, TypeOK

LEMMA TypeStep == TypeOK /\ HeldCounted /\ [Next]_vars => TypeOK'
<1> SUFFICES ASSUME TypeOK, HeldCounted, [Next]_vars PROVE TypeOK'
  OBVIOUS
<1> USE ManagerAssumption
<1>1. ASSUME NEW c \in Clients, c = client, Call(c)
      PROVE  TypeOK'
  <2>1. CASE c \in Modbus /\ WithoutContext(c)
    BY <1>1, <2>1, ConnectDoneEffect, ClientSets
       DEF WithoutContext, links, TypeOK
  <2>2. CASE c \in Modbus /\ checkServer(c)
    <3>1. context' \in [Modbus -> {"NULL", "closed", "open", "broken"}]
      BY <2>2, ContextType DEF checkServer, TypeOK
    <3>2. descriptors' \in 0 .. DescriptorLimit
      BY <2>2 DEF checkServer, TypeOK, Free
    <3>3. /\ connected' \in [Clients -> BOOLEAN] /\ phase' = phase
          /\ at' \in {"idle", "connect", "open", "read"}
          /\ client' \in 1 .. clientsCnt + 1 /\ result' \in BOOLEAN
      BY <1>1, <2>2, ConnectDoneEffect, ClientSets DEF checkServer, TypeOK
    <3>4. interrupted' \in BOOLEAN
      BY <2>2 DEF checkServer, AttemptFails, Reachable, Free, TypeOK
    <3> QED
      BY <2>2, <3>1, <3>2, <3>3, <3>4 DEF checkServer, TypeOK
  <2>3. CASE c \in Modbus /\ ModbusOpen(c)
    <3>1. /\ context' \in [Modbus -> {"NULL", "closed", "open", "broken"}]
          /\ descriptors' \in 0 .. DescriptorLimit /\ interrupted' \in BOOLEAN
      BY <2>3, OpenEffect DEF ModbusOpen
    <3>2. /\ connected' \in [Clients -> BOOLEAN] /\ phase' = phase
          /\ at' \in {"idle", "connect", "open", "read"}
          /\ client' \in 1 .. clientsCnt + 1 /\ result' \in BOOLEAN
      BY <1>1, <2>3, ConnectDoneEffect, ClientSets DEF ModbusOpen, TypeOK
    <3> QED
      BY <2>3, <3>1, <3>2 DEF ModbusOpen, TypeOK
  <2>4. CASE c \in OPC /\ InitOPC(c)
    <3>1. /\ handler' \in {"NULL", "unconnected", "open", "broken"}
          /\ descriptors' \in 0 .. DescriptorLimit
          /\ \E status \in BOOLEAN : ConnectDone(c, status)
      BY <2>4, OpcEffect, OpcDescriptors, ClientSets DEF InitOPC, TypeOK
    <3>2. /\ connected' \in [Clients -> BOOLEAN] /\ phase' = phase
          /\ at' \in {"idle", "connect", "open", "read"}
          /\ client' \in 1 .. clientsCnt + 1 /\ result' \in BOOLEAN
      BY <1>1, <2>4, <3>1, ConnectDoneEffect, ClientSets DEF TypeOK
    <3> QED
      BY <2>4, <3>1, <3>2 DEF InitOPC, TypeOK
  <2>5. CASE c \in OPC /\ ReconnectOPC(c)
    <3>1. /\ handler' \in {"NULL", "unconnected", "open", "broken"}
          /\ descriptors' \in 0 .. DescriptorLimit
          /\ \E status \in BOOLEAN : ConnectDone(c, status)
      BY <2>5, OpcEffect, OpcDescriptors, CloseType, ClientSets DEF ReconnectOPC
    <3>2. /\ connected' \in [Clients -> BOOLEAN] /\ phase' = phase
          /\ at' \in {"idle", "connect", "open", "read"}
          /\ client' \in 1 .. clientsCnt + 1 /\ result' \in BOOLEAN
      BY <1>1, <2>5, <3>1, ConnectDoneEffect, ClientSets DEF TypeOK
    <3> QED
      BY <2>5, <3>1, <3>2 DEF ReconnectOPC, TypeOK
  <2>6. CASE ReadOk(c)
    BY <2>6, SetStatusType DEF ReadOk, Return, links, TypeOK
  <2>7. CASE FirstReadFails(c)
    BY <2>7, SetStatusType DEF FirstReadFails, links, TypeOK
  <2>8. CASE ReadFails(c)
    BY <2>8, SetStatusType DEF ReadFails, Return, links, TypeOK
  <2> QED
    BY <1>1, <2>1, <2>2, <2>3, <2>4, <2>5, <2>6, <2>7, <2>8 DEF Call
<1>2. ASSUME NEW c \in Clients, manager_receive_data(c)
      PROVE  TypeOK'
  <2>1. /\ client' \in 1 .. clientsCnt + 1
        /\ phase' = "first" /\ at' \in {"read", "connect"}
        /\ steady' \in BOOLEAN /\ spare' \in BOOLEAN /\ interrupted' \in BOOLEAN
        /\ UNCHANGED <<up, certified, context, handler, descriptors, connected,
                       result>>
    <3>1. Enough(c) \in BOOLEAN
      <4>1. (descriptors + Sockets(c) <= DescriptorLimit) \in BOOLEAN
        BY DEF Sockets, TypeOK
      <4> QED
        BY <4>1, Zenon DEF Enough
    <3>2. interrupted' \in BOOLEAN
      BY <1>2, Zenon DEF manager_receive_data
    <3> QED
      BY <1>2, <3>1, <3>2, ClientSets DEF manager_receive_data, links
  <2> QED
    BY <2>1 DEF TypeOK
<1>3. CASE InitDone
  BY <1>3 DEF InitDone, links, TypeOK
<1>4. ASSUME NEW d \in Devices, DeviceDown(d) \/ DeviceDrops(d)
      PROVE  TypeOK'
  <2>1. Break(d) /\ up' \subseteq up
    BY <1>4 DEF DeviceDown, DeviceDrops
  <2>2. /\ context' \in [Modbus -> {"NULL", "closed", "open", "broken"}]
        /\ handler' = handler \/ handler' = "broken"
        /\ steady' = (steady /\ Device[client] # d)
        /\ UNCHANGED <<certified, connected, descriptors, phase, at, client,
                       result, spare, interrupted>>
    BY <2>1, BreakEffect
  <2>3. handler' \in {"NULL", "unconnected", "open", "broken"} /\ steady' \in BOOLEAN
    BY <2>2 DEF TypeOK
  <2> QED
    BY <2>1, <2>2, <2>3 DEF TypeOK
<1>5. ASSUME NEW d \in Devices, DeviceUp(d)
      PROVE  TypeOK'
  BY <1>5 DEF DeviceUp, links, TypeOK
<1>6. CASE UNCHANGED vars
  BY <1>6 DEF vars, links, TypeOK
<1> QED
  BY <1>1, <1>2, <1>3, <1>4, <1>5, <1>6 DEF Next

-----------------------------------------------------------------------------
(* One lemma for each other part of the invariant.  The steps of a call are *)
(* taken one by one, and the others together.                               *)

LEMMA ControlInit == Init => ControlOK
BY DEF Init, ControlOK

LEMMA ControlStep == TypeOK /\ ControlOK /\ [Next]_vars => ControlOK'
<1> SUFFICES ASSUME TypeOK, ControlOK, [Next]_vars PROVE ControlOK'
  OBVIOUS
<1> USE ManagerAssumption
<1>1. ASSUME NEW c \in Clients, c = client, Call(c)
      PROVE  ControlOK'
  <2>0. c \in Int /\ client \in Int /\ (\A d \in Clients : d \in Int)
    BY DEF Clients, TypeOK
  <2>a. ASSUME NEW status \in BOOLEAN, ConnectDone(c, status), steady' = steady,
               handler' = handler \/ c \in OPC
        PROVE  ControlOK'
    <3>1. CASE phase = "init"
      <4>1. /\ phase' = "init" /\ at' = "connect" /\ client' = client + 1
            /\ \A d \in Clients : d # c => connected'[d] = connected[d]
        BY <1>1, <2>a, <3>1, ConnectDoneEffect
      <4>2. handler' = "NULL" \/ \E d \in OPC : d < client'
        BY <1>1, <2>0, <2>a, <3>1, <4>1, ClientSets DEF ControlOK
      <4> QED
        BY <1>1, <2>0, <2>a, <3>1, <4>1, <4>2 DEF ControlOK
    <3>2. CASE phase # "init"
      BY <1>1, <2>0, <2>a, <3>2, ConnectDoneEffect DEF ControlOK
    <3> QED
      BY <3>1, <3>2
  <2>1. CASE c \in Modbus /\ WithoutContext(c)
    BY <2>1, <2>a DEF WithoutContext, links, ControlOK
  <2>2. CASE c \in Modbus /\ checkServer(c)
    <3>1. CASE at' = "open"
      <4>1. UNCHANGED <<connected, phase, client, handler, steady>>
        <5>1. ~ConnectDone(c, FALSE)
          BY <1>1, <3>1, ConnectDoneEffect
        <5> QED
          BY <2>2, <5>1 DEF checkServer
      <4>2. context'[c] # "NULL"
        BY <2>2, ContextType DEF checkServer, TypeOK
      <4> QED
        BY <1>1, <2>2, <3>1, <4>1, <4>2 DEF ControlOK
    <3>2. CASE at' # "open"
      BY <2>2, <3>2, <2>a DEF checkServer
    <3> QED
      BY <3>1, <3>2
  <2>3. CASE c \in Modbus /\ ModbusOpen(c)
    BY <2>3, <2>a DEF ModbusOpen
  <2>4. CASE c \in OPC /\ InitOPC(c)
    <3>1. CASE FirstOPC(c)
      <4>1. opcConnect(c, descriptors) /\ steady' = steady
        BY <2>4, <3>1 DEF InitOPC
      <4> QED
        BY <2>4, <4>1, <2>a, OpcEffect DEF TypeOK
    <3>2. CASE ~FirstOPC(c)
      BY <2>4, <3>2, <2>a, ClientSets DEF InitOPC, ControlOK, TypeOK
    <3> QED
      BY <3>1, <3>2
  <2>5. CASE c \in OPC /\ ReconnectOPC(c)
    BY <2>5, <2>a, OpcEffect DEF ReconnectOPC
  <2>6. CASE ReadOk(c)
    BY <1>1, <2>6 DEF ReadOk, Return, links, ControlOK
  <2>7. CASE FirstReadFails(c)
    BY <1>1, <2>7 DEF FirstReadFails, links, ControlOK
  <2>8. CASE ReadFails(c)
    BY <1>1, <2>8 DEF ReadFails, Return, links, ControlOK
  <2> QED
    BY <1>1, <2>1, <2>2, <2>3, <2>4, <2>5, <2>6, <2>7, <2>8 DEF Call
<1>2. ASSUME NEW c \in Clients, manager_receive_data(c)
      PROVE  ControlOK'
  BY <1>2 DEF manager_receive_data, links, ControlOK
<1>3. CASE InitDone
  BY <1>3 DEF InitDone, links, ControlOK, Clients
<1>4. ASSUME NEW d \in Devices, DeviceDown(d) \/ DeviceDrops(d)
      PROVE  ControlOK'
  <2>1. Break(d)
    BY <1>4 DEF DeviceDown, DeviceDrops
  <2>2. /\ \A c \in Modbus : context[c] # "NULL" => context'[c] # "NULL"
        /\ handler = "NULL" => handler' = "NULL"
        /\ steady' => steady
        /\ UNCHANGED <<connected, descriptors, phase, at, client>>
    BY <2>1, BreakEffect
  <2> QED
    BY <2>2 DEF ControlOK
<1>5. ASSUME NEW d \in Devices, DeviceUp(d)
      PROVE  ControlOK'
  BY <1>5 DEF DeviceUp, links, ControlOK
<1>6. CASE UNCHANGED vars
  BY <1>6 DEF vars, links, ControlOK
<1> QED
  BY <1>1, <1>2, <1>3, <1>4, <1>5, <1>6 DEF Next

-----------------------------------------------------------------------------
(* The descriptors: what each step does to those in use, and to those that *)
(* the links hold.                                                         *)

LEMMA HeldInit == Init => HeldCounted
<1> SUFFICES ASSUME Init PROVE HeldCounted
  OBVIOUS
<1>1. Linked = {} /\ HandlerHas = 0 /\ descriptors = 0
  BY DEF Init, Linked, HandlerHas
<1> QED
  BY <1>1, FS_EmptySet DEF HeldCounted, Held

\* One context more has a descriptor, or none.
LEMMA LinkedGrows ==
  ASSUME TypeOK, TypeOK', NEW c \in Modbus,
         \A d \in Modbus : d # c => context'[d] = context[d]
  PROVE  /\ Cardinality(Linked') <= Cardinality(Linked) + 1
         /\ context[c] \in {"open", "broken"} \/ context'[c] \notin {"open", "broken"}
              => Cardinality(Linked') <= Cardinality(Linked)
<1>1. /\ IsFiniteSet(Linked) /\ Cardinality(Linked) \in Nat
      /\ Cardinality(Linked') \in Nat
  BY HeldType
<1>2. Linked' \subseteq Linked \cup {c}
  BY DEF Linked
<1>3. /\ IsFiniteSet(Linked \cup {c})
      /\ Cardinality(Linked \cup {c}) \in {Cardinality(Linked), Cardinality(Linked) + 1}
  BY <1>1, FS_AddElement
<1>4. Cardinality(Linked') <= Cardinality(Linked \cup {c})
  BY <1>2, <1>3, FS_Subset
<1>5. ASSUME context[c] \in {"open", "broken"} \/ context'[c] \notin {"open", "broken"}
      PROVE  Cardinality(Linked') <= Cardinality(Linked)
  <2>1. Linked' \subseteq Linked
    BY <1>5 DEF Linked
  <2> QED
    BY <1>1, <2>1, FS_Subset
<1>6. Cardinality(Linked') <= Cardinality(Linked) + 1
  BY <1>1, <1>3, <1>4
<1> QED
  BY <1>5, <1>6

\* checkServer and modbus_connect never take a descriptor from a link.
LEMMA ModbusCounts ==
  ASSUME TypeOK, TypeOK', HeldCounted, NEW c \in Modbus,
         checkServer(c) \/ ModbusOpen(c)
  PROVE  HeldCounted'
<1>1. HandlerHas' = HandlerHas
  BY DEF checkServer, ModbusOpen, HandlerHas
<1>2. \A d \in Modbus : d # c => context'[d] = context[d]
  BY OpenEffect DEF checkServer, ModbusOpen, TypeOK
<1>3. /\ Cardinality(Linked) \in Nat /\ Cardinality(Linked') \in Nat
      /\ HandlerHas \in {0, 1} /\ descriptors \in Nat /\ descriptors' \in Nat
      /\ Cardinality(Linked) + HandlerHas <= descriptors
  BY HeldType, ManagerAssumption DEF HeldCounted, Held, TypeOK
<1>4. \/ descriptors' = descriptors + 1
      \/ /\ descriptors' = descriptors
         /\ context[c] \in {"open", "broken"} \/ context'[c] \notin {"open", "broken"}
  <2>1. CASE checkServer(c)
    <3>1. descriptors' \in {descriptors, descriptors + 1}
      BY <2>1 DEF checkServer
    <3>2. context'[c] \in {context[c], "closed"}
      BY <2>1 DEF checkServer, Context, TypeOK
    <3> QED
      BY <3>1, <3>2
  <2>2. CASE ModbusOpen(c)
    BY <2>2 DEF ModbusOpen, modbus_connect, TypeOK
  <2> QED
    BY <2>1, <2>2
<1>5. \/ descriptors' = descriptors + 1
      \/ descriptors' = descriptors /\ Cardinality(Linked') <= Cardinality(Linked)
  BY <1>2, <1>4, LinkedGrows
<1>6. Cardinality(Linked') <= Cardinality(Linked) + 1
  BY <1>2, LinkedGrows
<1>7. Cardinality(Linked') + HandlerHas' <= descriptors'
  BY <1>1, <1>3, <1>5, <1>6
<1> QED
  BY <1>7 DEF HeldCounted, Held

\* Every other step leaves as many descriptors without a link as there were.
LEMMA OthersForgetNone ==
  ASSUME TypeOK, ControlOK, HeldCounted, [Next]_vars
  PROVE  \/ descriptors' - Held' = descriptors - Held
         \/ \E c \in Modbus : checkServer(c) \/ ModbusOpen(c)
<1>0. /\ Cardinality(Linked) \in Nat /\ HandlerHas \in {0, 1} /\ descriptors \in Int
      /\ descriptors \in 0 .. DescriptorLimit
  BY HeldType, ManagerAssumption DEF TypeOK
<1>a. ASSUME UNCHANGED links PROVE descriptors' - Held' = descriptors - Held
  BY <1>a DEF links, Held, Linked, HandlerHas
\* A connection attempt to the server, with the handler gone.
<1>b. ASSUME NEW c \in OPC, context' = context,
             opcConnect(c, descriptors - HandlerHas),
             descriptors - HandlerHas \in 0 .. DescriptorLimit
      PROVE  descriptors' - Held' = descriptors - Held
  <2>1. descriptors' = descriptors - HandlerHas + HandlerHas' /\ HandlerHas' \in {0, 1}
    BY <1>b, OpcDescriptors DEF HandlerHas
  <2>2. Linked' = Linked
    BY <1>b DEF Linked
  <2> QED
    BY <1>0, <2>1, <2>2 DEF Held
<1>1. ASSUME NEW c \in Clients, c = client, Call(c),
             ~ (c \in Modbus /\ (checkServer(c) \/ ModbusOpen(c)))
      PROVE  descriptors' - Held' = descriptors - Held
  <2>1. CASE WithoutContext(c) \/ ReadOk(c) \/ FirstReadFails(c) \/ ReadFails(c)
    BY <1>a, <2>1 DEF WithoutContext, ReadOk, FirstReadFails, ReadFails
  <2>2. CASE c \in OPC /\ InitOPC(c)
    <3>1. CASE FirstOPC(c)
      <4>1. opcConnect(c, descriptors) /\ context' = context /\ phase = "init"
        BY <2>2, <3>1 DEF InitOPC
      <4>2. \A d \in OPC : ~ (d < client)
        BY <1>1, <3>1, ClientSets DEF FirstOPC, Clients, OPC
      <4>3. HandlerHas = 0
        BY <4>1, <4>2 DEF ControlOK, HandlerHas
      <4>4. descriptors - HandlerHas = descriptors
        BY <1>0, <4>3
      <4> QED
        BY <1>0, <1>b, <2>2, <4>1, <4>4
    <3>2. CASE ~FirstOPC(c)
      BY <1>a, <2>2, <3>2 DEF InitOPC, links
    <3> QED
      BY <3>1, <3>2
  <2>3. CASE c \in OPC /\ ReconnectOPC(c)
    BY <1>b, <2>3, CloseType DEF ReconnectOPC
  <2> QED
    BY <1>1, <2>1, <2>2, <2>3 DEF Call
<1>2. ASSUME NEW d \in Devices, DeviceDown(d) \/ DeviceDrops(d)
      PROVE  descriptors' - Held' = descriptors - Held
  <2>1. Break(d)
    BY <1>2 DEF DeviceDown, DeviceDrops
  <2>2. Linked' = Linked /\ HandlerHas' = HandlerHas /\ descriptors' = descriptors
    BY <2>1, BreakEffect DEF Linked, HandlerHas
  <2> QED
    BY <2>2 DEF Held
<1>3. CASE \/ \E c \in Clients : manager_receive_data(c)
           \/ InitDone
           \/ \E d \in Devices : DeviceUp(d)
           \/ UNCHANGED vars
  BY <1>3, <1>a DEF manager_receive_data, InitDone, DeviceUp, vars
<1> QED
  BY <1>1, <1>2, <1>3 DEF Next

LEMMA HeldStep ==
  TypeOK /\ TypeOK' /\ ControlOK /\ HeldCounted /\ [Next]_vars => HeldCounted'
<1> SUFFICES ASSUME TypeOK, TypeOK', ControlOK, HeldCounted, [Next]_vars
             PROVE  HeldCounted'
  OBVIOUS
<1>1. CASE \E c \in Modbus : checkServer(c) \/ ModbusOpen(c)
  BY <1>1, ModbusCounts
<1>2. CASE descriptors' - Held' = descriptors - Held
  <2>1. Held \in Int /\ Held' \in Int /\ descriptors \in Int /\ descriptors' \in Int
    BY HeldType DEF TypeOK, Held
  <2>2. \A a, b, m, n \in Int : a - b = m - n /\ n <= m => b <= a
    OBVIOUS
  <2>3. Held' <= descriptors'
    BY <1>2, <2>1, <2>2 DEF HeldCounted
  <2> QED
    BY <2>3 DEF HeldCounted
<1> QED
  BY <1>1, <1>2, OthersForgetNone

-----------------------------------------------------------------------------
LEMMA LinkStep ==
  TypeOK /\ ControlOK /\ ConnectedHasLink /\ [Next]_vars => ConnectedHasLink'
<1> SUFFICES ASSUME TypeOK, ControlOK, ConnectedHasLink, [Next]_vars
             PROVE  ConnectedHasLink'
  OBVIOUS
<1>1. ASSUME NEW c \in Clients, c = client, Call(c)
      PROVE  ConnectedHasLink'
  <2>1. CASE c \in Modbus /\ WithoutContext(c)
    <3>1. handler' = handler /\ context' = context
      BY <2>1 DEF WithoutContext, links
    <3>2. /\ ~connected'[c]
          /\ \A d \in Clients : d # c => connected'[d] = connected[d]
      BY <1>1, <2>1, ConnectDoneEffect, ClientSets DEF WithoutContext
    <3> QED
      BY <3>1, <3>2, ClientSets DEF ConnectedHasLink
  <2>2. CASE c \in Modbus /\ checkServer(c)
    <3>1. /\ handler' = handler /\ context'[c] # "NULL"
          /\ \A d \in Modbus : d # c => context'[d] = context[d]
      BY <2>2, ContextType DEF checkServer, TypeOK
    <3>2. \A d \in Clients : d # c => connected'[d] = connected[d]
      BY <1>1, <2>2, ConnectDoneEffect, ClientSets DEF checkServer
    <3> QED
      BY <2>2, <3>1, <3>2, ClientSets DEF ConnectedHasLink
  <2>3. CASE c \in Modbus /\ ModbusOpen(c)
    <3>1. /\ handler' = handler /\ context'[c] # "NULL"
          /\ \A d \in Modbus : d # c => context'[d] = context[d]
      BY <2>3, OpenEffect DEF ModbusOpen
    <3>2. \A d \in Clients : d # c => connected'[d] = connected[d]
      BY <1>1, <2>3, ConnectDoneEffect, ClientSets DEF ModbusOpen
    <3> QED
      BY <2>3, <3>1, <3>2, ClientSets DEF ConnectedHasLink
  <2>4. CASE c \in OPC /\ InitOPC(c)
    <3>1. CASE FirstOPC(c)
      <4>1. /\ opcConnect(c, descriptors) /\ phase = "init"
            /\ context' = context
        BY <2>4, <3>1 DEF InitOPC
      <4>2. \A d \in OPC : d # c => ~connected[d]
        BY <1>1, <3>1, <4>1, ClientSets DEF ControlOK, FirstOPC, Clients, TypeOK
      <4>3. ConnectDone(c, handler' = "open")
        BY <2>4, <4>1, OpcEffect DEF TypeOK
      <4>4. /\ connected'[c] = (handler' = "open")
            /\ \A d \in Clients : d # c => connected'[d] = connected[d]
        BY <1>1, <4>1, <4>3, ConnectDoneEffect
      <4> QED
        BY <2>4, <4>1, <4>2, <4>4, ClientSets DEF ConnectedHasLink
    <3>2. CASE ~FirstOPC(c)
      <4>1. PICK d \in OPC : ConnectDone(c, connected[d])
        BY <2>4, <3>2 DEF InitOPC
      <4>2. /\ connected'[c] = connected[d]
            /\ \A e \in Clients : e # c => connected'[e] = connected[e]
        BY <1>1, <2>4, <4>1, ConnectDoneEffect, ClientSets DEF InitOPC, TypeOK
      <4>3. handler' = handler /\ context' = context
        BY <2>4, <3>2 DEF InitOPC
      <4> QED
        BY <2>4, <4>2, <4>3, ClientSets DEF ConnectedHasLink
    <3> QED
      BY <3>1, <3>2
  <2>5. CASE c \in OPC /\ ReconnectOPC(c)
    <3>1. /\ ConnectDone(c, handler' = "open")
          /\ phase # "init" /\ context' = context
      BY <2>5, OpcEffect DEF ReconnectOPC
    <3>2. /\ \A d \in OPC : connected'[d] = (handler' = "open")
          /\ \A d \in Modbus : connected'[d] = connected[d]
      BY <1>1, <2>5, <3>1, ConnectDoneEffect, ClientSets
    <3> QED
      BY <3>1, <3>2, ClientSets DEF ConnectedHasLink
  <2>6. CASE ReadOk(c)
    <3>1. handler' = handler /\ context' = context /\ Answers(c)
      BY <2>6 DEF ReadOk, links
    <3>2. connected' = connected \/ setConnectStatus(c, TRUE)
      BY <2>6 DEF ReadOk
    <3> QED
      BY <3>1, <3>2, SetStatusType, ClientSets DEF ConnectedHasLink, Answers
  <2>7. CASE FirstReadFails(c) \/ ReadFails(c)
    <3>1. handler' = handler /\ context' = context
      BY <2>7 DEF FirstReadFails, ReadFails, links
    <3>2. connected' = connected \/ setConnectStatus(c, FALSE)
      BY <2>7 DEF FirstReadFails, ReadFails
    <3> QED
      BY <3>1, <3>2, SetStatusType, ClientSets DEF ConnectedHasLink
  <2> QED
    BY <1>1, <2>1, <2>2, <2>3, <2>4, <2>5, <2>6, <2>7 DEF Call
<1>2. ASSUME NEW d \in Devices, DeviceDown(d) \/ DeviceDrops(d)
      PROVE  ConnectedHasLink'
  <2>1. Break(d)
    BY <1>2 DEF DeviceDown, DeviceDrops
  <2> QED
    BY <2>1, BreakEffect, ClientSets DEF ConnectedHasLink
<1>3. CASE \/ \E c \in Clients : manager_receive_data(c)
           \/ InitDone
           \/ \E d \in Devices : DeviceUp(d)
           \/ UNCHANGED vars
  BY <1>3 DEF manager_receive_data, InitDone, DeviceUp, vars, links,
              ConnectedHasLink
<1> QED
  BY <1>1, <1>2, <1>3 DEF Next

-----------------------------------------------------------------------------
LEMMA ContextsStep ==
  TypeOK /\ ControlOK /\ ContextsMade /\ [Next]_vars => ContextsMade'
<1> SUFFICES ASSUME TypeOK, ControlOK, ContextsMade, [Next]_vars
             PROVE  ContextsMade'
  OBVIOUS
<1>0. /\ client \in Int /\ \A d \in Clients : d \in Int
      /\ phase # "init" => client \in Clients
  BY DEF Clients, TypeOK, ControlOK
<1>1. ASSUME NEW c \in Clients, c = client, Call(c)
      PROVE  ContextsMade'
  \* The call goes on, or the initialisation leaves c.
  <2>a. ASSUME NEW status \in BOOLEAN, ConnectDone(c, status)
        PROVE  /\ phase' = phase
               /\ client' = client \/ (client' = client + 1 /\ phase = "init")
    BY <1>1, <2>a, ConnectDoneEffect
  <2>1. CASE c \in Modbus /\ WithoutContext(c)
    <3>1. context' = context /\ ConnectDone(c, FALSE)
      BY <2>1 DEF WithoutContext, links
    <3>2. phase # "init" \/ c \in NoContext
      BY <2>1 DEF WithoutContext, Context
    <3>3. /\ phase' = phase
          /\ client' = client \/ (client' = client + 1 /\ phase = "init")
      BY <3>1, <2>a
    <3> QED
      BY <1>0, <1>1, <3>1, <3>2, <3>3, ClientSets DEF ContextsMade
  <2>2. CASE c \in Modbus /\ checkServer(c)
    <3>1. /\ context'[c] # "NULL"
          /\ \A d \in Modbus : d # c => context'[d] = context[d]
      BY <2>2, ContextType DEF checkServer, TypeOK
    <3>2. /\ phase' = phase
          /\ client' = client \/ (client' = client + 1 /\ phase = "init")
      BY <2>2, <2>a DEF checkServer
    <3> QED
      BY <1>0, <1>1, <3>1, <3>2, ClientSets DEF ContextsMade
  <2>3. CASE c \in Modbus /\ ModbusOpen(c)
    <3>1. /\ context'[c] # "NULL"
          /\ \A d \in Modbus : d # c => context'[d] = context[d]
      BY <2>3, OpenEffect DEF ModbusOpen
    <3>2. /\ phase' = phase
          /\ client' = client \/ (client' = client + 1 /\ phase = "init")
      BY <2>3, <2>a DEF ModbusOpen
    <3> QED
      BY <1>0, <1>1, <3>1, <3>2, ClientSets DEF ContextsMade
  <2>4. CASE c \in OPC /\ (InitOPC(c) \/ ReconnectOPC(c))
    <3>1. \E status \in BOOLEAN : ConnectDone(c, status)
      BY <2>4, OpcEffect, ClientSets DEF InitOPC, ReconnectOPC, TypeOK
    <3>2. context' = context /\ c \notin Modbus
      BY <2>4, ClientSets DEF InitOPC, ReconnectOPC
    <3>3. /\ phase' = phase
          /\ client' = client \/ (client' = client + 1 /\ phase = "init")
      BY <3>1, <2>a
    <3> QED
      BY <1>0, <1>1, <3>2, <3>3, ClientSets DEF ContextsMade
  <2>5. CASE ReadOk(c) \/ FirstReadFails(c) \/ ReadFails(c)
    <3>1. phase # "init"
      BY <2>5 DEF ReadOk, FirstReadFails, ReadFails, ControlOK
    <3>2. phase' # "init" /\ context' = context
      BY <2>5, <3>1 DEF ReadOk, FirstReadFails, ReadFails, Return, links
    <3> QED
      BY <3>1, <3>2 DEF ContextsMade
  <2> QED
    BY <1>1, <2>1, <2>2, <2>3, <2>4, <2>5 DEF Call
<1>2. ASSUME NEW c \in Clients, manager_receive_data(c)
      PROVE  ContextsMade'
  BY <1>2 DEF manager_receive_data, links, ContextsMade, ControlOK
<1>3. CASE InitDone
  <2>1. \A c \in Clients : c < client
    BY <1>3, ManagerAssumption DEF InitDone, Clients, TypeOK
  <2> QED
    BY <1>3, <2>1, ClientSets DEF InitDone, links, ContextsMade
<1>4. ASSUME NEW d \in Devices, DeviceDown(d) \/ DeviceDrops(d)
      PROVE  ContextsMade'
  <2>1. Break(d)
    BY <1>4 DEF DeviceDown, DeviceDrops
  <2> QED
    BY <2>1, BreakEffect DEF ContextsMade
<1>5. CASE (\E d \in Devices : DeviceUp(d)) \/ UNCHANGED vars
  BY <1>5 DEF DeviceUp, vars, links, ContextsMade
<1> QED
  BY <1>1, <1>2, <1>3, <1>4, <1>5 DEF Next

-----------------------------------------------------------------------------
\* The steps of the call itself.
LEMMA SucceedsCall ==
  ASSUME IInv, NEW c \in Clients, c = client, Call(c)
  PROVE  CallSucceeds'
<1> SUFFICES ASSUME phase' # "init", steady', spare', ~interrupted', Sound(client)'
             PROVE  /\ Device[client'] \in up'
                    /\ at' = "connect" => Enough(client)'
                    /\ at' = "open" => descriptors' + 1 <= DescriptorLimit
                    /\ at' = "read" =>
                         \/ Answers(client)'
                         \/ phase' = "first" /\ Enough(client)'
                    /\ at' = "idle" => result'
  BY DEF CallSucceeds, Sound
<1> USE ManagerAssumption
<1>0. /\ TypeOK /\ ControlOK /\ HeldCounted
      /\ ConnectedHasLink /\ ContextsMade /\ CallSucceeds
      /\ descriptors \in Int /\ DescriptorLimit \in Int
  BY DEF IInv, TypeOK
<1>1. steady' = steady /\ spare' = spare /\ certified' = certified /\ up' = up
  BY DEF Call, WithoutContext, checkServer, ModbusOpen, InitOPC, ReconnectOPC,
         ReadOk, FirstReadFails, ReadFails
<1>i. ~interrupted
  BY <1>0, OpenEffect
     DEF Call, WithoutContext, checkServer, AttemptFails, ModbusOpen, InitOPC,
         ReconnectOPC, ReadOk, FirstReadFails, ReadFails
<1>2. phase # "init"
  BY <1>0, <1>1 DEF ControlOK
<1>3. client' = client
  <2>1. ASSUME NEW status \in BOOLEAN, ConnectDone(c, status)
        PROVE  client' = client
    BY <1>0, <1>2, <2>1, ConnectDoneEffect
  <2>2. CASE c \in Modbus /\ (WithoutContext(c) \/ checkServer(c) \/ ModbusOpen(c))
    BY <2>1, <2>2 DEF WithoutContext, checkServer, ModbusOpen
  <2>3. CASE c \in OPC /\ ReconnectOPC(c)
    BY <1>0, <2>1, <2>3, OpcEffect DEF ReconnectOPC
  <2>4. CASE ReadOk(c) \/ FirstReadFails(c) \/ ReadFails(c)
    BY <2>4 DEF ReadOk, FirstReadFails, ReadFails, Return
  <2> QED
    BY <1>2, <2>2, <2>3, <2>4 DEF Call, InitOPC
\* What the call had before it.
<1>4. /\ Sound(c) /\ Device[c] \in up
      /\ at = "connect" => Enough(c)
      /\ at = "open" => descriptors + 1 <= DescriptorLimit
      /\ at = "read" => \/ Answers(c)
                        \/ phase = "first" /\ Enough(c)
  BY <1>0, <1>1, <1>i, <1>2, <1>3 DEF CallSucceeds, Sound
<1>5. Device[client'] \in up'
  BY <1>1, <1>3, <1>4
<1>6. CASE c \in Modbus /\ WithoutContext(c)
  BY <1>0, <1>2, <1>4, <1>6, ContextType DEF WithoutContext, ContextsMade, Sound
<1>7. CASE c \in Modbus /\ checkServer(c)
  <2>1. /\ at = "connect"
        /\ descriptors + Sockets(c) <= DescriptorLimit
    BY <1>4, <1>7, ClientSets DEF checkServer, Enough
  <2>2. Reachable(c)
    <3> HIDE ManagerAssumption
    <3> QED
      BY <1>0, <1>4, <2>1 DEF Reachable, Sockets, Free
  <2>3. at' = "open"
    BY <1>i, <1>7, <2>2 DEF checkServer, AttemptFails
  <2>4. descriptors' = IF Protocol[c] = "TCP" THEN descriptors + 1 ELSE descriptors
    BY <1>7, <2>2 DEF checkServer, Reachable
  <2>5. descriptors' + 1 <= DescriptorLimit
    <3> HIDE ManagerAssumption
    <3> QED
      BY <1>0, <2>1, <2>4 DEF Sockets
  <2> QED
    BY <1>5, <2>3, <2>5
<1>8. CASE c \in Modbus /\ ModbusOpen(c)
  <2>1. context'[c] = "open"
    <3>1. Reachable(c)
      <4> HIDE ManagerAssumption
      <4> QED
        BY <1>0, <1>4, <1>8 DEF ModbusOpen, Reachable, Free
    <3> QED
      BY <1>0, <1>8, <3>1, OpenEffect DEF ModbusOpen
  <2>2. ConnectDone(c, TRUE)
    BY <1>8, <2>1 DEF ModbusOpen
  <2>3. at' = "read" /\ connected'[c]
    BY <1>0, <1>2, <2>2, ConnectDoneEffect
  <2> QED
    BY <1>1, <1>3, <1>4, <1>5, <1>8, <2>1, <2>3, ClientSets DEF Answers
<1>9. CASE c \in OPC /\ ReconnectOPC(c)
  <2>1. handler' = "open" /\ ConnectDone(c, TRUE)
    <3>1. at = "connect" /\ opcConnect(c, opcCloseConnection)
      BY <1>9 DEF ReconnectOPC
    <3>2. certified /\ Device[c] \in up /\ Enough(c)
      BY <1>4, <1>9, <3>1 DEF Sound
    <3>3. opcCloseConnection < DescriptorLimit
      <4> HIDE ManagerAssumption
      <4> QED
        BY <1>0, <1>9, <3>2, ClientSets DEF TypeOK, Enough, Free, opcCloseConnection
    <3> QED
      BY <1>0, <1>9, <3>1, <3>2, <3>3, OpcEffect
  <2>2. at' = "read" /\ connected'[c]
    BY <1>0, <1>2, <2>1, ConnectDoneEffect
  <2> QED
    BY <1>1, <1>3, <1>4, <1>5, <1>9, <2>1, <2>2 DEF Answers
<1>10. CASE ReadOk(c)
  BY <1>5, <1>10 DEF ReadOk, Return
<1>11. CASE FirstReadFails(c)
  \* The connection is gone, for c can be read: the call has all its descriptors.
  <2>1. Enough(c)
    BY <1>4, <1>11 DEF FirstReadFails, Sound
  <2>2. Enough(client)'
    BY <1>3, <1>11, <2>1 DEF FirstReadFails, links, Enough, Free
  <2> QED
    BY <1>5, <1>11, <2>2 DEF FirstReadFails
<1>12. CASE ReadFails(c)
  BY <1>4, <1>12 DEF ReadFails, Sound
<1> QED
  BY <1>2, <1>6, <1>7, <1>8, <1>9, <1>10, <1>11, <1>12 DEF Call, InitOPC

\* The steps between two calls, and those of the devices.
LEMMA SucceedsStep == IInv /\ [Next]_vars => CallSucceeds'
<1> SUFFICES ASSUME IInv, [Next]_vars PROVE CallSucceeds'
  OBVIOUS
<1> USE ManagerAssumption
<1>0. TypeOK /\ ControlOK /\ ConnectedHasLink /\ CallSucceeds
  BY DEF IInv
<1>1. ASSUME NEW c \in Clients, c = client, Call(c)
      PROVE  CallSucceeds'
  BY <1>1, SucceedsCall
<1>2. ASSUME NEW c \in Clients, manager_receive_data(c)
      PROVE  CallSucceeds'
  BY <1>0, <1>2 DEF manager_receive_data, links, CallSucceeds, TypeOK, Enough, Free
<1>3. CASE InitDone
  <2>1. ~steady'
    BY <1>0, <1>3 DEF InitDone, ControlOK
  <2> QED
    BY <2>1 DEF CallSucceeds
<1>4. ASSUME NEW d \in Devices, DeviceDown(d) \/ DeviceDrops(d)
      PROVE  CallSucceeds'
  <2>1. Break(d) /\ (up' = up \/ up' = up \ {d})
    BY <1>4 DEF DeviceDown, DeviceDrops
  <2>2. /\ UNCHANGED <<certified, connected, descriptors, phase, at, client,
                       result, spare, interrupted>>
        /\ steady' = (steady /\ Device[client] # d)
    BY <1>0, <2>1, BreakEffect
  <2>3. SUFFICES ASSUME phase # "init", steady, spare, ~interrupted, Sound(client),
                        Device[client] # d
                 PROVE  CallSucceeds'
    BY <2>2 DEF CallSucceeds, Sound
  <2>4. client \in Clients /\ Device[client] \in up'
    BY <1>0, <2>1, <2>3 DEF ControlOK, CallSucceeds
  <2>5. Answers(client) => Answers(client)'
    <3>1. CASE client \in OPC
      <4>1. handler' = handler
        BY <1>0, <2>1, <2>3, <3>1, BreakEffect
      <4> QED
        BY <2>2, <2>4, <3>1, <4>1 DEF Answers
    <3>2. CASE client \in Modbus
      <4>1. context'[client] = context[client]
        BY <1>0, <2>1, <2>3, <3>2, BreakEffect
      <4> QED
        BY <2>2, <2>4, <3>2, <4>1, ClientSets DEF Answers
    <3> QED
      BY <2>4, <3>1, <3>2, ClientSets
  <2>6. Enough(client) => Enough(client)'
    BY <1>0, <2>1, <2>2, <2>4 DEF Enough, Free, Break
  <2> QED
    BY <1>0, <2>2, <2>3, <2>4, <2>5, <2>6 DEF CallSucceeds
<1>5. ASSUME NEW d \in Devices, DeviceUp(d)
      PROVE  CallSucceeds'
  BY <1>0, <1>5 DEF DeviceUp, links, CallSucceeds, Answers, Sound, Enough, Free
<1>6. CASE UNCHANGED vars
  BY <1>0, <1>6 DEF vars, links, CallSucceeds, Answers, Sound, Enough, Free
<1> QED
  BY <1>1, <1>2, <1>3, <1>4, <1>5, <1>6 DEF Next

-----------------------------------------------------------------------------
LEMMA IInvInit == Init => IInv
<1> SUFFICES ASSUME Init PROVE IInv
  OBVIOUS
<1>1. TypeOK /\ ControlOK /\ HeldCounted
  BY TypeInit, ControlInit, HeldInit
<1>2. ConnectedHasLink
  BY DEF Init, ConnectedHasLink
<1>3. ContextsMade
  BY ManagerAssumption DEF Init, ContextsMade, Modbus, Clients
<1>4. CallSucceeds
  BY DEF Init, CallSucceeds
<1> QED
  BY <1>1, <1>2, <1>3, <1>4 DEF IInv

LEMMA IInvStep == IInv /\ [Next]_vars => IInv'
<1> SUFFICES ASSUME IInv, [Next]_vars PROVE IInv'
  OBVIOUS
<1>1. TypeOK /\ ControlOK /\ HeldCounted /\ ConnectedHasLink /\ ContextsMade
  BY DEF IInv
<1>2. TypeOK'
  BY <1>1, TypeStep
<1> QED
  BY <1>1, <1>2, ControlStep, HeldStep, LinkStep, ContextsStep, SucceedsStep DEF IInv

LEMMA Invariance == Spec => []IInv
<1> QED
  BY IInvInit, IInvStep, PTL DEF Spec

\* Every reachable state of the manager is well-typed.
THEOREM ManagerTypes == Spec => []TypeOK
<1>1. IInv => TypeOK
  BY DEF IInv
<1> QED
  BY <1>1, Invariance, PTL

\* A client marked as connected always has a context, or a connected handler,
\* to be read through (setConnectStatus and the two reconnections).
THEOREM LinksCoherent == Spec => []ConnectedHasLink
<1>1. IInv => ConnectedHasLink
  BY DEF IInv
<1> QED
  BY <1>1, Invariance, PTL

\* manager_receive_data keeps its word while there are descriptors: a poll
\* whose device answers throughout, and that no alarm interrupts, succeeds.
THEOREM PollsAnswered == Spec => []PollAnswers
<1>1. IInv => PollAnswers
  BY DEF IInv, ControlOK, CallSucceeds, PollAnswers
<1> QED
  BY <1>1, Invariance, PTL

-----------------------------------------------------------------------------
\* The step that ends a call leaves its client marked as the call has ended.
LEMMA FlagStep ==
  IInv /\ [Next]_vars =>
    [at # "idle" /\ at' = "idle" /\ phase # "init"
       => connected'[client] = result']_vars
<1> SUFFICES ASSUME IInv, Next, at # "idle", at' = "idle", phase # "init"
             PROVE  connected'[client] = result'
  OBVIOUS
<1>0. TypeOK /\ ControlOK
  BY DEF IInv
<1>1. ASSUME NEW c \in Clients, c = client, Call(c)
      PROVE  connected'[client] = result'
  \* Only a failed attempt ends a call.
  <2>1. ASSUME NEW status \in BOOLEAN, ConnectDone(c, status)
        PROVE  connected'[client] = result'
    BY <1>0, <1>1, <2>1, ConnectDoneEffect
  <2>2. CASE c \in Modbus /\ (WithoutContext(c) \/ checkServer(c) \/ ModbusOpen(c))
    BY <2>1, <2>2 DEF WithoutContext, checkServer, ModbusOpen
  <2>3. CASE c \in OPC /\ ReconnectOPC(c)
    BY <1>0, <2>1, <2>3, OpcEffect DEF ReconnectOPC
  <2>4. CASE ReadOk(c)
    <3>1. result' = TRUE /\ connected[c]
      BY <2>4 DEF ReadOk, Return, Answers
    <3>2. connected' = connected \/ setConnectStatus(c, TRUE)
      BY <2>4 DEF ReadOk
    <3> QED
      BY <1>0, <1>1, <3>1, <3>2, SetStatusType
  <2>5. CASE FirstReadFails(c)
    BY <2>5 DEF FirstReadFails
  <2>6. CASE ReadFails(c)
    <3>1. result' = FALSE /\ setConnectStatus(c, FALSE)
      BY <1>1, <2>6 DEF ReadFails, Return
    <3> QED
      BY <1>0, <1>1, <3>1, SetStatusType
  <2> QED
    BY <1>1, <2>2, <2>3, <2>4, <2>5, <2>6 DEF Call, InitOPC
<1>2. ASSUME NEW d \in Devices, DeviceDown(d) \/ DeviceDrops(d)
      PROVE  FALSE
  BY <1>2 DEF DeviceDown, DeviceDrops, Break
<1>3. ASSUME NEW c \in Clients, manager_receive_data(c)
      PROVE  FALSE
  BY <1>3 DEF manager_receive_data
<1> QED
  BY <1>1, <1>2, <1>3 DEF Next, InitDone, DeviceUp

\* When manager_receive_data returns, the flag of its client tells whether the
\* client has given its data.
THEOREM FlagFollowsOutcome == Spec => FlagTellsOutcome
<1> QED
  BY Invariance, FlagStep, PTL DEF Spec, FlagTellsOutcome

-----------------------------------------------------------------------------
\* No descriptor is closed while a link has it: what the contexts and the
\* handler can still close is among what the process has in use.
THEOREM DescriptorsHeld == Spec => []HeldCounted
<1>1. IInv => HeldCounted
  BY DEF IInv
<1> QED
  BY <1>1, Invariance, PTL

LEMMA ForgetStep ==
  IInv /\ [Next]_vars =>
    [Forgotten' # Forgotten => \E c \in Modbus : checkServer(c) \/ ModbusOpen(c)]_vars
<1> SUFFICES ASSUME IInv, [Next]_vars
             PROVE  \/ Forgotten' = Forgotten
                    \/ \E c \in Modbus : checkServer(c) \/ ModbusOpen(c)
  OBVIOUS
<1>1. TypeOK /\ ControlOK /\ HeldCounted
  BY DEF IInv
<1> QED
  BY <1>1, OthersForgetNone DEF Forgotten

\* The leak is in checkServer and in modbus_connect, and nowhere else: what OPC
\* clients open, they close.
THEOREM ModbusForgetsOnly == Spec => OnlyModbusForgets
<1> QED
  BY Invariance, ForgetStep, PTL DEF Spec, OnlyModbusForgets

-----------------------------------------------------------------------------
(* A service with OPC clients alone.  Its one handler is the only holder of *)
(* descriptors, so that a reconnection never lacks one, and the promise of  *)
(* manager_receive_data holds as its comment has it.                        *)

OnlyHandler == Modbus = {} /\ DescriptorLimit >= 1

NoneForgotten ==
  /\ descriptors = HandlerHas
  /\ phase # "init" /\ steady => spare
  /\ ~interrupted

LEMMA NoneForgottenStep ==
  ASSUME OnlyHandler, IInv, NoneForgotten, [Next]_vars
  PROVE  NoneForgotten'
<1>1. descriptors' = HandlerHas'
  <2>1. Linked = {} /\ Linked' = {}
    BY DEF OnlyHandler, Linked
  <2>2. Held = HandlerHas /\ Held' = HandlerHas'
    BY <2>1, HeldType, FS_EmptySet DEF Held
  <2>3. descriptors' - Held' = descriptors - Held
    BY OthersForgetNone DEF OnlyHandler, IInv
  <2>4. TypeOK'
    BY TypeStep DEF IInv
  <2>5. descriptors \in Int /\ descriptors' \in Int
    BY <2>4 DEF IInv, TypeOK
  <2>6. \A a, b, m, n \in Int : a - b = m - n /\ n = m => a = b
    OBVIOUS
  <2>7. HandlerHas \in Int /\ HandlerHas' \in Int /\ HandlerHas = descriptors
    BY HeldType DEF NoneForgotten
  <2>8. descriptors' - HandlerHas' = descriptors - HandlerHas
    BY <2>2, <2>3
  <2> QED
    BY <2>5, <2>6, <2>7, <2>8
<1>2. phase' # "init" /\ steady' => spare'
  <2>1. ASSUME NEW c \in Clients, manager_receive_data(c)
        PROVE  spare'
    <3>1. Enough(c)
      BY HeldType, ClientSets, ManagerAssumption
         DEF OnlyHandler, NoneForgotten, HandlerHas, Enough, Free
    <3> QED
      BY <2>1, <3>1 DEF manager_receive_data
  <2>2. CASE InitDone
    BY <2>2 DEF InitDone, IInv, ControlOK
  <2>3. ASSUME NEW c \in Clients, c = client, Call(c)
        PROVE  phase' # "init" /\ steady' => spare'
    <3>1. steady' = steady /\ spare' = spare
      BY <2>3 DEF Call, WithoutContext, checkServer, ModbusOpen, InitOPC,
                  ReconnectOPC, ReadOk, FirstReadFails, ReadFails
    <3>2. phase = "init" => ~steady
      BY DEF IInv, ControlOK
    <3> QED
      BY <3>1, <3>2 DEF NoneForgotten
  <2>4. CASE \E d \in Devices : DeviceDown(d) \/ DeviceDrops(d) \/ DeviceUp(d)
    <3>1. UNCHANGED <<phase, spare>>
      BY <2>4 DEF DeviceDown, DeviceDrops, DeviceUp, Break
    <3>2. steady' => steady
      <4>1. ASSUME NEW d \in Devices, Break(d)
            PROVE  steady' => steady
        BY <4>1, Zenon DEF Break
      <4> QED
        BY <2>4, <4>1 DEF DeviceDown, DeviceDrops, DeviceUp
    <3> QED
      BY <3>1, <3>2 DEF NoneForgotten
  <2>5. CASE UNCHANGED vars
    BY <2>5 DEF vars, NoneForgotten
  <2> QED
    BY <2>1, <2>2, <2>3, <2>4, <2>5 DEF Next
<1>3. ~interrupted'
  <2>1. interrupted' = interrupted \/ interrupted' = FALSE
    BY Zenon
       DEF Next, Call, OnlyHandler, InitOPC, ReconnectOPC, ReadOk, FirstReadFails,
           ReadFails, manager_receive_data, InitDone, DeviceDown, DeviceDrops,
           DeviceUp, Break, vars
  <2> QED
    BY <2>1 DEF NoneForgotten
<1> QED
  BY <1>1, <1>2, <1>3 DEF NoneForgotten

\* "Receive data from client, reconnect if error": true of OPC clients for good,
\* however often their server comes and goes; no history of the service takes
\* the descriptor that the next reconnection needs, and no alarm ends one.
THEOREM ReconnectsOPC ==
  ASSUME Modbus = {}, DescriptorLimit >= 1
  PROVE  Spec => [](Reconnects /\ ~interrupted)
<1>0. OnlyHandler
  BY DEF OnlyHandler
<1>1. Init => NoneForgotten
  BY DEF Init, NoneForgotten, HandlerHas
<1>2. IInv /\ NoneForgotten /\ [Next]_vars => NoneForgotten'
  BY <1>0, NoneForgottenStep
<1>3. IInv /\ NoneForgotten => Reconnects /\ ~interrupted
  BY DEF IInv, ControlOK, CallSucceeds, NoneForgotten, Reconnects
<1> QED
  BY <1>1, <1>2, <1>3, Invariance, PTL DEF Spec
=============================================================================
