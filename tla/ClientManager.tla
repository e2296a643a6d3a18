--------------------------- MODULE ClientManager ---------------------------
(***************************************************************************)
(* The connections to the clients: src/client_manager.c over               *)
(* src/modbus_connect.c and src/opc_connect.c.  Every Modbus client has a  *)
(* context of its own; all OPC clients share the one `_handler`.  The main *)
(* loop calls manager_init_connections once and then manager_receive_data, *)
(* for any client, again and again.  Each call on a socket is a step, for  *)
(* the devices come and go between two of them.                            *)
(*                                                                         *)
(* libmodbus and open62541 are modelled from their use: a connection       *)
(* attempt takes a descriptor and can succeed when the device is up; a     *)
(* context connected again forgets the socket it had without closing it;   *)
(* a deleted UA_Client closes its own.  The alarm of timer.c goes off      *)
(* every 100 ms without SA_RESTART, and ends a connect() of checkServer or *)
(* of libmodbus with EINTR: their attempts may fail at any time.  That of  *)
(* open62541 does not block, and an interrupted read is taken up again.    *)
(*                                                                         *)
(* `result`, `steady`, `spare` and `interrupted` are history variables.    *)
(***************************************************************************)
EXTENDS Integers, FiniteSets

CONSTANTS
  clientsCnt,     \* _clientsCnt: the clients are numbered 1 .. clientsCnt here
  Protocol,       \* Protocol[c]: "TCP" and "RTU" are Modbus
  Device,         \* Device[c]: what c connects to; OPC clients have one server
  NoContext,      \* Modbus clients libmodbus makes no context for
  Unreadable,     \* clients whose registers, or whose node, the device refuses
  DescriptorLimit \* descriptors the process has for its connections

Clients == 1 .. clientsCnt
Modbus  == {c \in Clients : Protocol[c] # "OPC"}
OPC     == Clients \ Modbus
Devices == {Device[c] : c \in Clients}

ASSUME ManagerAssumption ==
  /\ clientsCnt \in Nat \ {0}    \* manager_init_config refuses an empty list
  /\ Protocol \in [Clients -> {"TCP", "RTU", "OPC"}]
  /\ \A c, d \in OPC : Device[c] = Device[d]
  /\ NoContext \subseteq Modbus /\ Unreadable \subseteq Clients
  /\ DescriptorLimit \in Nat

VARIABLES
  up,          \* the devices that answer
  certified,   \* OPC is not secure, or its certificate and key can be loaded
  context,     \* context[c] of a Modbus client, with the state of its socket
  handler,     \* _handler
  connected,   \* connected[c] in _clientSettings
  descriptors, \* descriptors in use, those forgotten included
  phase,       \* "init": manager_init_connections; then the phase of
               \* manager_receive_data, before or after its first failed read
  at, client,  \* the call in progress, and its client
  (* history *)
  result,      \* what the last manager_receive_data has returned
  steady,      \* the device of `client` has been up since the call began
  spare,       \* and the call began with descriptors enough for it
  interrupted  \* a connection attempt of the call has failed that could succeed

links == <<context, handler, descriptors>>
vars  == <<up, certified, links, connected, phase, at, client, result, steady, spare,
           interrupted>>

TypeOK ==
  /\ up \subseteq Devices /\ certified \in BOOLEAN
  /\ context \in [Modbus -> {"NULL", "closed", "open", "broken"}]
  /\ handler \in {"NULL", "unconnected", "open", "broken"}
  /\ connected \in [Clients -> BOOLEAN]
  /\ descriptors \in 0 .. DescriptorLimit
  /\ phase \in {"init", "first", "again"}
  /\ at \in {"idle", "connect", "open", "read"}
  /\ client \in 1 .. clientsCnt + 1
  /\ result \in BOOLEAN /\ steady \in BOOLEAN /\ spare \in BOOLEAN
  /\ interrupted \in BOOLEAN

Init ==
  /\ up \in SUBSET Devices /\ certified \in BOOLEAN
  /\ context = [c \in Modbus |-> "NULL"] /\ handler = "NULL"
  /\ connected = [c \in Clients |-> FALSE]
  /\ descriptors = 0
  /\ phase = "init" /\ at = "connect" /\ client = 1
  /\ result = TRUE /\ steady = FALSE /\ spare = FALSE /\ interrupted = FALSE

Free == descriptors < DescriptorLimit

-----------------------------------------------------------------------------
(* Flags and returns.                                                      *)

\* Mutant: only the client itself is marked.
setConnectStatus_OneClient(c, status) ==
  connected' = [connected EXCEPT ![c] = status]

setConnectStatus(c, status) ==
  connected' = [d \in Clients |->
    IF d = c \/ (c \in OPC /\ d \in OPC) THEN status ELSE connected[d]]

\* manager_init_connections goes on to its next client.
NextClient ==
  /\ at' = "connect" /\ client' = client + 1
  /\ UNCHANGED <<phase, result>>

Return(value) ==
  /\ at' = "idle" /\ result' = value
  /\ UNCHANGED <<phase, client>>

\* A connection attempt is over.
ConnectDone(c, status) ==
  IF phase = "init"
    THEN connected' = [connected EXCEPT ![c] = status] /\ NextClient
    ELSE /\ setConnectStatus(c, status)
         /\ IF status
              THEN at' = "read" /\ UNCHANGED <<phase, client, result>>
              ELSE Return(FALSE)

-----------------------------------------------------------------------------
(* Modbus: modbusConnect in the phase "init", modbusReconnect later.       *)

\* modbusConnect makes the context; without one nothing is ever opened.
Context(c) ==
  IF phase # "init" THEN context[c]
                    ELSE IF c \in NoContext THEN "NULL" ELSE "closed"

WithoutContext(c) ==
  /\ at = "connect" /\ Context(c) = "NULL"
  /\ ConnectDone(c, FALSE)
  /\ UNCHANGED <<up, certified, links, steady, spare, interrupted>>

\* A connection attempt for c can succeed: a serial line opens though no device
\* listens on it.
Reachable(c) == Free /\ (Protocol[c] = "TCP" => Device[c] \in up)

\* An attempt for c has failed, for want of the server or of a descriptor, or
\* because the alarm came while connect() waited.
AttemptFails(c) == interrupted' = (interrupted \/ Reachable(c))

\* checkServer: its socket is shut down, or left when connect() fails, and never
\* closed.
checkServer(c) ==
  /\ at = "connect" /\ Context(c) # "NULL"
  /\ context' = [context EXCEPT ![c] = Context(c)]
  /\ IF Protocol[c] = "TCP" /\ Free THEN descriptors' = descriptors + 1
                                    ELSE UNCHANGED descriptors
  /\ \/ /\ Protocol[c] = "TCP" => Reachable(c)
        /\ at' = "open"
        /\ UNCHANGED <<connected, phase, client, result, interrupted>>
     \/ /\ Protocol[c] = "TCP"
        /\ AttemptFails(c) /\ ConnectDone(c, FALSE)
  /\ UNCHANGED <<up, certified, handler, steady, spare>>

\* modbus_connect opens a socket, or closes it when it fails, and forgets the one
\* the context had.
modbus_connect(c) ==
  \/ /\ Reachable(c)
     /\ context' = [context EXCEPT ![c] = "open"] /\ descriptors' = descriptors + 1
     /\ UNCHANGED interrupted
  \/ /\ context' = [context EXCEPT ![c] = "closed"] /\ UNCHANGED descriptors
     /\ AttemptFails(c)

\* modbusConnect looks away from an error of modbus_connect and returns true.
ModbusOpen(c) ==
  /\ at = "open"
  /\ modbus_connect(c)
  /\ ConnectDone(c, phase = "init" \/ context'[c] = "open")
  /\ UNCHANGED <<up, certified, handler, steady, spare>>

-----------------------------------------------------------------------------
(* OPC: opcCloseConnection and opcConnect.                                 *)

\* Mutant: the handler is deleted whether there is one or not.
opcCloseConnection_NoCheck == descriptors - 1

\* Mutant: the handler is overwritten without being deleted.
opcCloseConnection_Never == descriptors

\* The descriptors in use once the handler is deleted.
opcCloseConnection ==
  IF handler \in {"open", "broken"} THEN descriptors - 1 ELSE descriptors

\* Without a certificate opcConnect leaves a handler that it never connects.
opcConnect(c, used) ==
  /\ handler' = IF ~certified THEN "unconnected"
                ELSE IF Device[c] \in up /\ used < DescriptorLimit
                       THEN "open" ELSE "NULL"
  /\ descriptors' = IF handler' = "open" THEN used + 1 ELSE used
  /\ ConnectDone(c, handler' = "open")

\* manager_init_connections connects for the first OPC client, and marks the
\* others like it.
FirstOPC(c) == \A d \in OPC : c <= d

InitOPC(c) ==
  /\ at = "connect" /\ phase = "init"
  /\ IF FirstOPC(c)
       THEN opcConnect(c, descriptors)
       ELSE /\ \E d \in OPC : FirstOPC(d) /\ ConnectDone(c, connected[d])
            /\ UNCHANGED <<handler, descriptors>>
  /\ UNCHANGED <<up, certified, context, steady, spare, interrupted>>

ReconnectOPC(c) ==
  /\ at = "connect" /\ phase # "init"
  /\ opcConnect(c, opcCloseConnection)
  /\ UNCHANGED <<up, certified, context, steady, spare, interrupted>>

-----------------------------------------------------------------------------
(* manager_receive_data.                                                   *)

\* Initialisation is over.
InitDone ==
  /\ phase = "init" /\ client > clientsCnt
  /\ at' = "idle" /\ phase' = "first" /\ client' = 1
  /\ UNCHANGED <<up, certified, links, connected, result, steady, spare, interrupted>>

\* checkServer and modbus_connect each open a socket; for a serial line there is
\* no checkServer.
Sockets(c) == IF Protocol[c] = "TCP" THEN 2 ELSE 1

\* There is what the longest call for c takes; a handler that is deleted gives
\* back the one it has.
Enough(c) ==
  \/ c \in OPC /\ (handler \in {"open", "broken"} \/ Free)
  \/ c \in Modbus /\ descriptors + Sockets(c) <= DescriptorLimit

manager_receive_data(c) ==
  /\ at = "idle"
  /\ client' = c /\ phase' = "first"
  /\ at' = IF connected[c] THEN "read" ELSE "connect"
  /\ steady' = (Device[c] \in up)
  /\ spare' = Enough(c) /\ interrupted' = FALSE
  /\ UNCHANGED <<up, certified, links, connected, result>>

\* The device answers a request of c.
Answers(c) ==
  /\ connected[c] /\ Device[c] \in up
  /\ IF c \in OPC THEN handler = "open" ELSE context[c] = "open"

ReadOk(c) ==
  /\ at = "read" /\ Answers(c) /\ c \notin Unreadable
  /\ IF phase = "first" THEN UNCHANGED connected ELSE setConnectStatus(c, TRUE)
  /\ Return(TRUE)
  /\ UNCHANGED <<up, certified, links, steady, spare, interrupted>>

\* Mutant: the first failure ends the call.
FirstReadFails_NoRetry(c) ==
  /\ at = "read" /\ phase = "first"
  /\ ~Answers(c) \/ c \in Unreadable
  /\ setConnectStatus(c, FALSE)
  /\ Return(FALSE)
  /\ UNCHANGED <<up, certified, links, steady, spare, interrupted>>

\* The first failure leads to a reconnection, whatever has failed.
FirstReadFails(c) ==
  /\ at = "read" /\ phase = "first"
  /\ ~Answers(c) \/ c \in Unreadable
  /\ setConnectStatus(c, FALSE)
  /\ at' = "connect" /\ phase' = "again"
  /\ UNCHANGED <<up, certified, links, client, result, steady, spare, interrupted>>

\* Mutant: the second failure does not mark the client.
ReadFails_StaysConnected(c) ==
  /\ at = "read" /\ phase = "again"
  /\ ~Answers(c) \/ c \in Unreadable
  /\ UNCHANGED connected
  /\ Return(FALSE)
  /\ UNCHANGED <<up, certified, links, steady, spare, interrupted>>

\* The second failure marks the client, and ends the call.
ReadFails(c) ==
  /\ at = "read" /\ phase = "again"
  /\ ~Answers(c) \/ c \in Unreadable
  /\ setConnectStatus(c, FALSE)
  /\ Return(FALSE)
  /\ UNCHANGED <<up, certified, links, steady, spare, interrupted>>

-----------------------------------------------------------------------------
(* The devices.                                                            *)

\* Some of the connections to d break; a serial line has no connection.
Break(d) ==
  /\ \E B \in SUBSET {c \in Modbus : /\ Protocol[c] = "TCP" /\ Device[c] = d
                                     /\ context[c] = "open"} :
       context' = [c \in Modbus |-> IF c \in B THEN "broken" ELSE context[c]]
  /\ \/ UNCHANGED handler
     \/ /\ handler = "open" /\ \E c \in OPC : Device[c] = d
        /\ handler' = "broken"
  /\ steady' = (steady /\ Device[client] # d)
  /\ UNCHANGED <<certified, connected, descriptors, phase, at, client, result,
                 spare, interrupted>>

DeviceDown(d) == d \in up /\ up' = up \ {d} /\ Break(d)

\* The device drops connections, or has been down and up again.
DeviceDrops(d) == d \in up /\ UNCHANGED up /\ Break(d)

DeviceUp(d) ==
  /\ d \notin up /\ up' = up \union {d}
  /\ UNCHANGED <<certified, links, connected, phase, at, client, result, steady,
                 spare, interrupted>>

-----------------------------------------------------------------------------
Call(c) ==
  \/ /\ c \in Modbus
     /\ WithoutContext(c) \/ checkServer(c) \/ ModbusOpen(c)
  \/ c \in OPC /\ (InitOPC(c) \/ ReconnectOPC(c))
  \/ ReadOk(c) \/ FirstReadFails(c) \/ ReadFails(c)

Next ==
  \/ \E c \in Clients : (c = client /\ Call(c)) \/ manager_receive_data(c)
  \/ InitDone
  \/ \E d \in Devices : DeviceDown(d) \/ DeviceDrops(d) \/ DeviceUp(d)

Spec == Init /\ [][Next]_vars

-----------------------------------------------------------------------------
(* Properties.                                                             *)

\* A client marked as connected has something to read through: no poll goes to
\* a NULL context, nor to a handler that another OPC client has left NULL or
\* unconnected.
ConnectedHasLink ==
  \A c \in Clients : connected[c] =>
    IF c \in OPC THEN handler \in {"open", "broken"} ELSE context[c] # "NULL"

\* A client that can be read at all.
Sound(c) ==
  c \notin Unreadable \union NoContext /\ (c \in OPC => certified)

\* A poll whose device answers throughout succeeds as long as there are
\* descriptors, whatever the polls before it, of any client, have left behind,
\* unless the alarm interrupts a connection attempt of a Modbus client.  OPC
\* clients need none that is free once their handler has one.
PollAnswers ==
  at = "idle" /\ steady /\ spare /\ ~interrupted /\ Sound(client) => result

\* The descriptors that a link can still be closed with.
Linked == {c \in Modbus : context[c] \in {"open", "broken"}}
HandlerHas == IF handler \in {"open", "broken"} THEN 1 ELSE 0
Held == Cardinality(Linked) + HandlerHas

\* No descriptor is closed under a link that has it, nor twice: those of the
\* links, each with one of its own, are among those in use.
HeldCounted == Held <= descriptors

\* Descriptors in use that no link has any more.
Forgotten == descriptors - Held

\* A descriptor is forgotten in checkServer and in modbus_connect alone: however
\* often the server of the OPC clients goes away, none is lost on it.
OnlyModbusForgets ==
  [][Forgotten' # Forgotten
       => \E c \in Modbus : checkServer(c) \/ ModbusOpen(c)]_vars

\* Where the calls are: the initialisation passes over the clients in order,
\* and only a Modbus client with a context gets to modbus_connect.
ControlOK ==
  /\ phase = "init" => at \in {"connect", "open"} /\ ~steady
  /\ phase # "init" => client \in Clients
  /\ at = "open" => client \in Modbus /\ context[client] # "NULL"
  /\ phase = "init" => \A c \in Clients : connected[c] => c < client
  /\ phase = "init" => handler = "NULL" \/ \E d \in OPC : d < client

ContextsMade ==
  \A c \in Modbus \ NoContext :
    phase # "init" \/ c < client => context[c] # "NULL"

\* What a call that is bound to succeed still has before it.
CallSucceeds ==
  phase # "init" /\ steady /\ spare /\ ~interrupted /\ Sound(client) =>
    /\ Device[client] \in up
    /\ at = "connect" => Enough(client)
    /\ at = "open" => descriptors + 1 <= DescriptorLimit
    /\ at = "read" => \/ Answers(client)
                      \/ (phase = "first" /\ Enough(client))
    /\ at = "idle" => result

IInv ==
  /\ TypeOK /\ ControlOK /\ HeldCounted
  /\ ConnectedHasLink /\ ContextsMade /\ CallSucceeds

\* manager_receive_data: "Receive data from client, reconnect if error"
\* (client_manager.c:737): a poll whose device answers throughout succeeds, if no
\* alarm interrupts it.
Reconnects ==
  at = "idle" /\ steady /\ ~interrupted /\ Sound(client) => result

\* When manager_receive_data returns, the client is marked as connected exactly
\* when it has given its data.
FlagTellsOutcome ==
  [][at # "idle" /\ at' = "idle" /\ phase # "init"
       => connected'[client] = result']_vars
=============================================================================
