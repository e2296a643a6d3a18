------------------------------ MODULE Startup ------------------------------
(***************************************************************************)
(* INIT_SYS: init_sys of src/main.c is called again and again until the    *)
(* broker, the clients and the timer are ready, with mqtt_init of          *)
(* src/mqtt_connect.c, manager_init_config of src/client_manager.c, and    *)
(* the clients entered in the lanes and the counters.  What follows is     *)
(* MainLoop.tla, where one call of init_sys is one step; how connections   *)
(* to clients are made is ClientManager.tla.                               *)
(*                                                                         *)
(* The configuration is read once, before; of a client it says whether its *)
(* common settings, and those of its protocol, are the ones looked for (an *)
(* mb_type of another name than TCP and RTU has nothing looked for).       *)
(* `made`, `opened` and `waited` are history variables.                    *)
(***************************************************************************)
EXTENDS Naturals, Sequences

CONSTANTS
  MAX_CLIENT_NUM,  \* the most clients, and the cells of a lane
  Rates,           \* refresh rates
  Clients,         \* the clients a configuration may have, as they are written
  MaxTries         \* bound: instances of the MQTT library

DataTypes == {"bool", "int", "double", "dword", "time", "enum", "char"}

ASSUME StartupAssumption ==
  /\ MAX_CLIENT_NUM \in Nat \ {0} /\ MaxTries \in Nat \ {0}
  /\ Clients \subseteq [common : BOOLEAN, specific : BOOLEAN, refresh_rate : Rates,
                        protocol : {"modbus", "opc"}, data_type : DataTypes]

VARIABLES
  common, opc_ua, clients,  \* the sections of the configuration
  state,                    \* dev_status: INIT_SYS or PROCESS,
  mqtt, manager, timer,     \* and what is ready
  at,                       \* the next step of init_sys
  mosq,                     \* the instance of the MQTT library, 0 for none
  made,                     \* instances made so far
  links,                    \* links[n]: what instance n has reached
  _clientSettings,          \* clients read from the configuration
  lanes,                    \* lanes[r]: innerIdx of the clients of that rate
  counters,                 \* innerIdx of the clients that have a counter
  idx,                      \* innerIdx of the client to be entered next
  opened,                   \* calls of manager_init_connections
  waited                    \* init_sys has paused since its last call of mqtt_init

cfg == <<common, opc_ua, clients>>
status == <<state, mqtt, manager, timer>>
broker == <<mosq, made, links>>
registers == <<lanes, counters>>
vars == <<cfg, status, at, broker, _clientSettings, idx, registers, opened,
          waited>>

Indices == 0 .. MAX_CLIENT_NUM - 1

Settings ==
  [refreshRate : Rates, protocol : {"modbus", "opc"}, dataType : DataTypes,
   registersToRead : {0, 1, 2, 4}]

TypeOK ==
  /\ common \in BOOLEAN /\ opc_ua \in {"none", "wrong", "sound"}
  /\ clients \in Seq(Clients)
  /\ state \in {"INIT_SYS", "PROCESS"}
  /\ mqtt \in BOOLEAN /\ manager \in BOOLEAN /\ timer \in BOOLEAN
  /\ at \in {"begin", "new", "tls", "connect", "loop", "config", "client", "open",
             "queue", "timer", "end", "run"}
  /\ made \in 0 .. MaxTries /\ mosq \in 0 .. made
  /\ links \in [1 .. MaxTries -> {"none", "new", "connected", "served"}]
  /\ _clientSettings \in Seq(Settings) /\ Len(_clientSettings) <= MAX_CLIENT_NUM
  /\ lanes \in [Rates -> Seq(Indices)] /\ counters \subseteq Indices
  /\ \A r \in Rates : Len(lanes[r]) <= MAX_CLIENT_NUM
  /\ idx \in 0 .. MAX_CLIENT_NUM /\ opened \in Nat /\ waited \in BOOLEAN

Init ==
  /\ common \in BOOLEAN /\ opc_ua \in {"none", "wrong", "sound"}
  /\ \E n \in 0 .. MAX_CLIENT_NUM + 1 : clients \in [1 .. n -> Clients]
  /\ state = "INIT_SYS" /\ mqtt = FALSE /\ manager = FALSE /\ timer = FALSE
  /\ at = "begin"
  /\ mosq = 0 /\ made = 0 /\ links = [n \in 1 .. MaxTries |-> "none"]
  /\ _clientSettings = <<>>
  /\ lanes = [r \in Rates |-> <<>>] /\ counters = {}
  /\ idx = 0 /\ opened = 0 /\ waited = TRUE

-----------------------------------------------------------------------------
\* Mutant: the broker is set up at every call.
MqttIsUp_Never == FALSE

\* A part that is ready is not set up again.
MqttIsUp == mqtt

ManagerNext == IF manager THEN "timer" ELSE "config"

\* init_sys begins.
Begin ==
  /\ at = "begin"
  /\ timer' = FALSE
  /\ at' = IF MqttIsUp THEN ManagerNext ELSE "new"
  /\ UNCHANGED <<cfg, state, mqtt, manager, broker, _clientSettings, idx, registers,
                 opened, waited>>

-----------------------------------------------------------------------------
(* mqtt_init: every call makes an instance; a call that fails returns with *)
(* the instance left behind.                                               *)

MqttFails == made < MaxTries /\ at' = ManagerNext /\ UNCHANGED <<mqtt, links>>

\* mosquitto_new; without memory there is no instance.
New ==
  /\ at = "new" /\ waited' = FALSE
  /\ \/ mosq' = 0 /\ UNCHANGED made /\ MqttFails
     \/ /\ made < MaxTries
        /\ made' = made + 1 /\ mosq' = made'
        /\ links' = [links EXCEPT ![mosq'] = "new"] /\ UNCHANGED mqtt
        /\ at' = "tls"
  /\ UNCHANGED <<cfg, state, manager, timer, _clientSettings, idx, registers,
                 opened>>

\* mosquitto_tls_set and mosquitto_tls_insecure_set.
Tls ==
  /\ at = "tls"
  /\ \/ MqttFails
     \/ at' = "connect" /\ UNCHANGED <<mqtt, links>>
  /\ UNCHANGED <<cfg, state, manager, timer, mosq, made, _clientSettings, idx,
                 registers, opened, waited>>

\* mosquitto_connect.
Connect ==
  /\ at = "connect"
  /\ \/ MqttFails
     \/ links' = [links EXCEPT ![mosq] = "connected"] /\ at' = "loop" /\ UNCHANGED mqtt
  /\ UNCHANGED <<cfg, state, manager, timer, mosq, made, _clientSettings, idx,
                 registers, opened, waited>>

\* mosquitto_loop_start makes the thread that serves the connection; without
\* it the connection stays open and unserved.
Loop ==
  /\ at = "loop"
  /\ \/ MqttFails
     \/ links' = [links EXCEPT ![mosq] = "served"] /\ mqtt' = TRUE /\ at' = ManagerNext
  /\ UNCHANGED <<cfg, state, manager, timer, mosq, made, _clientSettings, idx,
                 registers, opened, waited>>

-----------------------------------------------------------------------------
(* manager_init_config and manager_init_connections.                       *)

\* init_sys returns without its pause; main waits for a second and calls it again.
Refused == at' = "begin"

\* Mutant: one client too many gets through.
CountOk_OffByOne == Len(clients) \in 1 .. MAX_CLIENT_NUM + 1

\* Mutant: a full configuration is refused.
CountOk_Strict == Len(clients) \in 1 .. MAX_CLIENT_NUM - 1

CountOk == Len(clients) \in 1 .. MAX_CLIENT_NUM

\* The sections common and opc_ua, and the number of clients.
Config ==
  /\ at = "config"
  /\ IF common /\ opc_ua # "wrong" /\ CountOk THEN at' = "client" ELSE Refused
  /\ _clientSettings' = <<>>
  /\ UNCHANGED <<cfg, status, broker, idx, registers, opened, waited>>

\* The registers that a value takes over Modbus; a char has no number of them.
Registers(type) ==
  CASE type = "bool" -> 1
    [] type \in {"int", "enum"} -> 2
    [] type \in {"dword", "double", "time"} -> 4
    [] OTHER -> 0

ClientOk(c) ==
  /\ c.common /\ c.specific
  /\ c.protocol = "modbus" => Registers(c.data_type) # 0
  /\ c.protocol = "opc" => opc_ua = "sound"

\* One client is read.  A client that is refused leaves some of its settings
\* behind, and those of the clients before it; all are written again, the same,
\* by the next call, before anything reads them.
Client ==
  /\ at = "client"
  /\ LET c == clients[Len(_clientSettings) + 1] IN
       IF ClientOk(c)
         THEN /\ _clientSettings' =
                   Append(_clientSettings,
                     [refreshRate |-> c.refresh_rate, protocol |-> c.protocol,
                      dataType |-> c.data_type,
                      registersToRead |-> IF c.protocol = "modbus"
                                            THEN Registers(c.data_type) ELSE 0])
              /\ at' = IF Len(_clientSettings) + 1 = Len(clients) THEN "open"
                                                                  ELSE "client"
         ELSE Refused /\ UNCHANGED _clientSettings
  /\ UNCHANGED <<cfg, status, broker, idx, registers, opened, waited>>

\* manager_init_connections, whose result is only logged, and queueCleen.
Open ==
  /\ at = "open" /\ at' = "queue"
  /\ opened' = opened + 1 /\ idx' = 0
  /\ lanes' = [r \in Rates |-> <<>>]
  /\ UNCHANGED <<cfg, status, broker, _clientSettings, counters, waited>>

\* Mutant: the lanes are emptied before every client.
queueAdd_CleansEach(r, i) == lanes' = [q \in Rates |-> IF q = r THEN <<i>> ELSE <<>>]

queueAdd(r, i) == lanes' = [lanes EXCEPT ![r] = Append(@, i)]

\* One client is entered in its lane and gets its counter; a lane that is full
\* refuses it, and all is begun again.
Queue ==
  /\ at = "queue"
  /\ IF idx = Len(_clientSettings)
       THEN /\ manager' = TRUE /\ at' = "timer"
            /\ UNCHANGED <<idx, registers>>
       ELSE LET r == _clientSettings[idx + 1].refreshRate IN
              IF Len(lanes[r]) < MAX_CLIENT_NUM
                THEN /\ queueAdd(r, idx)
                     /\ counters' = counters \union {idx}
                     /\ idx' = idx + 1 /\ UNCHANGED <<manager, at>>
                ELSE Refused /\ UNCHANGED <<manager, idx, registers>>
  /\ UNCHANGED <<cfg, state, mqtt, timer, broker, _clientSettings, opened, waited>>

-----------------------------------------------------------------------------
\* Mutant: one part is enough.
Ready_Either == mqtt \/ manager

Ready == mqtt /\ manager

\* timer_init and timer_start: setitimer may fail.
Timer ==
  /\ at = "timer" /\ at' = "end"
  /\ IF Ready THEN timer' \in BOOLEAN ELSE UNCHANGED timer
  /\ UNCHANGED <<cfg, state, mqtt, manager, broker, _clientSettings, idx, registers,
                 opened, waited>>

\* Mutant: without the broker init_sys is called again at once.
Pause_ForTimer == IF mqtt THEN waited' = TRUE ELSE UNCHANGED waited

Pause == waited' = TRUE

AllReady == timer /\ Ready

\* The mode changes if all is ready; otherwise main waits and calls again.
End ==
  /\ at = "end"
  /\ IF AllReady
       THEN state' = "PROCESS" /\ at' = "run" /\ UNCHANGED waited
       ELSE at' = "begin" /\ Pause /\ UNCHANGED state
  /\ UNCHANGED <<cfg, mqtt, manager, timer, broker, _clientSettings, idx, registers,
                 opened>>

\* The main loop, which does not come back.
Run == at = "run" /\ UNCHANGED vars

Step ==
  \/ Begin \/ New \/ Tls \/ Connect \/ Loop
  \/ Config \/ Client \/ Open \/ Queue \/ Timer \/ End

Next == Step \/ Run

Spec == Init /\ [][Next]_vars

Made == New /\ mosq' # 0
Started == Timer /\ timer'

(* The process runs; memory for an instance is found in the end, and       *)
(* setitimer does not fail for ever.  That the broker does not refuse for  *)
(* ever is the bound MaxTries: the last instance is connected and served.  *)
FairSpec == Spec /\ WF_vars(Step) /\ SF_vars(Made) /\ SF_vars(Started)

-----------------------------------------------------------------------------
\* What the configuration must say of a client.
Usable(c) ==
  /\ c.common /\ c.specific
  /\ ~(c.protocol = "modbus" /\ c.data_type = "char")
  /\ ~(c.protocol = "opc" /\ opc_ua # "sound")

Accepted ==
  /\ common /\ opc_ua # "wrong" /\ Len(clients) \in 1 .. MAX_CLIENT_NUM
  /\ \A n \in 1 .. Len(clients) : Usable(clients[n])

\* Reports are published through the instance that the network thread serves,
\* however many attempts have left an instance behind, and it is the only one:
\* two threads would go on holding two connections to the broker.
ServedInstance ==
  /\ mqtt => mosq # 0 /\ links[mosq] = "served"
  /\ \A n \in 1 .. MaxTries : links[n] = "served" => mqtt /\ n = mosq

\* In service, every client of the configuration is in one cell of one lane, that
\* of its rate, with a counter, and the configuration says of it what it must;
\* nothing else is in the lanes.
Registered ==
  state = "PROCESS" =>
    /\ Accepted
    /\ Len(_clientSettings) = Len(clients)
    /\ \A r \in Rates : \A k \in DOMAIN lanes[r] :
         /\ lanes[r][k] < Len(clients)
         /\ clients[lanes[r][k] + 1].refresh_rate = r
         /\ \A j \in DOMAIN lanes[r] : lanes[r][j] = lanes[r][k] => j = k
    /\ \A i \in 0 .. Len(clients) - 1 :
         /\ i \in counters
         /\ \E k \in DOMAIN lanes[clients[i + 1].refresh_rate] :
              lanes[clients[i + 1].refresh_rate][k] = i

\* The connections to the clients are made once, and only for a configuration
\* that is accepted: what it is checked for is enough for the lanes, which would
\* otherwise have all of them made again, over those that are open.
ConnectedOnce == opened <= 1 /\ (opened = 1 => Accepted)

\* The broker is not called twice without the pause of init_sys, unless the
\* configuration is wrong.
Paced == [][at # "new" /\ at' = "new" => waited \/ ~Accepted]_vars

\* The calls of init_sys, with the attempts that fail, keep what Service.tla
\* promises to the main loop.
Start == INSTANCE Service WITH inService <- state = "PROCESS"

ImplementsService == Start!Spec

\* An accepted configuration gets the gateway into service.
StartsIfAccepted == Accepted ~> state = "PROCESS"
=============================================================================
