---------------------------- MODULE StartupProofs ----------------------------
(***************************************************************************)
(* Proofs about the start of the gateway, for any configuration, any       *)
(* limit of clients and any number of attempts at the broker: one instance *)
(* of the MQTT library is served, the clients of an accepted configuration *)
(* are all entered once, no lane ever refuses one, so the connections are  *)
(* made once, and a refused configuration alone is retried without a       *)
(* pause.                                                                  *)
(***************************************************************************)
EXTENDS Startup, TLAPS

USE StartupAssumption

InMqtt == {"new", "tls", "connect", "loop"}

\* The instance is set up while init_sys is in mqtt_init.
BrokerOk ==
  /\ ServedInstance
  /\ at \in InMqtt => ~mqtt
  /\ at \in {"tls", "connect", "loop"} => mosq # 0

\* The first n clients are accepted, and their rates are known.
Read(n) ==
  \A k \in 1 .. n : /\ Usable(clients[k])
                    /\ _clientSettings[k].refreshRate = clients[k].refresh_rate

SectionsOk == common /\ opc_ua # "wrong" /\ Len(clients) \in 1 .. MAX_CLIENT_NUM

\* The first n clients are in the lanes, each once and in its own, and no other.
InLanes(n) ==
  /\ \A r \in Rates :
       /\ Len(lanes[r]) <= n
       /\ \A k \in 1 .. Len(lanes[r]) :
            /\ lanes[r][k] \in 0 .. n - 1
            /\ clients[lanes[r][k] + 1].refresh_rate = r
            /\ \A j \in 1 .. Len(lanes[r]) : lanes[r][j] = lanes[r][k] => j = k
  /\ \A i \in 0 .. n - 1 :
       /\ i \in counters
       /\ \E k \in 1 .. Len(lanes[clients[i + 1].refresh_rate]) :
            lanes[clients[i + 1].refresh_rate][k] = i

ConfigRead == at \in {"open", "queue"} \/ manager

ManagerOk ==
  /\ at \in {"config", "client", "open", "queue"} => ~manager
  /\ at = "client" => /\ SectionsOk
                      /\ Len(_clientSettings) < Len(clients)
                      /\ Read(Len(_clientSettings))
  /\ ConfigRead => /\ SectionsOk
                   /\ Len(_clientSettings) = Len(clients)
                   /\ Read(Len(clients))
  /\ at = "queue" \/ manager => idx <= Len(clients) /\ InLanes(idx)
  /\ manager => idx = Len(clients)
  /\ opened = IF at = "queue" \/ manager THEN 1 ELSE 0

ModeOk ==
  /\ at = "run" <=> state = "PROCESS"
  /\ at = "run" => manager

PauseOk == at = "begin" => waited \/ ~Accepted

IInv == TypeOK /\ BrokerOk /\ ManagerOk /\ ModeOk /\ PauseOk

-----------------------------------------------------------------------------
\* What the loop over the clients looks at is what makes a client usable.
LEMMA ClientOkUsable ==
  ASSUME NEW c \in Clients
  PROVE  /\ ClientOk(c) <=> Usable(c)
         /\ Registers(c.data_type) \in {0, 1, 2, 4}
BY DEF ClientOk, Usable, Registers, DataTypes

\* What is said of the configuration and of the lanes stays while they do.
LEMMA Frame ==
  ASSUME UNCHANGED cfg
  PROVE  /\ SectionsOk' = SectionsOk /\ Accepted' = Accepted
         /\ UNCHANGED _clientSettings => \A n : Read(n)' = Read(n)
         /\ UNCHANGED registers => \A n : InLanes(n)' = InLanes(n)
<1>1. UNCHANGED <<common, opc_ua, clients>>
  BY DEF cfg
<1>2. SectionsOk' = SectionsOk /\ Accepted' = Accepted
  BY <1>1 DEF SectionsOk, Accepted, Usable
<1>3. ASSUME UNCHANGED _clientSettings, NEW n PROVE Read(n)' = Read(n)
  BY <1>1, <1>3 DEF Read, Usable
<1>4. ASSUME UNCHANGED registers, NEW n PROVE InLanes(n)' = InLanes(n)
  BY <1>1, <1>4 DEF InLanes, registers
<1> QED
  BY <1>2, <1>3, <1>4

\* A configuration that has been read is accepted.
LEMMA ReadAccepted ==
  SectionsOk /\ Read(Len(clients)) => Accepted
BY DEF SectionsOk, Read, Accepted

LEMMA IInvInit == Init => IInv
<1> SUFFICES ASSUME Init PROVE IInv
  OBVIOUS
<1>1. clients \in Seq(Clients)
  <2>1. PICK n \in 0 .. MAX_CLIENT_NUM + 1 : clients \in [1 .. n -> Clients]
    BY DEF Init
  <2> QED
    BY <2>1
<1>2. lanes \in [Rates -> Seq(Indices)] /\ \A r \in Rates : Len(lanes[r]) = 0
  BY DEF Init
<1>3. /\ _clientSettings \in Seq(Settings) /\ Len(_clientSettings) = 0
      /\ links \in [1 .. MaxTries -> {"none", "new", "connected", "served"}]
  BY DEF Init
<1>4. TypeOK
  <2>1. /\ idx \in 0 .. MAX_CLIENT_NUM /\ opened \in Nat /\ counters \subseteq Indices
        /\ made \in 0 .. MaxTries /\ mosq \in 0 .. made
    BY DEF Init
  <2>2. /\ common \in BOOLEAN /\ opc_ua \in {"none", "wrong", "sound"}
        /\ state \in {"INIT_SYS", "PROCESS"} /\ at = "begin" /\ waited \in BOOLEAN
        /\ mqtt \in BOOLEAN /\ manager \in BOOLEAN /\ timer \in BOOLEAN
    BY DEF Init
  <2> QED
    BY <1>1, <1>2, <1>3, <2>1, <2>2 DEF TypeOK
<1>5. BrokerOk
  BY DEF Init, BrokerOk, ServedInstance, InMqtt
<1>6. ManagerOk /\ ModeOk /\ PauseOk
  BY DEF Init, ManagerOk, ConfigRead, ModeOk, PauseOk
<1> QED
  BY <1>4, <1>5, <1>6 DEF IInv

\* Begin, Timer and End change only where init_sys stands.
LEMMA FrameStep == IInv /\ (Begin \/ Timer \/ End) => IInv'
<1> SUFFICES ASSUME IInv, Begin \/ Timer \/ End PROVE IInv'
  OBVIOUS
<1>0. /\ UNCHANGED <<common, opc_ua, clients, mqtt, manager, mosq, made, links,
                     _clientSettings, idx, lanes, counters, opened>>
      /\ UNCHANGED <<cfg, registers>>
  BY DEF Begin, Timer, End, cfg, broker, registers
<1>1. /\ at' \in {"begin", "new", "config", "timer", "end", "run"}
      /\ at \in {"begin", "timer", "end"}
      /\ at' \in InMqtt => at' = "new" /\ ~mqtt
      /\ at' = "config" => ~manager
      /\ at' = "run" => manager /\ state' = "PROCESS"
      /\ at' # "run" => state' = state
      /\ at' = "begin" => waited'
      /\ waited' \in BOOLEAN /\ timer' \in BOOLEAN
  BY DEF Begin, Timer, End, MqttIsUp, ManagerNext, AllReady, Ready, Pause, InMqtt,
         IInv, TypeOK
<1>2. TypeOK'
  BY <1>0, <1>1 DEF IInv, TypeOK
<1>3. BrokerOk'
  BY <1>0, <1>1 DEF IInv, BrokerOk, ServedInstance, InMqtt
<1>4. ManagerOk'
  <2>1. /\ SectionsOk' = SectionsOk
        /\ \A n : Read(n)' = Read(n) /\ InLanes(n)' = InLanes(n)
    BY <1>0, Frame
  <2> QED
    BY <1>0, <1>1, <2>1 DEF IInv, ManagerOk, ConfigRead
<1>5. ModeOk' /\ PauseOk'
  BY <1>0, <1>1 DEF IInv, ModeOk, PauseOk
<1> QED
  BY <1>2, <1>3, <1>4, <1>5 DEF IInv

\* mqtt_init changes nothing but the instances.
LEMMA MqttStep == IInv /\ (New \/ Tls \/ Connect \/ Loop) => IInv'
<1> SUFFICES ASSUME IInv, New \/ Tls \/ Connect \/ Loop PROVE IInv'
  OBVIOUS
<1>0. /\ UNCHANGED <<common, opc_ua, clients, state, manager, timer,
                     _clientSettings, idx, lanes, counters, opened>>
      /\ UNCHANGED <<cfg, registers>>
      /\ waited' \in BOOLEAN
  BY DEF New, Tls, Connect, Loop, cfg, registers, IInv, TypeOK
<1>1. /\ at' \in {"tls", "connect", "loop", "config", "timer"} /\ at \in InMqtt
      /\ at' = "config" => ~manager
  BY DEF New, Tls, Connect, Loop, MqttFails, ManagerNext, InMqtt
<1>2. mqtt = FALSE /\ \A n \in 1 .. MaxTries : links[n] # "served"
  BY <1>1 DEF IInv, TypeOK, BrokerOk, ServedInstance
<1>3. /\ made \in 0 .. MaxTries /\ mosq \in 0 .. made
      /\ links \in [1 .. MaxTries -> {"none", "new", "connected", "served"}]
  BY DEF IInv, TypeOK
<1>4. /\ made' \in 0 .. MaxTries /\ mosq' \in 0 .. made'
      /\ links' \in [1 .. MaxTries -> {"none", "new", "connected", "served"}]
      /\ \/ /\ mqtt' = FALSE /\ \A n \in 1 .. MaxTries : links'[n] # "served"
            /\ at' \in {"tls", "connect", "loop"} => mosq' # 0
         \/ /\ mqtt' = TRUE /\ mosq' # 0 /\ links'[mosq'] = "served"
            /\ \A n \in 1 .. MaxTries : links'[n] = "served" => n = mosq'
            /\ at' \in {"config", "timer"}
  <2>1. CASE New
    <3>1. CASE mosq' = 0 /\ UNCHANGED made /\ MqttFails
      BY <1>2, <1>3, <3>1 DEF MqttFails, ManagerNext
    <3>2. CASE /\ made < MaxTries
               /\ made' = made + 1 /\ mosq' = made'
               /\ links' = [links EXCEPT ![mosq'] = "new"] /\ UNCHANGED mqtt
               /\ at' = "tls"
      <4>1. mosq' \in 1 .. MaxTries /\ made' \in 0 .. MaxTries /\ mosq' \in 0 .. made'
        BY <1>3, <3>2
      <4>2. /\ links' \in [1 .. MaxTries -> {"none", "new", "connected", "served"}]
            /\ \A n \in 1 .. MaxTries : links'[n] # "served"
        BY <1>2, <1>3, <3>2, <4>1
      <4> QED
        BY <1>2, <3>2, <4>1, <4>2
    <3> QED
      BY <2>1, <3>1, <3>2 DEF New
  <2>2. ASSUME Tls \/ Connect \/ Loop
        PROVE  mosq \in 1 .. MaxTries /\ UNCHANGED <<mosq, made>>
    BY <1>3, <2>2 DEF Tls, Connect, Loop, IInv, BrokerOk
  <2>3. CASE Tls
    BY <1>2, <1>3, <2>2, <2>3 DEF Tls, MqttFails
  <2>4. CASE Connect
    <3>1. CASE MqttFails
      BY <1>2, <1>3, <2>2, <2>4, <3>1 DEF MqttFails
    <3>2. CASE links' = [links EXCEPT ![mosq] = "connected"] /\ UNCHANGED mqtt
      BY <1>2, <1>3, <2>2, <2>4, <3>2
    <3> QED
      BY <2>4, <3>1, <3>2 DEF Connect
  <2>5. CASE Loop
    <3>1. CASE MqttFails
      BY <1>2, <1>3, <2>2, <2>5, <3>1 DEF MqttFails
    <3>2. CASE links' = [links EXCEPT ![mosq] = "served"] /\ mqtt' = TRUE
               /\ at' = ManagerNext
      BY <1>2, <1>3, <2>2, <2>5, <3>2 DEF ManagerNext
    <3> QED
      BY <2>5, <3>1, <3>2 DEF Loop
  <2> QED
    BY <2>1, <2>3, <2>4, <2>5
<1>5. TypeOK' /\ BrokerOk'
  <2>1. mqtt' \in BOOLEAN
    BY <1>4
  <2>2. TypeOK'
    BY <1>0, <1>1, <1>4, <2>1 DEF IInv, TypeOK
  <2> QED
    BY <1>1, <1>4, <2>2 DEF BrokerOk, ServedInstance, InMqtt
<1>6. ManagerOk'
  <2>1. /\ SectionsOk' = SectionsOk
        /\ \A n : Read(n)' = Read(n) /\ InLanes(n)' = InLanes(n)
    BY <1>0, Frame
  <2> QED
    BY <1>0, <1>1, <2>1 DEF IInv, ManagerOk, ConfigRead, InMqtt
<1>7. ModeOk' /\ PauseOk'
  BY <1>0, <1>1 DEF IInv, ModeOk, PauseOk, InMqtt
<1> QED
  BY <1>5, <1>6, <1>7 DEF IInv

\* The configuration and the clients leave the broker alone.
LEMMA ConfigKeeps ==
  ASSUME IInv, Config \/ Client \/ Open \/ Queue
  PROVE  /\ UNCHANGED <<cfg, state, mqtt, timer, broker, waited>>
         /\ at \in {"config", "client", "open", "queue"}
         /\ at' \in {"begin", "client", "open", "queue", "timer"}
         /\ BrokerOk' /\ (ManagerOk' => ModeOk')
<1>1. /\ UNCHANGED <<cfg, state, mqtt, timer, broker, waited>>
      /\ at \in {"config", "client", "open", "queue"}
      /\ at' \in {"begin", "client", "open", "queue", "timer"}
  BY DEF Config, Client, Open, Queue, Refused, status
<1>2. BrokerOk'
  BY <1>1 DEF IInv, BrokerOk, ServedInstance, InMqtt, broker
<1>3. ModeOk'
  BY <1>1 DEF IInv, ModeOk
<1> QED
  BY <1>1, <1>2, <1>3

LEMMA ConfigStep == IInv /\ Config => IInv'
<1> SUFFICES ASSUME IInv, Config PROVE IInv'
  OBVIOUS
<1>0. /\ UNCHANGED <<common, opc_ua, clients, state, mqtt, manager, timer, mosq, made,
                     links, idx, lanes, counters, opened, waited>>
      /\ UNCHANGED <<cfg, registers>>
      /\ at = "config" /\ manager = FALSE
      /\ _clientSettings' = <<>>
  BY DEF Config, cfg, status, broker, registers, IInv, TypeOK, ManagerOk
<1>1. /\ SectionsOk' = SectionsOk /\ Accepted' = Accepted
      /\ \/ at' = "client" /\ SectionsOk
         \/ at' = "begin" /\ ~Accepted
  <2>1. SectionsOk' = SectionsOk /\ Accepted' = Accepted
    BY <1>0, Frame
  <2>2. \/ at' = "client" /\ SectionsOk
        \/ at' = "begin" /\ ~Accepted
    BY DEF Config, Refused, CountOk, SectionsOk, Accepted
  <2> QED
    BY <2>1, <2>2
<1>2. TypeOK'
  BY <1>0, <1>1 DEF IInv, TypeOK
<1>3. ManagerOk'
  <2>1. Len(_clientSettings') = 0 /\ Read(0)'
    BY <1>0 DEF Read
  <2>2. SectionsOk => Len(clients) > 0
    BY DEF SectionsOk
  <2> QED
    BY <1>0, <1>1, <2>1, <2>2 DEF IInv, ManagerOk, ConfigRead
<1>4. PauseOk'
  BY <1>1 DEF PauseOk
<1> QED
  BY <1>2, <1>3, <1>4, ConfigKeeps DEF IInv

LEMMA ClientStep == IInv /\ Client => IInv'
<1> SUFFICES ASSUME IInv, Client PROVE IInv'
  OBVIOUS
<1>n. PICK n : n = Len(_clientSettings)
  OBVIOUS
<1> DEFINE c == clients[n + 1]
<1>0. /\ UNCHANGED <<common, opc_ua, clients, state, mqtt, manager, timer, mosq, made,
                     links, idx, lanes, counters, opened, waited>>
      /\ UNCHANGED <<cfg, registers>>
      /\ at = "client" /\ manager = FALSE
      /\ SectionsOk /\ n < Len(clients) /\ Read(n)
  BY <1>n DEF Client, cfg, status, broker, registers, IInv, TypeOK, ManagerOk
<1>1. /\ _clientSettings \in Seq(Settings) /\ n \in Nat
      /\ clients \in Seq(Clients) /\ c \in Clients
      /\ Len(clients) <= MAX_CLIENT_NUM /\ n + 1 \in 1 .. Len(clients)
  BY <1>0, <1>n DEF IInv, TypeOK, SectionsOk
<1>2. SectionsOk' = SectionsOk /\ Accepted' = Accepted
  BY <1>0, Frame
<1>3. CASE ClientOk(c)
  <2> DEFINE s == [refreshRate |-> c.refresh_rate, protocol |-> c.protocol,
                   dataType |-> c.data_type,
                   registersToRead |-> IF c.protocol = "modbus"
                                         THEN Registers(c.data_type) ELSE 0]
  <2>1. /\ _clientSettings' = Append(_clientSettings, s)
        /\ at' = IF n + 1 = Len(clients) THEN "open" ELSE "client"
    BY <1>3, <1>n DEF Client
  <2>2. s \in Settings /\ Usable(c)
    <3>1. Registers(c.data_type) \in {0, 1, 2, 4} /\ Usable(c)
      BY <1>1, <1>3, ClientOkUsable
    <3>2. /\ c.refresh_rate \in Rates /\ c.protocol \in {"modbus", "opc"}
          /\ c.data_type \in DataTypes
      BY <1>1
    <3> QED
      BY <3>1, <3>2 DEF Settings
  <2>3. /\ _clientSettings' \in Seq(Settings) /\ Len(_clientSettings') = n + 1
        /\ \A k \in 1 .. n : _clientSettings'[k] = _clientSettings[k]
        /\ _clientSettings'[n + 1] = s
    BY <1>1, <1>n, <2>1, <2>2
  <2>4. Read(n + 1)'
    <3>1. \A k \in 1 .. n + 1 : k \in 1 .. n \/ k = n + 1
      BY <1>1
    <3>2. s.refreshRate = c.refresh_rate
      OBVIOUS
    <3> QED
      BY <1>0, <2>2, <2>3, <3>1, <3>2 DEF Read, Usable
  <2>5. TypeOK'
    BY <1>0, <1>1, <2>1, <2>3 DEF IInv, TypeOK
  <2>6. ManagerOk'
    BY <1>0, <1>1, <1>2, <2>1, <2>3, <2>4 DEF IInv, ManagerOk, ConfigRead
  <2>7. PauseOk'
    BY <2>1 DEF PauseOk
  <2> QED
    BY <2>5, <2>6, <2>7, ConfigKeeps DEF IInv
<1>4. CASE ~ClientOk(c)
  <2>1. at' = "begin" /\ UNCHANGED _clientSettings
    BY <1>4, <1>n DEF Client, Refused
  <2>2. ~Accepted
    BY <1>1, <1>4, ClientOkUsable DEF Accepted
  <2>3. TypeOK'
    BY <1>0, <2>1 DEF IInv, TypeOK
  <2>4. ManagerOk'
    BY <1>0, <2>1 DEF IInv, ManagerOk, ConfigRead
  <2>5. PauseOk'
    BY <1>2, <2>2 DEF PauseOk
  <2> QED
    BY <2>3, <2>4, <2>5, ConfigKeeps DEF IInv
<1> QED
  BY <1>3, <1>4

LEMMA OpenStep == IInv /\ Open => IInv'
<1> SUFFICES ASSUME IInv, Open PROVE IInv'
  OBVIOUS
<1>0. /\ UNCHANGED <<common, opc_ua, clients, state, mqtt, manager, timer, mosq, made,
                     links, _clientSettings, counters, waited>>
      /\ UNCHANGED cfg
      /\ at = "open" /\ at' = "queue" /\ manager = FALSE
      /\ idx' = 0 /\ opened = 0 /\ opened' = 1
      /\ lanes' = [r \in Rates |-> <<>>]
  BY DEF Open, cfg, status, broker, IInv, TypeOK, ManagerOk
<1>1. \A r \in Rates : lanes'[r] = <<>> /\ Len(lanes'[r]) = 0
  BY <1>0
<1>2. TypeOK'
  <2>1. lanes' \in [Rates -> Seq(Indices)]
    BY <1>0
  <2> QED
    BY <1>0, <1>1, <2>1 DEF IInv, TypeOK
<1>3. ManagerOk'
  <2>1. InLanes(0)'
    BY <1>1 DEF InLanes
  <2>2. SectionsOk' = SectionsOk /\ Read(Len(clients))' = Read(Len(clients))
    BY <1>0, Frame
  <2>3. SectionsOk => Len(clients) >= 0
    BY DEF SectionsOk
  <2> QED
    BY <1>0, <2>1, <2>2, <2>3 DEF IInv, ManagerOk, ConfigRead
<1>4. PauseOk'
  BY <1>0 DEF PauseOk
<1> QED
  BY <1>2, <1>3, <1>4, ConfigKeeps DEF IInv

\* A client is entered beside those that are in the lanes already.
LEMMA Enter ==
  ASSUME NEW n \in Nat, InLanes(n), NEW r \in Rates,
         lanes \in [Rates -> Seq(Indices)], UNCHANGED clients,
         \A i \in 0 .. n : clients[i + 1].refresh_rate \in Rates,
         clients[n + 1].refresh_rate = r, n \in Indices,
         lanes' = [lanes EXCEPT ![r] = Append(@, n)],
         counters' = counters \union {n}
  PROVE  InLanes(n + 1)'
<1>1. /\ lanes'[r] = Append(lanes[r], n) /\ lanes[r] \in Seq(Indices)
      /\ \A q \in Rates : q # r => lanes'[q] = lanes[q]
  OBVIOUS
<1>2. /\ Len(lanes'[r]) = Len(lanes[r]) + 1 /\ Len(lanes[r]) \in Nat
      /\ \A k \in 1 .. Len(lanes[r]) : lanes'[r][k] = lanes[r][k]
      /\ lanes'[r][Len(lanes[r]) + 1] = n
  BY <1>1
<1>3. /\ \A k \in 1 .. Len(lanes[r]) + 1 : k \in 1 .. Len(lanes[r]) \/ k = Len(lanes[r]) + 1
      /\ \A i \in 0 .. n : i \in 0 .. n - 1 \/ i = n
      /\ 0 .. n - 1 \subseteq 0 .. n /\ n \in 0 .. n /\ n \notin 0 .. n - 1
  BY <1>2
<1>4. ASSUME NEW q \in Rates
      PROVE  /\ Len(lanes'[q]) <= n + 1
             /\ \A k \in 1 .. Len(lanes'[q]) :
                  /\ lanes'[q][k] \in 0 .. n
                  /\ clients[lanes'[q][k] + 1].refresh_rate = q
                  /\ \A j \in 1 .. Len(lanes'[q]) :
                       lanes'[q][j] = lanes'[q][k] => j = k
  <2>1. CASE q # r
    <3>1. Len(lanes[q]) \in Nat
      OBVIOUS
    <3> QED
      BY <1>1, <1>3, <2>1, <3>1 DEF InLanes
  <2>2. CASE q = r
    <3>1. /\ Len(lanes[r]) <= n
          /\ \A k \in 1 .. Len(lanes[r]) :
               /\ lanes[r][k] \in 0 .. n - 1
               /\ clients[lanes[r][k] + 1].refresh_rate = r
               /\ \A j \in 1 .. Len(lanes[r]) : lanes[r][j] = lanes[r][k] => j = k
      BY DEF InLanes
    <3> QED
      BY <1>2, <1>3, <2>2, <3>1
  <2> QED
    BY <2>1, <2>2
<1>5. ASSUME NEW i \in 0 .. n
      PROVE  /\ i \in counters'
             /\ \E k \in 1 .. Len(lanes'[clients[i + 1].refresh_rate]) :
                  lanes'[clients[i + 1].refresh_rate][k] = i
  <2>1. CASE i = n
    <3>1. Len(lanes[r]) + 1 \in 1 .. Len(lanes'[r])
      BY <1>2
    <3> QED
      BY <1>2, <2>1, <3>1
  <2>2. CASE i \in 0 .. n - 1
    <3>0. PICK q \in Rates : q = clients[i + 1].refresh_rate
      OBVIOUS
    <3>1. PICK k \in 1 .. Len(lanes[q]) : lanes[q][k] = i
      BY <2>2, <3>0 DEF InLanes
    <3>2. i \in counters'
      BY <2>2 DEF InLanes
    <3>3. CASE q = r
      <4>1. k \in 1 .. Len(lanes'[r]) /\ lanes'[r][k] = i
        BY <1>2, <3>1, <3>3
      <4> QED
        BY <3>0, <3>2, <3>3, <4>1
    <3>4. CASE q # r
      <4>1. lanes'[q] = lanes[q]
        BY <1>1, <3>4
      <4> QED
        BY <3>0, <3>1, <3>2, <4>1
    <3> QED
      BY <3>3, <3>4
  <2> QED
    BY <1>3, <2>1, <2>2
<1> QED
  <2>1. (n + 1) - 1 = n
    OBVIOUS
  <2>2. \A q \in Rates :
          /\ Len(lanes'[q]) <= n + 1
          /\ \A k \in 1 .. Len(lanes'[q]) :
               /\ lanes'[q][k] \in 0 .. (n + 1) - 1
               /\ clients'[lanes'[q][k] + 1].refresh_rate = q
               /\ \A j \in 1 .. Len(lanes'[q]) : lanes'[q][j] = lanes'[q][k] => j = k
    BY <1>4, <2>1
  <2>3. \A i \in 0 .. (n + 1) - 1 :
          /\ i \in counters'
          /\ \E k \in 1 .. Len(lanes'[clients'[i + 1].refresh_rate]) :
               lanes'[clients'[i + 1].refresh_rate][k] = i
    BY <1>5, <2>1
  <2> QED
    BY <2>2, <2>3 DEF InLanes

LEMMA QueueStep == IInv /\ Queue => IInv'
<1> SUFFICES ASSUME IInv, Queue PROVE IInv'
  OBVIOUS
<1>0. /\ UNCHANGED <<common, opc_ua, clients, state, mqtt, timer, mosq, made, links,
                     _clientSettings, opened, waited>>
      /\ UNCHANGED cfg
      /\ at = "queue" /\ manager = FALSE /\ opened = 1
      /\ SectionsOk /\ Len(_clientSettings) = Len(clients) /\ Read(Len(clients))
      /\ idx <= Len(clients) /\ InLanes(idx)
  BY DEF Queue, cfg, broker, IInv, TypeOK, ManagerOk, ConfigRead
<1>1. /\ idx \in Nat /\ Len(clients) \in 1 .. MAX_CLIENT_NUM
      /\ clients \in Seq(Clients) /\ lanes \in [Rates -> Seq(Indices)]
  BY <1>0 DEF IInv, TypeOK, SectionsOk
<1>2. SectionsOk' = SectionsOk /\ \A n : Read(n)' = Read(n)
  BY <1>0, Frame
<1>3. CASE idx = Len(_clientSettings)
  <2>1. /\ manager' = TRUE /\ at' = "timer" /\ UNCHANGED <<idx, registers>>
    BY <1>3 DEF Queue
  <2>2. TypeOK'
    BY <1>0, <2>1 DEF IInv, TypeOK, registers
  <2>3. \A n : InLanes(n)' = InLanes(n)
    BY <1>0, <2>1, Frame
  <2>4. ManagerOk'
    BY <1>0, <1>2, <1>3, <2>1, <2>3 DEF ManagerOk, ConfigRead
  <2>5. PauseOk'
    BY <2>1 DEF PauseOk
  <2> QED
    BY <2>2, <2>4, <2>5, ConfigKeeps DEF IInv
<1>4. CASE idx # Len(_clientSettings)
  <2>0. PICK n \in Nat : n = idx
    BY <1>1
  <2>1. n + 1 \in 1 .. Len(clients) /\ n \in Indices /\ n + 1 \in 0 .. MAX_CLIENT_NUM
    BY <1>0, <1>1, <1>4, <2>0 DEF Indices
  <2> DEFINE r == clients[n + 1].refresh_rate
  <2>2. /\ r = _clientSettings[idx + 1].refreshRate /\ r \in Rates
        /\ \A i \in 0 .. n : clients[i + 1].refresh_rate \in Rates
    BY <1>0, <1>1, <2>0, <2>1 DEF Read
  <2>3. Len(lanes[r]) < MAX_CLIENT_NUM
    BY <1>0, <1>1, <2>0, <2>1, <2>2 DEF InLanes
  <2>4. /\ lanes' = [lanes EXCEPT ![r] = Append(@, n)]
        /\ counters' = counters \union {n}
        /\ idx' = n + 1 /\ UNCHANGED <<manager, at>>
    BY <1>4, <2>0, <2>2, <2>3 DEF Queue, queueAdd
  <2>5. InLanes(n + 1)'
    BY <1>0, <1>1, <2>0, <2>1, <2>2, <2>4, Enter
  <2>6. TypeOK'
    <3>1. /\ lanes' \in [Rates -> Seq(Indices)]
          /\ \A q \in Rates : Len(lanes'[q]) <= MAX_CLIENT_NUM
      <4>1. lanes[r] \in Seq(Indices) /\ Append(lanes[r], n) \in Seq(Indices)
        BY <1>1, <2>1, <2>2
      <4>2. Len(Append(lanes[r], n)) <= MAX_CLIENT_NUM
        BY <2>3, <4>1
      <4>3. \A q \in Rates : Len(lanes[q]) <= MAX_CLIENT_NUM
        BY DEF IInv, TypeOK
      <4> QED
        BY <1>1, <2>2, <2>4, <4>1, <4>2, <4>3
    <3>2. counters' \subseteq Indices /\ idx' \in 0 .. MAX_CLIENT_NUM
      BY <2>1, <2>4 DEF IInv, TypeOK
    <3> QED
      BY <1>0, <2>4, <3>1, <3>2 DEF IInv, TypeOK
  <2>7. ManagerOk'
    <3>1. idx' <= Len(clients)
      BY <1>1, <2>1, <2>4
    <3>2. InLanes(idx)'
      BY <2>4, <2>5
    <3> QED
      BY <1>0, <1>2, <2>4, <3>1, <3>2 DEF ManagerOk, ConfigRead
  <2>8. PauseOk'
    BY <1>0, <2>4 DEF PauseOk
  <2> QED
    BY <2>6, <2>7, <2>8, ConfigKeeps DEF IInv
<1> QED
  BY <1>3, <1>4

LEMMA IInvStep == IInv /\ [Next]_vars => IInv'
<1> SUFFICES ASSUME IInv, [Next]_vars PROVE IInv'
  OBVIOUS
<1>1. CASE UNCHANGED vars
  <2>1. /\ UNCHANGED <<common, opc_ua, clients, state, mqtt, manager, timer, at, mosq,
                       made, links, _clientSettings, idx, lanes, counters, opened,
                       waited>>
        /\ UNCHANGED <<cfg, registers>>
    BY <1>1 DEF vars, cfg, status, broker, registers
  <2>2. /\ SectionsOk' = SectionsOk /\ Accepted' = Accepted
        /\ \A n : Read(n)' = Read(n) /\ InLanes(n)' = InLanes(n)
    BY <2>1, Frame
  <2>3. TypeOK' /\ BrokerOk' /\ ModeOk' /\ PauseOk'
    BY <2>1, <2>2 DEF IInv, TypeOK, BrokerOk, ServedInstance, ModeOk, PauseOk
  <2>4. ManagerOk'
    BY <2>1, <2>2 DEF IInv, ManagerOk, ConfigRead
  <2> QED
    BY <2>3, <2>4 DEF IInv
<1> QED
  BY <1>1, FrameStep, MqttStep, ConfigStep, ClientStep, OpenStep, QueueStep
     DEF Next, Step, Run

LEMMA StartupInvariant == Spec => []IInv
BY IInvInit, IInvStep, PTL DEF Spec

-----------------------------------------------------------------------------
\* The variables of the start keep their types: no lane is overfilled.
THEOREM StartupTypes == Spec => []TypeOK
<1>1. IInv => TypeOK
  BY DEF IInv
<1> QED
  BY StartupInvariant, <1>1, PTL

\* Reports are published through the instance that the network thread serves,
\* and no other instance has a thread, however many attempts fail and where.
THEOREM OneInstanceServed == Spec => []ServedInstance
<1>1. IInv => ServedInstance
  BY DEF IInv, BrokerOk
<1> QED
  BY StartupInvariant, <1>1, PTL

\* In service, the clients of an accepted configuration, and no others, are in
\* the lanes of their rates, each once, with counters.
THEOREM AllRegistered == Spec => []Registered
<1>1. IInv => Registered
  <2> SUFFICES ASSUME IInv, state = "PROCESS" PROVE Registered
    BY DEF Registered
  <2>1. /\ SectionsOk /\ Len(_clientSettings) = Len(clients) /\ Read(Len(clients))
        /\ InLanes(Len(clients))
    BY DEF IInv, ModeOk, ManagerOk, ConfigRead
  <2>2. Accepted
    BY <2>1, ReadAccepted
  <2>3. \A r \in Rates : DOMAIN lanes[r] = 1 .. Len(lanes[r])
    <3>1. lanes \in [Rates -> Seq(Indices)]
      BY DEF IInv, TypeOK
    <3> QED
      BY <3>1
  <2>4. /\ Len(clients) \in Nat
        /\ \A i \in 0 .. Len(clients) - 1 : clients[i + 1].refresh_rate \in Rates
    <3>1. clients \in Seq(Clients)
      BY DEF IInv, TypeOK
    <3>2. \A k \in 1 .. Len(clients) : clients[k] \in Clients
      BY <3>1
    <3> QED
      BY <3>1, <3>2
  <2>5. ASSUME NEW r \in Rates, NEW k \in DOMAIN lanes[r]
        PROVE  /\ lanes[r][k] < Len(clients)
               /\ clients[lanes[r][k] + 1].refresh_rate = r
               /\ \A j \in DOMAIN lanes[r] : lanes[r][j] = lanes[r][k] => j = k
    <3>1. /\ lanes[r][k] \in 0 .. Len(clients) - 1
          /\ clients[lanes[r][k] + 1].refresh_rate = r
          /\ \A j \in 1 .. Len(lanes[r]) : lanes[r][j] = lanes[r][k] => j = k
      BY <2>1, <2>3 DEF InLanes
    <3>2. lanes[r][k] < Len(clients)
      BY <2>4, <3>1
    <3> QED
      BY <2>3, <3>1, <3>2
  <2>6. ASSUME NEW i \in 0 .. Len(clients) - 1
        PROVE  /\ i \in counters
               /\ \E k \in DOMAIN lanes[clients[i + 1].refresh_rate] :
                    lanes[clients[i + 1].refresh_rate][k] = i
    <3>1. /\ i \in counters
          /\ \E k \in 1 .. Len(lanes[clients[i + 1].refresh_rate]) :
               lanes[clients[i + 1].refresh_rate][k] = i
      BY <2>1 DEF InLanes
    <3>2. DOMAIN lanes[clients[i + 1].refresh_rate]
            = 1 .. Len(lanes[clients[i + 1].refresh_rate])
      BY <2>3, <2>4
    <3> QED
      BY <3>1, <3>2
  <2> QED
    BY <2>1, <2>2, <2>5, <2>6 DEF Registered
<1> QED
  BY StartupInvariant, <1>1, PTL

\* The connections to the clients are made once: no lane refuses a client of a
\* configuration that has been accepted.
THEOREM ConnectionsOnce == Spec => []ConnectedOnce
<1>1. IInv => ConnectedOnce
  BY ReadAccepted DEF IInv, ManagerOk, ConfigRead, ConnectedOnce
<1> QED
  BY StartupInvariant, <1>1, PTL

\* mqtt_init is not called twice without a pause, unless the configuration is
\* refused.
THEOREM PauseKept == Spec => Paced
<1>1. IInv /\ [Next]_vars =>
        [at # "new" /\ at' = "new" => waited \/ ~Accepted]_vars
  BY DEF IInv, PauseOk, Next, Step, Run, Begin, New, Tls, Connect, Loop, Config,
         Client, Open, Queue, Timer, End, MqttFails, ManagerNext, Refused
<1> QED
  BY StartupInvariant, <1>1, PTL DEF Spec, Paced

-----------------------------------------------------------------------------
(* The start implements Service.                                           *)

\* The timer runs from its start to the end of the call, and in service.
TimerOk ==
  /\ timer => at \in {"end", "run"} /\ Ready
  /\ at = "run" => timer

LEMMA TimerOkStep == TimerOk /\ [Next]_vars => TimerOk'
<1> SUFFICES ASSUME TimerOk, [Next]_vars PROVE TimerOk'
  OBVIOUS
<1>1. CASE UNCHANGED vars
  BY <1>1 DEF vars, status, TimerOk, Ready
<1>2. CASE Step
  BY <1>2 DEF Step, Begin, New, Tls, Connect, Loop, Config, Client, Open, Queue,
              Timer, End, MqttFails, ManagerNext, Refused, AllReady, Ready, status,
              TimerOk
<1> QED
  BY <1>1, <1>2 DEF Next, Run

LEMMA ServiceStep ==
  IInv /\ TimerOk /\ [Next]_vars => [Start!Attempt]_(Start!vars)
<1> SUFFICES ASSUME IInv, TimerOk, [Next]_vars
             PROVE  [Start!Attempt]_(Start!vars)
  OBVIOUS
<1>0. /\ mqtt \in BOOLEAN /\ manager \in BOOLEAN /\ timer \in BOOLEAN
      /\ at = "run" <=> state = "PROCESS"
  BY DEF IInv, TypeOK, ModeOk
<1>1. CASE UNCHANGED vars
  BY <1>1 DEF vars, status, Start!vars
<1>2. CASE Step
  <2>1. state # "PROCESS"
    BY <1>0, <1>2 DEF Step, Begin, New, Tls, Connect, Loop, Config, Client, Open,
                      Queue, Timer, End
  <2>2. mqtt' \in {mqtt, TRUE} /\ manager' \in {manager, TRUE}
    BY <1>2 DEF Step, Begin, New, Tls, Connect, Loop, Config, Client, Open, Queue,
                Timer, End, MqttFails, status
  <2>3. timer' \in {FALSE, mqtt' /\ manager'}
    <3>1. CASE Timer
      BY <1>0, <3>1 DEF Timer, Ready, TimerOk
    <3>2. CASE End
      BY <1>0, <3>2 DEF End, Ready, TimerOk
    <3>3. CASE ~Timer /\ ~End
      BY <1>0, <1>2, <3>3 DEF Step, Begin, New, Tls, Connect, Loop, Config, Client,
                              Open, Queue, status, TimerOk
    <3> QED BY <3>1, <3>2, <3>3
  <2>4. (state = "PROCESS")' \in {FALSE, timer'}
    <3>1. CASE End
      BY <1>0, <2>1, <3>1 DEF End, AllReady
    <3>2. CASE ~End
      BY <1>2, <2>1, <3>2 DEF Step, Begin, New, Tls, Connect, Loop, Config, Client,
                              Open, Queue, Timer, status
    <3> QED BY <3>1, <3>2
  <2> QED
    BY <2>1, <2>2, <2>3, <2>4 DEF Start!Attempt
<1> QED
  BY <1>1, <1>2 DEF Next, Run

\* The calls of init_sys, whatever fails in them, bring the gateway into service
\* as the main loop takes for granted (LoopImplementsService).
THEOREM StartImplementsService == Spec => ImplementsService
<1>1. Init => Start!Init /\ TimerOk
  BY DEF Init, Start!Init, TimerOk
<1> QED
  BY <1>1, TimerOkStep, ServiceStep, StartupInvariant, PTL
     DEF Spec, ImplementsService, Start!Spec
=============================================================================
