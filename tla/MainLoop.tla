------------------------------ MODULE MainLoop ------------------------------
(***************************************************************************)
(* The main loop of src/main.c with the timer that interrupts it: the      *)
(* initialisation and first survey (INIT_SYS), the three polling blocks    *)
(* (PROCESS), and the report (SEND_DATA).                                  *)
(*                                                                         *)
(* A client is seen through its counter.  What a reading adds to it is an  *)
(* input here (Counters.tla models how the three counters compute it), and *)
(* so is whether a poll succeeds (ClientManager.tla).  A scan hands out    *)
(* the clients of its lane in some order, each once: this is PollList,     *)
(* which ClientQueue.tla implements.                                       *)
(*                                                                         *)
(* `counted`, `delivered`, `lost`, `since`, `repeated`, `minutes` and      *)
(* `missed` are history variables: they guard nothing but the bound        *)
(* MaxCount.                                                               *)
(***************************************************************************)
EXTENDS Integers

CONSTANTS
  Clients,         \* the configured clients
  RefreshRate,     \* RefreshRate[c]: the lane of client c
  SEND_INTERVAL,   \* send_interval_min of the configuration file
  TIMER_1S, TIMER_1M,
  PollsMayFail,    \* manager_receive_data may return false
  SendsMayFail,    \* mqtt_send may return an error
  TransitMayLose,  \* the broker may not get a report that mqtt_send accepts
  MaxCount,        \* bound: what the counter of one client counts in all
  MaxDelivered,    \* bound: `delivered` and `lost` stop there
  MaxMinutes       \* bound: `minutes` and `missed` stop there

VARIABLES
  (* timer.c *)
  timer_counter, t_period, armed,
  (* dev_status, and the validity of the configuration file *)
  mqtt, manager, state, cfgOk,
  (* the position in the loop: a step of the state, and the polling block  *)
  (* it concerns; todo is what is left of the running scan or survey       *)
  at, block, todo,
  sendDataMin,    \* minutes to the next report
  tally,          \* tally[c]: the counter of c in _counters
  mqtt_data,      \* mqtt_data[c]: the value of c in the next report
  (* history *)
  counted,        \* counted[c]: all that the counter of c has counted
  delivered,      \* delivered[c]: sum of the values of c the broker has got
  lost,           \* lost[c]: sum of its values in accepted reports gone astray
  since,          \* since[c]: what the polls of c have given since the last
                  \* accepted report: nothing, a value, or only failures
  repeated,       \* the clients that a report was accepted for without a value
  minutes,        \* minutes passed since the last decision to send
  missed          \* of these, those that ended with the flag of the minute
                  \* before still up

Clock == INSTANCE Timer

Periods == Clock!Periods

timerVars   == <<timer_counter, t_period, armed>>
minuteVars  == <<minutes, missed>>
initVars    == <<mqtt, manager, cfgOk>>
counterVars == <<tally, mqtt_data, counted, delivered, lost, since, repeated>>
vars == <<timerVars, initVars, state, at, block, todo, sendDataMin,
          counterVars, minuteVars>>

ASSUME LoopAssumption ==
  /\ TIMER_1S \in Nat \ {0} /\ TIMER_1M \in Nat \ {0}
  /\ RefreshRate \in [Clients -> Periods]
  /\ SEND_INTERVAL \in Int       \* any value is accepted (client_manager.c)
  /\ PollsMayFail \in BOOLEAN /\ SendsMayFail \in BOOLEAN
  /\ TransitMayLose \in BOOLEAN
  /\ MaxCount \in Nat
  /\ MaxDelivered \in Nat /\ MaxDelivered >= MaxCount
  /\ MaxMinutes \in Nat \ {0} /\ MaxMinutes > SEND_INTERVAL

\* A minute ends with a second: TIMER_1M is TIMER_1S * 60 (timer.h).
ASSUME MinuteAssumption == TIMER_1M % TIMER_1S = 0

Unset == -1   \* mqtt_data before the first survey has filled it

TypeOK ==
  /\ Clock!TypeOK
  /\ mqtt \in BOOLEAN /\ manager \in BOOLEAN /\ cfgOk \in BOOLEAN
  /\ state \in {"INIT_SYS", "PROCESS", "SEND_DATA"}
  /\ at \in {"init", "survey", "check", "scan", "send"}
  /\ block \in Periods
  /\ todo \subseteq Clients
  /\ sendDataMin \in 1 .. SEND_INTERVAL \union {SEND_INTERVAL}
  /\ tally \in [Clients -> 0 .. MaxCount]
  /\ mqtt_data \in [Clients -> Unset .. MaxCount]
  /\ counted \in [Clients -> 0 .. MaxCount]
  /\ delivered \in [Clients -> 0 .. MaxDelivered]
  /\ lost \in [Clients -> 0 .. MaxDelivered]
  /\ since \in [Clients -> {"none", "value", "failure"}]
  /\ repeated \subseteq Clients
  /\ minutes \in 0 .. MaxMinutes /\ missed \in 0 .. MaxMinutes

Init ==
  /\ Clock!Init
  /\ mqtt = FALSE /\ manager = FALSE
  /\ cfgOk \in BOOLEAN
  /\ state = "INIT_SYS" /\ at = "init"
  /\ block = "RR_100ms"
  /\ todo = {}
  /\ sendDataMin = SEND_INTERVAL
  /\ tally = [c \in Clients |-> 0]
  /\ mqtt_data = [c \in Clients |-> Unset]
  /\ counted = [c \in Clients |-> 0]
  /\ delivered = [c \in Clients |-> 0]
  /\ lost = [c \in Clients |-> 0]
  /\ since = [c \in Clients |-> "none"]
  /\ repeated = {}
  /\ minutes = 0 /\ missed = 0

Least(m, n) == IF m < n THEN m ELSE n

-----------------------------------------------------------------------------
(* The timer interrupt: between any two steps of the loop.                 *)

Tick ==
  /\ Clock!timer_handler_100ms
  /\ IF timer_counter + 1 = TIMER_1M
       THEN /\ minutes' = Least(minutes + 1, MaxMinutes)
            /\ missed' = IF t_period["RR_1m"] THEN Least(missed + 1, MaxMinutes)
                                              ELSE missed
       ELSE UNCHANGED minuteVars
  /\ UNCHANGED <<initVars, state, at, block, todo, sendDataMin, counterVars>>

-----------------------------------------------------------------------------
(* INIT_SYS.                                                               *)

\* The parts the timer waits for.
Ready == manager' /\ mqtt'

\* One call of init_sys.  Each part is set up once; the broker may refuse and
\* setitimer may fail; a wrong configuration is wrong at every attempt.
init_sys ==
  /\ at = "init"
  /\ \E connected, started \in BOOLEAN :
       /\ mqtt' = (mqtt \/ connected)
       /\ manager' = (manager \/ cfgOk)
       /\ IF Ready /\ started
            THEN /\ Clock!timer_start(TRUE)
                 /\ state' = "PROCESS" /\ at' = "survey" /\ todo' = Clients
                 /\ sendDataMin' = SEND_INTERVAL
            ELSE /\ Clock!timer_stop
                 /\ UNCHANGED <<state, at, todo, sendDataMin>>
  /\ UNCHANGED <<cfgOk, block, counterVars, minuteVars>>

\* counterUpdate, counterGet and client_to_mqtt on a client whose counter
\* rises by n.
Count(c, n) ==
  /\ counted[c] + n <= MaxCount
  /\ counted' = [counted EXCEPT ![c] = @ + n]
  /\ tally' = [tally EXCEPT ![c] = @ + n]
  /\ mqtt_data' = [mqtt_data EXCEPT ![c] = tally[c] + n]
  /\ since' = [since EXCEPT ![c] = "value"]
  /\ UNCHANGED <<delivered, lost, repeated>>

\* Mutant: a client that does not answer the survey may be skipped, as it is
\* in the polling blocks.
Survey_SkipsFailed(c) ==
  /\ at = "survey" /\ c \in todo
  /\ todo' = todo \ {c}
  /\ (\E n \in 0 .. MaxCount : Count(c, n)) \/ UNCHANGED counterVars
  /\ UNCHANGED <<timerVars, initVars, state, at, block, sendDataMin, minuteVars>>

\* The survey updates a client whether or not its poll succeeds: a failed
\* poll counts as a reading of zeroes.
Survey(c) ==
  /\ at = "survey" /\ c \in todo
  /\ todo' = todo \ {c}
  /\ \E n \in 0 .. MaxCount : Count(c, n)
  /\ UNCHANGED <<timerVars, initVars, state, at, block, sendDataMin, minuteVars>>

SurveyEnd ==
  /\ at = "survey" /\ todo = {}
  /\ state' = "SEND_DATA" /\ at' = "send"
  /\ UNCHANGED <<timerVars, initVars, block, todo, sendDataMin, counterVars,
                 minuteVars>>

-----------------------------------------------------------------------------
(* PROCESS: the blocks of 100 ms, of a minute and of a second, in this     *)
(* order.                                                                  *)

NextBlock(b) ==
  CASE b = "RR_100ms" -> "RR_1m" [] b = "RR_1m" -> "RR_1s" [] OTHER -> "RR_100ms"

\* To the next block; after the last one main dispatches on the state again.
LeaveBlock ==
  /\ block' = NextBlock(block)
  /\ at' = IF block = "RR_1s" /\ state = "SEND_DATA" THEN "send" ELSE "check"

Skip ==
  /\ at = "check" /\ ~t_period[block]
  /\ LeaveBlock
  /\ UNCHANGED <<timerVars, initVars, state, todo, sendDataMin, counterVars,
                 minuteVars>>

\* Mutant: the report is decided one minute early.
CountMinute_Early ==
  IF sendDataMin - 1 <= 1
    THEN state' = "SEND_DATA" /\ sendDataMin' = SEND_INTERVAL
         /\ minutes' = 0 /\ missed' = 0
    ELSE sendDataMin' = sendDataMin - 1 /\ UNCHANGED <<state, minuteVars>>

\* Mutant: the countdown is not set again after a decision.
CountMinute_NoReload ==
  /\ sendDataMin' = sendDataMin - 1
  /\ IF sendDataMin - 1 <= 0
       THEN state' = "SEND_DATA" /\ minutes' = 0 /\ missed' = 0
       ELSE UNCHANGED <<state, minuteVars>>

\* Mutant: the countdown is set again without deciding a report.
CountMinute_NoDecision ==
  /\ sendDataMin' = IF sendDataMin - 1 <= 0
                      THEN SEND_INTERVAL ELSE sendDataMin - 1
  /\ UNCHANGED <<state, minuteVars>>

\* Mutant: the report is decided one minute late.
CountMinute_Late ==
  IF sendDataMin - 1 < 0
    THEN state' = "SEND_DATA" /\ sendDataMin' = SEND_INTERVAL
         /\ minutes' = 0 /\ missed' = 0
    ELSE sendDataMin' = sendDataMin - 1 /\ UNCHANGED <<state, minuteVars>>

\* The block of a minute counts down to the next report.
CountMinute ==
  IF sendDataMin - 1 <= 0
    THEN state' = "SEND_DATA" /\ sendDataMin' = SEND_INTERVAL
         /\ minutes' = 0 /\ missed' = 0
    ELSE sendDataMin' = sendDataMin - 1 /\ UNCHANGED <<state, minuteVars>>

EnterBlock ==
  /\ at = "check" /\ t_period[block]
  /\ at' = "scan"
  /\ todo' = {c \in Clients : RefreshRate[c] = block}
  /\ IF block = "RR_1m"
       THEN CountMinute
       ELSE UNCHANGED <<state, sendDataMin, minuteVars>>
  /\ UNCHANGED <<timerVars, initVars, block, counterVars>>

PollOk(c) ==
  /\ at = "scan" /\ c \in todo
  /\ todo' = todo \ {c}
  /\ \E n \in 0 .. MaxCount : Count(c, n)
  /\ UNCHANGED <<timerVars, initVars, state, at, block, sendDataMin, minuteVars>>

\* The client keeps the value it has in mqtt_data.
PollFail(c) ==
  /\ at = "scan" /\ c \in todo
  /\ PollsMayFail
  /\ todo' = todo \ {c}
  /\ since' = [since EXCEPT ![c] = IF @ = "value" THEN @ ELSE "failure"]
  /\ UNCHANGED <<timerVars, initVars, state, at, block, sendDataMin, tally,
                 mqtt_data, counted, delivered, lost, repeated, minuteVars>>

\* Mutant: all the flags are taken down.
Serve_AllPeriods ==
  /\ t_period' = [p \in Periods |-> FALSE]
  /\ UNCHANGED <<timer_counter, armed>>

\* The flag is taken down after the scan, with what has come in meanwhile.
Serve == Clock!Served(block)

BlockEnd ==
  /\ at = "scan" /\ todo = {}
  /\ Serve
  /\ LeaveBlock
  /\ UNCHANGED <<initVars, state, todo, sendDataMin, counterVars, minuteVars>>

-----------------------------------------------------------------------------
(* SEND_DATA.                                                              *)

BackToProcess ==
  /\ state' = "PROCESS" /\ at' = "check"
  /\ UNCHANGED <<timerVars, initVars, block, todo, sendDataMin, minuteVars>>

\* The sums `total` once the values of this report are added.
Sent(total) ==
  [c \in Clients |-> Least(total[c] + mqtt_data[c], MaxDelivered)]

\* Mutant: the counters go on after an accepted report.
Accepted_NoReset ==
  /\ since' = [c \in Clients |-> "none"]
  /\ repeated' = repeated \union {c \in Clients : since[c] # "value"}
  /\ UNCHANGED <<tally, mqtt_data, counted>>

\* mqtt_send returns success: every counter starts again from zero, and
\* mqtt_data keeps the values that were sent.
Accepted ==
  /\ tally' = [c \in Clients |-> 0]
  /\ since' = [c \in Clients |-> "none"]
  /\ repeated' = repeated \union {c \in Clients : since[c] # "value"}
  /\ UNCHANGED <<mqtt_data, counted>>

SendOk ==
  /\ at = "send"
  /\ Accepted
  /\ delivered' = Sent(delivered) /\ UNCHANGED lost
  /\ BackToProcess

\* With QoS 0 the library keeps no copy: a report that it has accepted is gone
\* when the connection breaks.
SendLost ==
  /\ at = "send" /\ TransitMayLose
  /\ Accepted
  /\ lost' = Sent(lost) /\ UNCHANGED delivered
  /\ BackToProcess

\* Mutant: the counters are reset although the report was not accepted.
SendFail_Resets ==
  /\ at = "send" /\ SendsMayFail
  /\ tally' = [c \in Clients |-> 0]
  /\ UNCHANGED <<mqtt_data, counted, delivered, lost, since, repeated>>
  /\ BackToProcess

SendFail ==
  /\ at = "send" /\ SendsMayFail
  /\ UNCHANGED counterVars
  /\ BackToProcess

-----------------------------------------------------------------------------
Step ==
  \/ init_sys
  \/ \E c \in Clients : Survey(c) \/ PollOk(c) \/ PollFail(c)
  \/ SurveyEnd
  \/ Skip \/ EnterBlock \/ BlockEnd
  \/ SendOk \/ SendLost \/ SendFail

Next == Step \/ Tick

Spec == Init /\ [][Next]_vars

(* The process runs, the kernel goes on with the interval timer, and a     *)
(* report sent again and again is accepted.                                *)
FairSpec ==
  /\ Spec
  /\ WF_vars(Step)
  /\ WF_vars(Tick)
  /\ SF_vars(SendOk)

-----------------------------------------------------------------------------
(* Properties.                                                             *)

\* Nothing a counter has counted is lost by the loop: it is in an accepted
\* report or still in the counter that will be reported, whatever polls and
\* reports fail.  What the broker lacks went astray with an accepted report.
NoLoss ==
  \A c \in Clients : delivered[c] + lost[c] + tally[c] >= counted[c]

\* A counter holds no more than what it has counted.
TallyWithinCount ==
  \A c \in Clients : tally[c] <= counted[c]

\* Once a client has been surveyed, its value in mqtt_data is at least its
\* counter: a report sent now would carry all that is owed.
ReportCoversTally ==
  \A c \in Clients :
    at = "init" \/ (at = "survey" /\ c \in todo) \/ mqtt_data[c] >= tally[c]

\* No report goes out with a value the survey has not filled in (get_json
\* would stop at it).
NoUnsetValueSent ==
  at = "send" => \A c \in Clients : mqtt_data[c] # Unset

\* What is counted is reported once, except for a client that an accepted
\* report was sent for without a reading since the one before.
OnceIfRead ==
  \A c \in Clients \ repeated :
    delivered[c] + lost[c] + tally[c] <= counted[c]

\* The value of a client that has been read since the last accepted report is
\* its counter.
ReadingIsTally ==
  \A c \in Clients : since[c] = "value" => mqtt_data[c] = tally[c]

\* "Erase when data sending" (README.md:229): what is reported is reported once.
ReportedOnce ==
  \A c \in Clients : delivered[c] + lost[c] + tally[c] <= counted[c]

\* No lane is passed over: between two accepted reports every client is polled,
\* if the interval is above a minute.
PolledForReport ==
  at = "send" /\ SEND_INTERVAL > 1 => \A c \in Clients : since[c] # "none"

\* A report is decided only when at least SEND_INTERVAL minutes have passed
\* since the last decision (or since the survey began).
Pacing ==
  [][state = "PROCESS" /\ state' = "SEND_DATA" /\ at = "check"
       => minutes >= SEND_INTERVAL]_vars

\* A report is late only by the minutes that end while the flag of the minute
\* before is still up: one flag stands for all of them.  With an interval of
\* zero or less the first minute decides.
LateByMissed ==
  [][state = "PROCESS" /\ state' = "SEND_DATA" /\ at = "check"
       => \/ minutes <= SEND_INTERVAL + missed
          \/ SEND_INTERVAL < 1 /\ minutes <= 1 + missed]_vars

\* Minutes that the countdown has seen, or will see: the flag is up and the
\* block of a minute is still to be entered.
MinuteWaiting ==
  IF t_period["RR_1m"] /\ ~(at = "scan" /\ block = "RR_1m") THEN 1 ELSE 0

MinutesCover ==
  at # "init" => minutes >= SEND_INTERVAL - sendDataMin + MinuteWaiting

\* The flag of a block stays up while its lane is scanned.
ScanFlagged == at = "scan" => t_period[block]

\* The countdown has seen, or will see, all minutes but the missed ones.
MinutesCovered ==
  /\ at # "init" => minutes <= SEND_INTERVAL - sendDataMin + MinuteWaiting + missed
  /\ at = "init" => minutes = 0

\* The timer runs exactly when the loop has left INIT_SYS, with all its parts.
ArmedWhenReady ==
  /\ armed <=> at # "init"
  /\ armed => mqtt /\ manager
  /\ manager => cfgOk
  /\ ~armed => ~t_period["RR_1m"]

StateMatches ==
  /\ state = "INIT_SYS" <=> at = "init"
  /\ at = "send" => state = "SEND_DATA"
  /\ at = "survey" => state = "PROCESS"

IInv ==
  /\ TypeOK
  /\ ArmedWhenReady /\ StateMatches
  /\ TallyWithinCount /\ NoLoss /\ ReportCoversTally
  /\ ReadingIsTally /\ OnceIfRead
  /\ MinutesCover /\ ScanFlagged /\ MinutesCovered

\* The loop keeps the books of Reporting.tla: what a client is owed grows by its
\* readings, and only an accepted report settles it, for all clients at once.
Books == INSTANCE Reporting WITH
  owed  <- tally,
  fresh <- {c \in Clients : since[c] = "value"}

ImplementsReporting == Books!Spec

\* The loop comes into service as Service.tla says, and as Startup.tla does in
\* detail: with all its parts, and none is taken down later.
Start == INSTANCE Service WITH timer <- armed, inService <- at # "init"

ImplementsService == Start!Spec

\* However the loop takes flags down and starts the timer, it sees the three
\* exact clocks of Metronome.tla.
KeepsClocks == Clock!ImplementsMetronome

\* Reports are decided and sent for ever, although a minute may be missed.
ReportsRecur == armed ~> at = "send"

\* Every lane is scanned again and again, however long the scans of the others
\* take and although ticks are dropped while a lane is scanned.
LanesServed ==
  \A r \in Periods : armed ~> (at = "scan" /\ block = r)

\* What a counter has counted is sent in the end, in a report that is accepted.
EventuallySent ==
  \A c \in Clients : \A n \in 1 .. MaxCount :
    counted[c] >= n ~> delivered[c] + lost[c] >= n
=============================================================================
