--------------------------- MODULE MainLoopProofs ---------------------------
(***************************************************************************)
(* Proofs about the main loop, for any set of clients, refresh rates and   *)
(* send interval: its inductive invariant IInv, and from it that nothing   *)
(* counted is lost, that a client that is read is not reported twice (and  *)
(* none where no poll fails), that no report carries a value the survey    *)
(* has not set, that reports are at least SEND_INTERVAL minutes apart and  *)
(* late by the missed minutes alone, that every client is polled between   *)
(* two reports, and that the loop implements Reporting, Service and        *)
(* Metronome.                                                              *)
(*                                                                         *)
(* The invariant is proved one conjunct at a time, each lemma assuming the *)
(* conjuncts it leans on.                                                  *)
(***************************************************************************)
EXTENDS MainLoop, TLAPS

USE LoopAssumption DEF Unset, minuteVars

-----------------------------------------------------------------------------
(* What single steps do, in the form the lemmas below need.                *)

LEMMA HandlerType ==
  ASSUME Clock!TypeOK, Clock!timer_handler_100ms
  PROVE  /\ t_period' \in [Periods -> BOOLEAN]
         /\ timer_counter' \in 0 .. TIMER_1M - 1
         /\ armed' = armed
<1>1. t_period' \in [Periods -> BOOLEAN]
  BY DEF Clock!timer_handler_100ms, Clock!Raise, Clock!TypeOK, Periods
<1>2. timer_counter' \in 0 .. TIMER_1M - 1
  BY DEF Clock!timer_handler_100ms, Clock!TypeOK
<1> QED
  BY <1>1, <1>2 DEF Clock!timer_handler_100ms

\* The handler raises the flag of a minute only in the step that counts one.
LEMMA HandlerMinute ==
  ASSUME Clock!timer_handler_100ms, timer_counter + 1 # TIMER_1M
  PROVE  t_period'["RR_1m"] = (t_period["RR_1m"] \/ FALSE)
<1>1. "RR_1m" \notin Clock!Ended(timer_counter + 1)
  BY DEF Clock!Ended
<1> QED
  BY <1>1 DEF Clock!timer_handler_100ms, Clock!Raise, Clock!Periods

\* The handler raises the flag of a minute that ends.
LEMMA HandlerMinuteEnds ==
  ASSUME Clock!TypeOK, Clock!timer_handler_100ms, timer_counter + 1 = TIMER_1M
  PROVE  t_period'["RR_1m"]
<1>1. "RR_1m" \in Clock!Ended(timer_counter + 1)
  BY DEF Clock!Ended
<1> QED
  BY <1>1 DEF Clock!timer_handler_100ms, Clock!Raise, Clock!Periods

-----------------------------------------------------------------------------
(* Types.                                                                  *)

LEMMA CountType ==
  ASSUME TypeOK, TallyWithinCount, NEW c \in Clients, NEW n \in 0 .. MaxCount,
         Count(c, n)
  PROVE  /\ tally' \in [Clients -> 0 .. MaxCount]
         /\ mqtt_data' \in [Clients -> Unset .. MaxCount]
         /\ counted' \in [Clients -> 0 .. MaxCount]
         /\ since' \in [Clients -> {"none", "value", "failure"}]
         /\ UNCHANGED <<delivered, lost, repeated>>
<1>1. /\ counted[c] + n \in 0 .. MaxCount
      /\ tally[c] + n \in 0 .. MaxCount
      /\ tally[c] + n \in Unset .. MaxCount
  BY DEF TypeOK, TallyWithinCount, Count
<1> QED
  BY <1>1 DEF TypeOK, Count

\* The sums of what was sent stay in their bounds.
LEMMA SentType ==
  ASSUME TypeOK, ReportCoversTally, at = "send",
         NEW total \in [Clients -> 0 .. MaxDelivered]
  PROVE  Sent(total) \in [Clients -> 0 .. MaxDelivered]
<1>1. ASSUME NEW c \in Clients
      PROVE  Least(total[c] + mqtt_data[c], MaxDelivered) \in 0 .. MaxDelivered
  <2>1. /\ total[c] \in Nat /\ mqtt_data[c] \in Int /\ tally[c] \in Nat
        /\ mqtt_data[c] >= tally[c]
    BY DEF TypeOK, ReportCoversTally
  <2> QED BY <2>1 DEF Least
<1> QED BY <1>1 DEF Sent

LEMMA AcceptedType ==
  ASSUME TypeOK, Accepted
  PROVE  /\ tally' \in [Clients -> 0 .. MaxCount]
         /\ since' \in [Clients -> {"none", "value", "failure"}]
         /\ repeated' \subseteq Clients
         /\ UNCHANGED <<mqtt_data, counted>>
BY DEF TypeOK, Accepted

LEMMA LeaveBlockType ==
  ASSUME TypeOK, LeaveBlock
  PROVE  at' \in {"check", "send"} /\ block' \in Periods
BY DEF TypeOK, LeaveBlock, NextBlock, Periods, Clock!Periods

LEMMA CountMinuteType ==
  ASSUME TypeOK, CountMinute
  PROVE  /\ state' \in {"INIT_SYS", "PROCESS", "SEND_DATA"}
         /\ sendDataMin' \in 1 .. SEND_INTERVAL \union {SEND_INTERVAL}
         /\ minutes' \in 0 .. MaxMinutes /\ missed' \in 0 .. MaxMinutes
BY DEF TypeOK, CountMinute

LEMMA TypeInit == Init => TypeOK
<1> SUFFICES ASSUME Init PROVE TypeOK
  OBVIOUS
<1>1. Clock!TypeOK
  <2>1. t_period \in [Clock!Periods -> BOOLEAN] /\ armed \in BOOLEAN
    BY DEF Init, Clock!Init
  <2>2. timer_counter \in 0 .. TIMER_1M - 1
    BY DEF Init, Clock!Init
  <2> QED BY <2>1, <2>2 DEF Clock!TypeOK
<1>2. mqtt \in BOOLEAN /\ manager \in BOOLEAN /\ cfgOk \in BOOLEAN
  BY DEF Init
<1>3. /\ minutes \in 0 .. MaxMinutes /\ missed \in 0 .. MaxMinutes
      /\ block \in Periods
  BY DEF Init, Periods, Clock!Periods
<1>4. /\ tally \in [Clients -> 0 .. MaxCount]
      /\ mqtt_data \in [Clients -> Unset .. MaxCount]
      /\ counted \in [Clients -> 0 .. MaxCount]
      /\ delivered \in [Clients -> 0 .. MaxDelivered]
      /\ lost \in [Clients -> 0 .. MaxDelivered]
      /\ since \in [Clients -> {"none", "value", "failure"}]
      /\ repeated \subseteq Clients
  BY DEF Init
<1> QED
  BY <1>1, <1>2, <1>3, <1>4 DEF Init, TypeOK

LEMMA TypeStep ==
  TypeOK /\ TallyWithinCount /\ ReportCoversTally /\ [Next]_vars => TypeOK'
<1> SUFFICES ASSUME TypeOK, TallyWithinCount, ReportCoversTally, [Next]_vars
             PROVE  TypeOK'
  OBVIOUS
<1>1. CASE Tick
  <2>1. /\ t_period' \in [Periods -> BOOLEAN]
        /\ timer_counter' \in 0 .. TIMER_1M - 1
        /\ armed' = armed
    BY <1>1, HandlerType DEF Tick, TypeOK
  <2>2. minutes' \in 0 .. MaxMinutes /\ missed' \in 0 .. MaxMinutes
    BY <1>1 DEF Tick, TypeOK, Least
  <2> QED
    BY <1>1, <2>1, <2>2 DEF Tick, TypeOK, Clock!TypeOK, initVars, counterVars,
                            Periods
<1>2. CASE init_sys
  BY <1>2 DEF init_sys, TypeOK, Clock!TypeOK, Clock!timer_start,
              Clock!timer_stop, counterVars
<1>3. ASSUME NEW c \in Clients, Survey(c) \/ PollOk(c)
      PROVE  TypeOK'
  <2>1. PICK n \in 0 .. MaxCount : Count(c, n)
    BY <1>3 DEF Survey, PollOk
  <2> QED
    BY <1>3, <2>1, CountType DEF Survey, PollOk, TypeOK, Clock!TypeOK,
                                 timerVars, initVars
<1>4. ASSUME NEW c \in Clients, PollFail(c)
      PROVE  TypeOK'
  <2>1. since' \in [Clients -> {"none", "value", "failure"}]
    BY <1>4 DEF PollFail, TypeOK
  <2> QED
    BY <1>4, <2>1 DEF PollFail, TypeOK, Clock!TypeOK, timerVars, initVars
<1>5. CASE SurveyEnd
  BY <1>5 DEF SurveyEnd, TypeOK, Clock!TypeOK, timerVars, initVars, counterVars
<1>6. CASE Skip
  BY <1>6, LeaveBlockType DEF Skip, TypeOK, Clock!TypeOK, timerVars, initVars,
                              counterVars
<1>7. CASE EnterBlock
  <2>1. /\ state' \in {"INIT_SYS", "PROCESS", "SEND_DATA"}
        /\ sendDataMin' \in 1 .. SEND_INTERVAL \union {SEND_INTERVAL}
        /\ minutes' \in 0 .. MaxMinutes /\ missed' \in 0 .. MaxMinutes
    BY <1>7, CountMinuteType DEF EnterBlock, TypeOK
  <2> QED
    BY <1>7, <2>1 DEF EnterBlock, TypeOK, Clock!TypeOK, timerVars, initVars,
                      counterVars
<1>8. CASE BlockEnd
  BY <1>8, LeaveBlockType DEF BlockEnd, Serve, Clock!Served, TypeOK,
       Clock!TypeOK, initVars, counterVars, Periods
<1>9. CASE SendOk \/ SendLost
  <2>1. /\ delivered' \in [Clients -> 0 .. MaxDelivered]
        /\ lost' \in [Clients -> 0 .. MaxDelivered]
    BY <1>9, SentType DEF SendOk, SendLost, TypeOK
  <2>2. Accepted /\ BackToProcess
    BY <1>9 DEF SendOk, SendLost
  <2> QED
    BY <2>1, <2>2, AcceptedType DEF BackToProcess, TypeOK, Clock!TypeOK,
                                    timerVars, initVars
<1>10. CASE SendFail
  BY <1>10 DEF SendFail, BackToProcess, TypeOK, Clock!TypeOK, timerVars,
               initVars, counterVars
<1>11. CASE UNCHANGED vars
  BY <1>11 DEF vars, timerVars, initVars, counterVars, TypeOK, Clock!TypeOK
<1> QED
  BY <1>1, <1>2, <1>3, <1>4, <1>5, <1>6, <1>7, <1>8, <1>9, <1>10, <1>11
     DEF Next, Step

-----------------------------------------------------------------------------
(* Control: the timer runs when the loop has left INIT_SYS, and the step   *)
(* the loop is at agrees with the state main dispatches on.                *)

LEMMA ControlStep ==
  TypeOK /\ ArmedWhenReady /\ StateMatches /\ [Next]_vars
    => ArmedWhenReady' /\ StateMatches'
<1> SUFFICES ASSUME TypeOK, ArmedWhenReady, StateMatches, [Next]_vars
             PROVE  ArmedWhenReady' /\ StateMatches'
  OBVIOUS
<1> USE DEF ArmedWhenReady, StateMatches
<1>1. CASE Tick
  BY <1>1 DEF Tick, Clock!timer_handler_100ms, initVars
<1>2. CASE init_sys
  <2>1. manager' => cfgOk'
    BY <1>2 DEF init_sys
  <2>2. CASE armed'
    <3>1. Ready /\ state' = "PROCESS" /\ at' = "survey"
      BY <1>2, <2>2 DEF init_sys, Clock!timer_stop
    <3> QED BY <2>1, <2>2, <3>1 DEF Ready
  <2>3. CASE ~armed'
    <3>1. at = "init" /\ ~armed
      BY <1>2 DEF init_sys
    <3>2. at' = at /\ state' = state /\ t_period' = t_period
      BY <1>2, <2>3 DEF init_sys, Clock!timer_start, Clock!timer_stop
    <3> QED BY <2>1, <2>3, <3>1, <3>2
  <2> QED BY <2>2, <2>3
<1>3. ASSUME NEW c \in Clients, Survey(c) \/ PollOk(c) \/ PollFail(c)
      PROVE  ArmedWhenReady' /\ StateMatches'
  BY <1>3 DEF Survey, PollOk, PollFail, timerVars, initVars
<1>4. CASE SurveyEnd
  BY <1>4 DEF SurveyEnd, timerVars, initVars
<1>5. CASE Skip
  BY <1>5 DEF Skip, LeaveBlock, timerVars, initVars
<1>6. CASE EnterBlock
  BY <1>6 DEF EnterBlock, CountMinute, timerVars, initVars
<1>7. CASE BlockEnd
  BY <1>7 DEF BlockEnd, LeaveBlock, Serve, Clock!Served, initVars
<1>8. CASE SendOk \/ SendLost \/ SendFail
  BY <1>8 DEF SendOk, SendLost, SendFail, BackToProcess, timerVars, initVars
<1>9. CASE UNCHANGED vars
  BY <1>9 DEF vars, timerVars, initVars
<1> QED
  BY <1>1, <1>2, <1>3, <1>4, <1>5, <1>6, <1>7, <1>8, <1>9 DEF Next, Step

-----------------------------------------------------------------------------
(* Counting and reporting.                                                 *)

\* The steps that touch neither the counters nor the report.
LEMMA OtherSteps ==
  ASSUME [Next]_vars,
         \A c \in Clients : ~Survey(c) /\ ~PollOk(c), ~SendOk, ~SendLost
  PROVE  UNCHANGED <<tally, mqtt_data, counted, delivered, lost, repeated>>
BY DEF Next, Step, Tick, init_sys, PollFail, SurveyEnd, Skip, EnterBlock,
       BlockEnd, SendFail, vars, counterVars

\* A failed poll is the only one of them that history notes, and it makes no
\* value of what was none, nor takes one away.
LEMMA SinceEffect ==
  ASSUME TypeOK, [Next]_vars,
         \A c \in Clients : ~Survey(c) /\ ~PollOk(c), ~SendOk, ~SendLost,
         NEW d \in Clients
  PROVE  since'[d] = "value" <=> since[d] = "value"
<1>1. CASE \E c \in Clients : PollFail(c)
  BY <1>1 DEF PollFail, TypeOK
<1>2. CASE \A c \in Clients : ~PollFail(c)
  <2>1. UNCHANGED since
    BY <1>2 DEF Next, Step, Tick, init_sys, SurveyEnd, Skip, EnterBlock,
                BlockEnd, SendFail, vars, counterVars
  <2> QED BY <2>1
<1> QED BY <1>1, <1>2

\* An accepted report adds the values of mqtt_data to one of the two sums.
LEMMA SendEffect ==
  ASSUME TypeOK, ReportCoversTally, SendOk \/ SendLost, NEW d \in Clients
  PROVE  /\ mqtt_data[d] \in Nat /\ mqtt_data[d] >= tally[d]
         /\ tally'[d] = 0 /\ since'[d] = "none"
         /\ UNCHANGED <<mqtt_data, counted>>
         /\ d \in repeated' <=> d \in repeated \/ since[d] # "value"
         /\ \/ /\ delivered'[d] = Least(delivered[d] + mqtt_data[d], MaxDelivered)
               /\ lost' = lost
            \/ /\ lost'[d] = Least(lost[d] + mqtt_data[d], MaxDelivered)
               /\ delivered' = delivered
<1>1. at = "send" /\ Accepted
  BY DEF SendOk, SendLost
<1>2. mqtt_data[d] \in Nat /\ mqtt_data[d] >= tally[d]
  BY <1>1 DEF ReportCoversTally, TypeOK
<1> QED
  BY <1>1, <1>2 DEF SendOk, SendLost, Accepted, Sent

\* A counted reading changes only the entries of its client.
LEMMA CountEffect ==
  ASSUME TypeOK, NEW c \in Clients, NEW n \in 0 .. MaxCount, Count(c, n),
         NEW d \in Clients
  PROVE  /\ UNCHANGED <<delivered, lost, repeated>>
         /\ since' = [since EXCEPT ![c] = "value"]
         /\ d = c => /\ tally'[d] = tally[d] + n
                     /\ counted'[d] = counted[d] + n
                     /\ mqtt_data'[d] = tally[d] + n
         /\ d # c => /\ tally'[d] = tally[d]
                     /\ counted'[d] = counted[d]
                     /\ mqtt_data'[d] = mqtt_data[d]
BY DEF TypeOK, Count

LEMMA TallyWithinCountStep ==
  TypeOK /\ TallyWithinCount /\ [Next]_vars => TallyWithinCount'
<1> SUFFICES ASSUME TypeOK, TallyWithinCount, [Next]_vars,
                    NEW d \in Clients
             PROVE  tally'[d] <= counted'[d]
  BY DEF TallyWithinCount
<1>0. tally[d] \in Nat /\ counted[d] \in Nat /\ tally[d] <= counted[d]
  BY DEF TypeOK, TallyWithinCount
<1>1. ASSUME NEW c \in Clients, Survey(c) \/ PollOk(c)
      PROVE  tally'[d] <= counted'[d]
  <2>1. PICK n \in 0 .. MaxCount : Count(c, n)
    BY <1>1 DEF Survey, PollOk
  <2> QED BY <1>0, <2>1, CountEffect
<1>2. CASE SendOk \/ SendLost
  BY <1>0, <1>2 DEF SendOk, SendLost, Accepted
<1> QED
  BY <1>0, <1>1, <1>2, OtherSteps

\* An accepted report takes along what mqtt_data holds, which is at least what
\* the counters give up.
LEMMA NoLossStep ==
  TypeOK /\ ReportCoversTally /\ NoLoss /\ [Next]_vars => NoLoss'
<1> SUFFICES ASSUME TypeOK, ReportCoversTally, NoLoss, [Next]_vars,
                    NEW d \in Clients
             PROVE  delivered'[d] + lost'[d] + tally'[d] >= counted'[d]
  BY DEF NoLoss
<1>0. /\ tally[d] \in Nat /\ counted[d] \in 0 .. MaxCount
      /\ delivered[d] \in Nat /\ lost[d] \in Nat
      /\ delivered[d] + lost[d] + tally[d] >= counted[d]
  BY DEF TypeOK, NoLoss
<1>1. ASSUME NEW c \in Clients, Survey(c) \/ PollOk(c)
      PROVE  delivered'[d] + lost'[d] + tally'[d] >= counted'[d]
  <2>1. PICK n \in 0 .. MaxCount : Count(c, n)
    BY <1>1 DEF Survey, PollOk
  <2> QED BY <1>0, <2>1, CountEffect
<1>2. CASE SendOk \/ SendLost
  <2>1. /\ mqtt_data[d] \in Nat /\ mqtt_data[d] >= tally[d]
        /\ tally'[d] = 0 /\ counted' = counted
        /\ \/ /\ delivered'[d] = Least(delivered[d] + mqtt_data[d], MaxDelivered)
              /\ lost' = lost
           \/ /\ lost'[d] = Least(lost[d] + mqtt_data[d], MaxDelivered)
              /\ delivered' = delivered
    BY <1>2, SendEffect
  <2> QED BY <1>0, <2>1 DEF Least
<1> QED
  BY <1>0, <1>1, <1>2, OtherSteps

\* A reading sets mqtt_data to the counter; what sets the counter back also
\* forgets the reading.
LEMMA ReadingIsTallyStep ==
  TypeOK /\ ReportCoversTally /\ ReadingIsTally /\ [Next]_vars
    => ReadingIsTally'
<1> SUFFICES ASSUME TypeOK, ReportCoversTally, ReadingIsTally, [Next]_vars,
                    NEW d \in Clients, since'[d] = "value"
             PROVE  mqtt_data'[d] = tally'[d]
  BY DEF ReadingIsTally
<1>1. ASSUME NEW c \in Clients, Survey(c) \/ PollOk(c)
      PROVE  mqtt_data'[d] = tally'[d]
  <2>1. PICK n \in 0 .. MaxCount : Count(c, n)
    BY <1>1 DEF Survey, PollOk
  <2>2. d # c => since[d] = "value"
    BY <2>1, CountEffect DEF TypeOK
  <2> QED BY <2>1, <2>2, CountEffect DEF ReadingIsTally
<1>2. ~SendOk /\ ~SendLost
  BY SendEffect
<1> QED
  BY <1>1, <1>2, OtherSteps, SinceEffect DEF ReadingIsTally

\* A report adds more than the counter gives up only for a client that has no
\* reading, and such a client is in `repeated` afterwards.
LEMMA OnceIfReadStep ==
  TypeOK /\ ReportCoversTally /\ ReadingIsTally /\ OnceIfRead /\ [Next]_vars
    => OnceIfRead'
<1> SUFFICES ASSUME TypeOK, ReportCoversTally, ReadingIsTally, OnceIfRead,
                    [Next]_vars, NEW d \in Clients, d \notin repeated'
             PROVE  delivered'[d] + lost'[d] + tally'[d] <= counted'[d]
  BY DEF OnceIfRead
<1>0. /\ tally[d] \in Nat /\ counted[d] \in Nat
      /\ delivered[d] \in 0 .. MaxDelivered /\ lost[d] \in 0 .. MaxDelivered
      /\ d \notin repeated => delivered[d] + lost[d] + tally[d] <= counted[d]
  BY DEF TypeOK, OnceIfRead
<1>1. ASSUME NEW c \in Clients, Survey(c) \/ PollOk(c)
      PROVE  delivered'[d] + lost'[d] + tally'[d] <= counted'[d]
  <2>1. PICK n \in 0 .. MaxCount : Count(c, n)
    BY <1>1 DEF Survey, PollOk
  <2> QED BY <1>0, <2>1, CountEffect
<1>2. CASE SendOk \/ SendLost
  <2>1. /\ tally'[d] = 0 /\ counted' = counted
        /\ d \notin repeated /\ since[d] = "value"
        /\ mqtt_data[d] \in Nat
        /\ \/ /\ delivered'[d] = Least(delivered[d] + mqtt_data[d], MaxDelivered)
              /\ lost' = lost
           \/ /\ lost'[d] = Least(lost[d] + mqtt_data[d], MaxDelivered)
              /\ delivered' = delivered
    BY <1>2, SendEffect
  <2>2. mqtt_data[d] = tally[d]
    BY <2>1 DEF ReadingIsTally
  <2> QED BY <1>0, <2>1, <2>2 DEF Least
<1> QED
  BY <1>0, <1>1, <1>2, OtherSteps

LEMMA ReportCoversTallyStep ==
  TypeOK /\ ReportCoversTally /\ [Next]_vars => ReportCoversTally'
<1> SUFFICES ASSUME TypeOK, ReportCoversTally, [Next]_vars,
                    NEW d \in Clients,
                    at' # "init", ~(at' = "survey" /\ d \in todo')
             PROVE  mqtt_data'[d] >= tally'[d]
  BY DEF ReportCoversTally
<1>0. /\ tally[d] \in Nat /\ mqtt_data[d] \in Int
      /\ at = "init" \/ (at = "survey" /\ d \in todo) \/ mqtt_data[d] >= tally[d]
  BY DEF TypeOK, ReportCoversTally
<1>1. CASE init_sys
  BY <1>1 DEF init_sys
<1>2. ASSUME NEW c \in Clients, Survey(c) \/ PollOk(c)
      PROVE  mqtt_data'[d] >= tally'[d]
  <2>1. PICK n \in 0 .. MaxCount : Count(c, n)
    BY <1>2 DEF Survey, PollOk
  <2>2. CASE d = c
    BY <1>0, <2>1, <2>2, CountEffect
  <2>3. CASE d # c
    <3>1. at' = at /\ (d \in todo' <=> d \in todo)
      BY <1>2, <2>3 DEF Survey, PollOk
    <3> QED BY <1>0, <2>1, <2>3, <3>1, CountEffect
  <2> QED BY <2>2, <2>3
<1>3. CASE SendOk \/ SendLost
  BY <1>0, <1>3, SendEffect
<1>4. CASE /\ UNCHANGED <<tally, mqtt_data>>
           /\ at # "init" /\ (at = "survey" => d \notin todo)
  BY <1>0, <1>4
<1>5. CASE ~init_sys /\ ~SendOk /\ ~SendLost /\ \A c \in Clients : ~Survey(c) /\ ~PollOk(c)
  <2>1. at # "init" /\ (at = "survey" => d \notin todo)
    BY <1>5 DEF Next, Step, Tick, PollFail, SurveyEnd, Skip, EnterBlock,
                BlockEnd, SendFail, vars
  <2> QED BY <1>4, <1>5, <2>1, OtherSteps
<1> QED
  BY <1>1, <1>2, <1>3, <1>5

-----------------------------------------------------------------------------
(* The pace of the reports.                                                *)

\* A report is decided in the block of a minute.
LEMMA DecisionAtMinute ==
  ASSUME [Next]_vars, state = "PROCESS", state' = "SEND_DATA", at = "check"
  PROVE  EnterBlock /\ block = "RR_1m" /\ sendDataMin - 1 <= 0
<1>1. EnterBlock
  BY DEF Next, Step, Tick, init_sys, Survey, PollOk, PollFail, SurveyEnd, Skip,
         BlockEnd, SendOk, SendLost, SendFail, BackToProcess, vars
<1> QED
  BY <1>1 DEF EnterBlock, CountMinute

\* Deciding a report costs SEND_INTERVAL minutes.
LEMMA DecisionNeedsMinutes ==
  ASSUME TypeOK, StateMatches, MinutesCover, EnterBlock, block = "RR_1m",
         sendDataMin - 1 <= 0
  PROVE  minutes >= SEND_INTERVAL
<1>1. MinuteWaiting = 1 /\ at # "init"
  BY DEF EnterBlock, MinuteWaiting
<1> QED
  BY <1>1 DEF TypeOK, MinutesCover

LEMMA MinutesCoverStep ==
  TypeOK /\ ArmedWhenReady /\ StateMatches /\ MinutesCover /\ [Next]_vars
    => MinutesCover'
<1> SUFFICES ASSUME TypeOK, ArmedWhenReady, StateMatches, MinutesCover,
                    [Next]_vars, at' # "init"
             PROVE  minutes' >= SEND_INTERVAL - sendDataMin' + MinuteWaiting'
  BY DEF MinutesCover
<1>0. /\ minutes \in 0 .. MaxMinutes /\ sendDataMin \in Int
      /\ sendDataMin >= 1 \/ sendDataMin = SEND_INTERVAL
      /\ MinuteWaiting \in {0, 1} /\ MinuteWaiting' \in {0, 1}
  BY DEF TypeOK, MinuteWaiting
<1>1. CASE Tick
  <2>0. at' = at /\ block' = block /\ sendDataMin' = sendDataMin
    BY <1>1 DEF Tick
  <2>1. CASE timer_counter + 1 = TIMER_1M
    <3>1. minutes' = Least(minutes + 1, MaxMinutes)
      BY <1>1, <2>1 DEF Tick
    <3>2. minutes >= SEND_INTERVAL - sendDataMin + MinuteWaiting
      BY <2>0 DEF MinutesCover
    <3>3. minutes' \in Int /\ minutes' >= SEND_INTERVAL - sendDataMin + 1
      BY <1>0, <3>1, <3>2 DEF Least
    <3> QED BY <1>0, <2>0, <3>3 DEF MinuteWaiting
  <2>2. CASE timer_counter + 1 # TIMER_1M
    <3>1. minutes' = minutes
      BY <1>1, <2>2 DEF Tick
    <3>2. t_period'["RR_1m"] = (t_period["RR_1m"] \/ FALSE)
      BY <1>1, <2>2, HandlerMinute DEF Tick
    <3>3. MinuteWaiting' = MinuteWaiting
      BY <2>0, <3>2 DEF MinuteWaiting
    <3> QED BY <2>0, <3>1, <3>3 DEF MinutesCover
  <2> QED BY <2>1, <2>2
<1>2. CASE init_sys
  <2>1. sendDataMin' = SEND_INTERVAL /\ t_period' = t_period
    BY <1>2 DEF init_sys, Clock!timer_start
  <2>2. ~t_period["RR_1m"] /\ minutes' = minutes
    BY <1>2 DEF init_sys, ArmedWhenReady
  <2>3. MinuteWaiting' = 0
    BY <2>1, <2>2 DEF MinuteWaiting
  <2> QED BY <1>0, <2>1, <2>2, <2>3
<1>3. ASSUME NEW c \in Clients, Survey(c) \/ PollOk(c) \/ PollFail(c)
      PROVE  minutes' >= SEND_INTERVAL - sendDataMin' + MinuteWaiting'
  BY <1>3 DEF Survey, PollOk, PollFail, timerVars, MinutesCover, MinuteWaiting
<1>4. CASE SurveyEnd
  BY <1>4 DEF SurveyEnd, timerVars, MinutesCover, MinuteWaiting
<1>5. CASE Skip
  BY <1>5 DEF Skip, LeaveBlock, timerVars, MinutesCover, MinuteWaiting
<1>6. CASE EnterBlock
  <2>0. at = "check" /\ t_period[block] /\ at' = "scan" /\ block' = block
        /\ t_period' = t_period
    BY <1>6 DEF EnterBlock, timerVars
  <2>1. CASE block = "RR_1m"
    <3>1. MinuteWaiting = 1 /\ MinuteWaiting' = 0
      BY <2>0, <2>1 DEF MinuteWaiting
    <3>2. CountMinute
      BY <1>6, <2>1 DEF EnterBlock
    <3> QED BY <1>0, <2>0, <3>1, <3>2 DEF CountMinute, MinutesCover
  <2>2. CASE block # "RR_1m"
    <3>1. MinuteWaiting' = MinuteWaiting
      BY <2>0, <2>2 DEF MinuteWaiting
    <3>2. UNCHANGED <<sendDataMin, minutes>>
      BY <1>6, <2>2 DEF EnterBlock
    <3> QED BY <2>0, <3>1, <3>2 DEF MinutesCover
  <2> QED BY <2>1, <2>2
<1>7. CASE BlockEnd
  <2>0. /\ at = "scan" /\ sendDataMin' = sendDataMin /\ minutes' = minutes
        /\ t_period' = [t_period EXCEPT ![block] = FALSE]
        /\ at' # "scan"
    BY <1>7 DEF BlockEnd, Serve, Clock!Served, LeaveBlock
  <2>1. MinuteWaiting' <= MinuteWaiting
    <3>1. CASE block = "RR_1m"
      <4>1. ~t_period'["RR_1m"]
        BY <2>0, <3>1 DEF TypeOK, Clock!TypeOK, Clock!Periods
      <4> QED BY <1>0, <4>1 DEF MinuteWaiting
    <3>2. CASE block # "RR_1m"
      <4>1. t_period'["RR_1m"] = t_period["RR_1m"]
        BY <2>0, <3>2 DEF TypeOK, Clock!TypeOK, Clock!Periods
      <4> QED BY <2>0, <3>2, <4>1 DEF MinuteWaiting
    <3> QED BY <3>1, <3>2
  <2>2. minutes >= SEND_INTERVAL - sendDataMin + MinuteWaiting
    BY <2>0 DEF MinutesCover
  <2>3. minutes' = minutes /\ sendDataMin' = sendDataMin
    BY <2>0
  <2> QED BY <1>0, <2>1, <2>2, <2>3 DEF MinuteWaiting
<1>8. CASE SendOk \/ SendLost \/ SendFail
  BY <1>8 DEF SendOk, SendLost, SendFail, BackToProcess, timerVars, MinutesCover,
              MinuteWaiting
<1>9. CASE UNCHANGED vars
  BY <1>9 DEF vars, timerVars, MinutesCover, MinuteWaiting
<1> QED
  BY <1>1, <1>2, <1>3, <1>4, <1>5, <1>6, <1>7, <1>8, <1>9 DEF Next, Step

\* A minute that ends is seen by the countdown, waits for it, or is missed; the
\* flag that waits is taken down only when its minute has been seen.
LEMMA MinutesCoveredStep ==
  TypeOK /\ ArmedWhenReady /\ ScanFlagged /\ MinutesCovered /\ [Next]_vars
    => MinutesCovered'
<1> SUFFICES ASSUME TypeOK, ArmedWhenReady, ScanFlagged, MinutesCovered,
                    [Next]_vars
             PROVE  MinutesCovered'
  OBVIOUS
<1>0. /\ minutes \in 0 .. MaxMinutes /\ missed \in 0 .. MaxMinutes
      /\ sendDataMin \in Int /\ sendDataMin <= SEND_INTERVAL
      /\ MinuteWaiting \in {0, 1} /\ MinuteWaiting' \in {0, 1}
  BY DEF TypeOK, MinuteWaiting
<1>1. CASE Tick
  <2>0. /\ at' = at /\ block' = block /\ sendDataMin' = sendDataMin
        /\ at # "init" /\ Clock!timer_handler_100ms
        /\ minutes <= SEND_INTERVAL - sendDataMin + MinuteWaiting + missed
    BY <1>1 DEF Tick, Clock!timer_handler_100ms, ArmedWhenReady, MinutesCovered
  <2> SUFFICES minutes' <= SEND_INTERVAL - sendDataMin + MinuteWaiting' + missed'
    BY <2>0 DEF MinutesCovered
  <2>1. CASE timer_counter + 1 = TIMER_1M /\ t_period["RR_1m"]
    <3>1. /\ minutes' = Least(minutes + 1, MaxMinutes)
          /\ missed' = Least(missed + 1, MaxMinutes)
      BY <1>1, <2>1 DEF Tick
    <3>2. t_period'["RR_1m"]
      BY <2>0, <2>1, HandlerMinuteEnds DEF TypeOK
    <3>3. MinuteWaiting' = MinuteWaiting
      BY <2>0, <2>1, <3>2 DEF MinuteWaiting
    <3> QED BY <1>0, <2>0, <3>1, <3>3 DEF Least
  <2>2. CASE timer_counter + 1 = TIMER_1M /\ ~t_period["RR_1m"]
    <3>1. minutes' = Least(minutes + 1, MaxMinutes) /\ missed' = missed
      BY <1>1, <2>2 DEF Tick
    <3>2. MinuteWaiting = 0
      BY <2>2 DEF MinuteWaiting
    <3>3. t_period'["RR_1m"]
      BY <2>0, <2>2, HandlerMinuteEnds DEF TypeOK
    <3>4. ~(at = "scan" /\ block = "RR_1m")
      BY <2>2 DEF ScanFlagged
    <3>5. MinuteWaiting' = 1
      BY <2>0, <3>3, <3>4 DEF MinuteWaiting
    <3> QED BY <1>0, <2>0, <3>1, <3>2, <3>5 DEF Least
  <2>3. CASE timer_counter + 1 # TIMER_1M
    <3>1. minutes' = minutes /\ missed' = missed
      BY <1>1, <2>3 DEF Tick
    <3>2. t_period'["RR_1m"] = (t_period["RR_1m"] \/ FALSE)
      BY <1>1, <2>3, HandlerMinute DEF Tick
    <3>3. MinuteWaiting' = MinuteWaiting
      BY <2>0, <3>2 DEF MinuteWaiting
    <3> QED BY <2>0, <3>1, <3>3
  <2> QED BY <2>1, <2>2, <2>3
<1>2. CASE init_sys
  <2>1. at = "init" /\ ~t_period["RR_1m"] /\ t_period' = t_period
    BY <1>2 DEF init_sys, ArmedWhenReady, Clock!timer_start, Clock!timer_stop
  <2>2. minutes' = 0 /\ missed' = missed
    BY <1>2, <2>1 DEF init_sys, MinutesCovered
  <2>3. MinuteWaiting' = 0
    BY <2>1 DEF MinuteWaiting
  <2>4. CASE sendDataMin' = sendDataMin
    <3>1. 0 <= SEND_INTERVAL - sendDataMin + 0 + missed
      BY <1>0
    <3> QED BY <2>2, <2>3, <2>4, <3>1 DEF MinutesCovered
  <2>5. CASE sendDataMin' = SEND_INTERVAL
    <3>1. 0 <= SEND_INTERVAL - SEND_INTERVAL + 0 + missed
      BY <1>0
    <3> QED BY <2>2, <2>3, <2>5, <3>1 DEF MinutesCovered
  <2> QED BY <1>2, <2>4, <2>5 DEF init_sys
<1>3. ASSUME NEW c \in Clients, Survey(c) \/ PollOk(c) \/ PollFail(c)
      PROVE  MinutesCovered'
  BY <1>3 DEF Survey, PollOk, PollFail, timerVars, MinutesCovered, MinuteWaiting
<1>4. CASE SurveyEnd
  BY <1>4 DEF SurveyEnd, timerVars, MinutesCovered, MinuteWaiting
<1>5. CASE Skip
  BY <1>5 DEF Skip, LeaveBlock, timerVars, MinutesCovered, MinuteWaiting
<1>6. CASE EnterBlock
  <2>0. /\ at = "check" /\ t_period[block] /\ at' = "scan" /\ block' = block
        /\ t_period' = t_period
    BY <1>6 DEF EnterBlock, timerVars
  <2>1. CASE block = "RR_1m"
    <3>1. MinuteWaiting = 1 /\ MinuteWaiting' = 0
      BY <2>0, <2>1 DEF MinuteWaiting
    <3>2. CountMinute
      BY <1>6, <2>1 DEF EnterBlock
    <3> QED BY <1>0, <2>0, <3>1, <3>2 DEF CountMinute, MinutesCovered
  <2>2. CASE block # "RR_1m"
    <3>1. MinuteWaiting' = MinuteWaiting
      BY <2>0, <2>2 DEF MinuteWaiting
    <3>2. UNCHANGED <<sendDataMin, minutes, missed>>
      BY <1>6, <2>2 DEF EnterBlock
    <3> QED BY <2>0, <3>1, <3>2 DEF MinutesCovered
  <2> QED BY <2>1, <2>2
<1>7. CASE BlockEnd
  <2>0. /\ at = "scan" /\ at' # "scan" /\ at' # "init"
        /\ UNCHANGED <<sendDataMin, minutes, missed>>
        /\ t_period' = [t_period EXCEPT ![block] = FALSE]
    BY <1>7 DEF BlockEnd, Serve, Clock!Served, LeaveBlock
  <2>1. MinuteWaiting' = MinuteWaiting
    <3>1. CASE block = "RR_1m"
      <4>1. ~t_period'["RR_1m"]
        BY <2>0, <3>1 DEF TypeOK, Clock!TypeOK, Clock!Periods
      <4> QED BY <2>0, <3>1, <4>1 DEF MinuteWaiting
    <3>2. CASE block # "RR_1m"
      <4>1. t_period'["RR_1m"] = t_period["RR_1m"]
        BY <2>0, <3>2 DEF TypeOK, Clock!TypeOK, Clock!Periods
      <4> QED BY <2>0, <3>2, <4>1 DEF MinuteWaiting
    <3> QED BY <3>1, <3>2
  <2> QED BY <2>0, <2>1 DEF MinutesCovered
<1>8. CASE SendOk \/ SendLost \/ SendFail
  BY <1>8 DEF SendOk, SendLost, SendFail, BackToProcess, timerVars,
              MinutesCovered, MinuteWaiting
<1>9. CASE UNCHANGED vars
  BY <1>9 DEF vars, timerVars, MinutesCovered, MinuteWaiting
<1> QED
  BY <1>1, <1>2, <1>3, <1>4, <1>5, <1>6, <1>7, <1>8, <1>9 DEF Next, Step

\* The handler takes no flag down, and the loop only that of the block it leaves.
LEMMA ScanFlaggedStep ==
  TypeOK /\ ScanFlagged /\ [Next]_vars => ScanFlagged'
<1> SUFFICES ASSUME TypeOK, ScanFlagged, [Next]_vars, at' = "scan"
             PROVE  t_period'[block']
  BY DEF ScanFlagged
<1>1. CASE Tick
  BY <1>1 DEF Tick, Clock!timer_handler_100ms, Clock!Raise, Periods, TypeOK,
              ScanFlagged
<1>2. CASE ~Tick
  BY <1>2 DEF Next, Step, init_sys, Survey, PollOk, PollFail, SurveyEnd, Skip,
              EnterBlock, BlockEnd, LeaveBlock, SendOk, SendLost, SendFail,
              BackToProcess, vars, timerVars, ScanFlagged
<1> QED BY <1>1, <1>2

-----------------------------------------------------------------------------
(* The theorems.                                                           *)

LEMMA IInvInit == Init => IInv
<1> SUFFICES ASSUME Init PROVE IInv
  OBVIOUS
<1>1. TypeOK
  BY TypeInit
<1>2. ArmedWhenReady /\ StateMatches
  BY DEF Init, Clock!Init, Clock!Periods, ArmedWhenReady, StateMatches
<1>3. TallyWithinCount /\ NoLoss /\ ReportCoversTally /\ MinutesCover
  BY DEF Init, TallyWithinCount, NoLoss, ReportCoversTally, MinutesCover
<1>4. ReadingIsTally /\ OnceIfRead /\ ScanFlagged /\ MinutesCovered
  BY DEF Init, ReadingIsTally, OnceIfRead, ScanFlagged, MinutesCovered
<1> QED
  BY <1>1, <1>2, <1>3, <1>4 DEF IInv

LEMMA IInvStep == IInv /\ [Next]_vars => IInv'
BY TypeStep, ControlStep, TallyWithinCountStep, NoLossStep,
   ReportCoversTallyStep, ReadingIsTallyStep, OnceIfReadStep, MinutesCoverStep,
   ScanFlaggedStep, MinutesCoveredStep
   DEF IInv

LEMMA LoopInvariant == Spec => []IInv
BY IInvInit, IInvStep, PTL DEF Spec

\* The variables of the main loop keep their types; in particular the
\* countdown stays within the configured interval.
THEOREM LoopTypes == Spec => []TypeOK
<1>1. IInv => TypeOK
  BY DEF IInv
<1> QED
  BY LoopInvariant, <1>1, PTL

\* Nothing a counter has counted is lost, whatever polls and reports fail.
THEOREM NothingLost == Spec => []NoLoss
<1>1. IInv => NoLoss
  BY DEF IInv
<1> QED
  BY LoopInvariant, <1>1, PTL

\* What is counted is reported once, except for a client that an accepted
\* report was sent for without a reading since the one before.
THEOREM ReadOnesOnce == Spec => []OnceIfRead
<1>1. IInv => OnceIfRead
  BY DEF IInv
<1> QED
  BY LoopInvariant, <1>1, PTL

\* No report goes out with a value the survey has not filled in.
THEOREM NoUnsetValue == Spec => []NoUnsetValueSent
<1>1. IInv => NoUnsetValueSent
  <2> SUFFICES ASSUME IInv, at = "send", NEW c \in Clients
               PROVE  mqtt_data[c] # Unset
    BY DEF NoUnsetValueSent
  <2>1. mqtt_data[c] >= tally[c]
    BY DEF IInv, ReportCoversTally
  <2>2. tally[c] \in Nat
    BY DEF IInv, TypeOK
  <2> QED BY <2>1, <2>2
<1> QED
  BY LoopInvariant, <1>1, PTL

\* Reports are decided at least SEND_INTERVAL minutes apart.
THEOREM ReportsPaced == Spec => Pacing
<1>1. ASSUME IInv, [Next]_vars
      PROVE  [state = "PROCESS" /\ state' = "SEND_DATA" /\ at = "check"
                => minutes >= SEND_INTERVAL]_vars
  <2> SUFFICES ASSUME state = "PROCESS", state' = "SEND_DATA", at = "check"
               PROVE  minutes >= SEND_INTERVAL
    OBVIOUS
  <2>1. EnterBlock /\ block = "RR_1m" /\ sendDataMin - 1 <= 0
    BY <1>1, DecisionAtMinute
  <2> QED BY <1>1, <2>1, DecisionNeedsMinutes DEF IInv
<1> QED
  BY LoopInvariant, <1>1, PTL DEF Spec, Pacing

\* ... and later than that only by the minutes that were missed, however long
\* the scans and the reports take.
THEOREM LatenessBounded == Spec => LateByMissed
<1>1. ASSUME IInv, [Next]_vars
      PROVE  [state = "PROCESS" /\ state' = "SEND_DATA" /\ at = "check"
                => \/ minutes <= SEND_INTERVAL + missed
                   \/ SEND_INTERVAL < 1 /\ minutes <= 1 + missed]_vars
  <2> SUFFICES ASSUME state = "PROCESS", state' = "SEND_DATA", at = "check"
               PROVE  \/ minutes <= SEND_INTERVAL + missed
                      \/ SEND_INTERVAL < 1 /\ minutes <= 1 + missed
    OBVIOUS
  <2>1. block = "RR_1m" /\ sendDataMin - 1 <= 0
    BY <1>1, DecisionAtMinute
  <2>2. MinuteWaiting \in {0, 1} /\ minutes \in Nat /\ missed \in Nat
    BY <1>1 DEF IInv, TypeOK, MinuteWaiting
  <2>3. sendDataMin \in Int /\ (sendDataMin >= 1 \/ sendDataMin = SEND_INTERVAL)
    BY <1>1 DEF IInv, TypeOK
  <2>4. minutes <= SEND_INTERVAL - sendDataMin + MinuteWaiting + missed
    BY <1>1 DEF IInv, MinutesCovered
  <2> QED BY <2>1, <2>2, <2>3, <2>4
<1> QED
  BY LoopInvariant, <1>1, PTL DEF Spec, LateByMissed

-----------------------------------------------------------------------------
(* The lanes between two accepted reports, for an interval above a minute. *)

\* Every client of lane p has been polled since the last accepted report.
Polled(p) == \A c \in Clients : RefreshRate[c] = p => since[c] # "none"

\* ... or will be, the next time the loop comes to the block of p.
Attended(p) == t_period[p] \/ Polled(p)

\* A minute has passed that the countdown has not seen.
MinuteUnseen == t_period["RR_1m"] /\ ~(at = "scan" /\ block = "RR_1m")

\* What a scan or the survey has handed out it has polled.
ScanPolls ==
  /\ at = "scan" =>
       \A c \in Clients :
         RefreshRate[c] = block => c \in todo \/ since[c] # "none"
  /\ at = "survey" => \A c \in Clients : c \in todo \/ since[c] # "none"

\* The countdown runs only between a report and the next decision.
CountdownSet ==
  state # "PROCESS" \/ at = "survey" => sendDataMin = SEND_INTERVAL

\* The flag of 100 ms came with that of the minute, and is down again only
\* after its lane has been scanned.
MinuteBringsTick ==
  MinuteUnseen =>
    \/ t_period["RR_100ms"]
    \/ state = "PROCESS" /\ at # "survey" /\ Polled("RR_100ms")

\* Once the countdown has seen a minute, the lane of that minute has been
\* scanned, and the lanes of the next one are as good as scanned.
CountdownPolls ==
  state = "PROCESS" /\ sendDataMin # SEND_INTERVAL =>
    /\ Polled("RR_1m") \/ (at = "scan" /\ block = "RR_1m")
    /\ Attended("RR_100ms")
    /\ at = "check" /\ block = "RR_1m" => Polled("RR_100ms")
    /\ MinuteUnseen => Attended("RR_1s")

\* When a report is decided, only the block of a second is left to come.
DecisionPolls ==
  state = "SEND_DATA" =>
    /\ at # "send" => block = "RR_1s" \/ (at = "scan" /\ block = "RR_1m")
    /\ Polled("RR_100ms") /\ Polled("RR_1m")
    /\ IF at = "send" THEN Polled("RR_1s") ELSE Attended("RR_1s")

LanesInv ==
  /\ ScanPolls /\ CountdownSet /\ MinuteBringsTick
  /\ CountdownPolls /\ DecisionPolls

\* The handler takes no flag down; it raises that of 100 ms each time, and that
\* of a second with that of a minute.
LEMMA HandlerRaises ==
  ASSUME Clock!TypeOK, Clock!timer_handler_100ms
  PROVE  /\ \A p \in Periods : t_period[p] => t_period'[p]
         /\ t_period'["RR_100ms"]
         /\ t_period'["RR_1m"] => t_period["RR_1m"] \/ t_period'["RR_1s"]
<1>1. /\ timer_counter + 1 \in Int
      /\ t_period' = [p \in Periods |->
                        t_period[p] \/ p \in Clock!Ended(timer_counter + 1)]
  BY DEF Clock!timer_handler_100ms, Clock!Raise, Clock!TypeOK, Periods
<1>2. "RR_100ms" \in Clock!Ended(timer_counter + 1)
  BY DEF Clock!Ended
<1>3. "RR_1m" \in Clock!Ended(timer_counter + 1)
        => "RR_1s" \in Clock!Ended(timer_counter + 1)
  BY MinuteAssumption DEF Clock!Ended
<1> QED
  BY <1>1, <1>2, <1>3 DEF Periods, Clock!Periods

\* Only an accepted report forgets that a client has been polled.
LEMMA PolledStays ==
  ASSUME TypeOK, [Next]_vars, ~SendOk, ~SendLost, NEW d \in Clients,
         since[d] # "none"
  PROVE  since'[d] # "none"
<1>1. ASSUME NEW c \in Clients, Survey(c) \/ PollOk(c)
      PROVE  since'[d] # "none"
  BY <1>1 DEF Survey, PollOk, Count, TypeOK
<1>2. ASSUME NEW c \in Clients, PollFail(c)
      PROVE  since'[d] # "none"
  BY <1>2 DEF PollFail, TypeOK
<1>3. CASE \A c \in Clients : ~Survey(c) /\ ~PollOk(c) /\ ~PollFail(c)
  BY <1>3 DEF Next, Step, Tick, init_sys, SurveyEnd, Skip, EnterBlock,
              BlockEnd, SendFail, vars, counterVars
<1> QED
  BY <1>1, <1>2, <1>3

\* The steps that move the loop on poll no client and raise no flag.
LEMMA LanesQuiet ==
  ASSUME UNCHANGED <<since, t_period>>, NEW p \in Periods
  PROVE  (Polled(p)' <=> Polled(p)) /\ (Attended(p)' <=> Attended(p))
BY DEF Polled, Attended

LEMMA LanesInit == Init => LanesInv
BY DEF Init, Clock!Init, Clock!Periods, LanesInv, ScanPolls, CountdownSet,
       MinuteBringsTick, CountdownPolls, DecisionPolls, MinuteUnseen

LEMMA LanesStep ==
  ASSUME SEND_INTERVAL > 1
  PROVE  IInv /\ LanesInv /\ [Next]_vars => LanesInv'
<1> SUFFICES ASSUME IInv, LanesInv, [Next]_vars
             PROVE  LanesInv'
  OBVIOUS
<1>0. /\ TypeOK /\ Clock!TypeOK /\ ArmedWhenReady /\ StateMatches
      /\ sendDataMin \in Int /\ sendDataMin >= 1 /\ block \in Periods
      /\ t_period \in [Periods -> BOOLEAN]
  BY DEF IInv, TypeOK, Clock!TypeOK, Periods
<1>p. "RR_100ms" \in Periods /\ "RR_1m" \in Periods /\ "RR_1s" \in Periods
  BY DEF Periods, Clock!Periods
<1> USE DEF LanesInv
<1>1. CASE Tick
  <2>1. /\ UNCHANGED <<state, at, block, todo, sendDataMin, since>>
        /\ \A p \in Periods : t_period[p] => t_period'[p]
        /\ t_period'["RR_100ms"]
        /\ t_period'["RR_1m"] => t_period["RR_1m"] \/ t_period'["RR_1s"]
    BY <1>0, <1>1, HandlerRaises DEF Tick, counterVars
  <2>2. \A p \in Periods : (Polled(p)' <=> Polled(p)) /\ (Attended(p) => Attended(p)')
    BY <2>1 DEF Polled, Attended
  <2>3. MinuteUnseen' => MinuteUnseen \/ Attended("RR_1s")'
    BY <2>1 DEF MinuteUnseen, Attended
  <2>4. ScanPolls' /\ CountdownSet' /\ MinuteBringsTick'
    BY <2>1 DEF ScanPolls, CountdownSet, MinuteBringsTick
  <2>5. CountdownPolls' /\ DecisionPolls'
    BY <1>p, <2>1, <2>2, <2>3 DEF CountdownPolls, DecisionPolls
  <2> QED BY <2>4, <2>5
<1>2. CASE init_sys
  <2>1. /\ UNCHANGED <<since, t_period>> /\ ~t_period["RR_1m"]
        /\ \/ state' = "PROCESS" /\ at' = "survey" /\ todo' = Clients
              /\ sendDataMin' = SEND_INTERVAL
           \/ state' = "INIT_SYS" /\ at' = "init" /\ sendDataMin' = sendDataMin
    BY <1>0, <1>2 DEF init_sys, ArmedWhenReady, StateMatches, Clock!timer_start,
                      Clock!timer_stop, counterVars
  <2>2. at = "init" /\ sendDataMin = SEND_INTERVAL
    BY <1>0, <1>2 DEF init_sys, StateMatches, CountdownSet
  <2> QED
    BY <2>1, <2>2 DEF ScanPolls, CountdownSet, MinuteBringsTick, CountdownPolls,
                      DecisionPolls, MinuteUnseen
<1>3. ASSUME NEW c \in Clients, Survey(c) \/ PollOk(c) \/ PollFail(c)
      PROVE  LanesInv'
  <2>1. /\ UNCHANGED <<state, at, block, sendDataMin, t_period>>
        /\ c \in todo /\ todo' = todo \ {c}
    BY <1>3 DEF Survey, PollOk, PollFail, timerVars
  <2>2. since'[c] # "none"
    BY <1>0, <1>3 DEF Survey, PollOk, PollFail, Count, TypeOK
  <2>3. \A d \in Clients : since[d] # "none" => since'[d] # "none"
    BY <1>0, <1>3, PolledStays DEF Survey, PollOk, PollFail, SendOk, SendLost
  <2>4. \A p \in Periods : (Polled(p) => Polled(p)') /\ (Attended(p) => Attended(p)')
    BY <2>1, <2>3 DEF Polled, Attended
  <2>5. ScanPolls' /\ CountdownSet'
    BY <2>1, <2>2, <2>3 DEF ScanPolls, CountdownSet
  <2>6. MinuteBringsTick' /\ CountdownPolls' /\ DecisionPolls'
    BY <1>p, <2>1, <2>4 DEF MinuteBringsTick, CountdownPolls, DecisionPolls,
                            MinuteUnseen
  <2> QED BY <2>5, <2>6
<1>4. CASE SurveyEnd
  <2>1. /\ at = "survey" /\ todo = {} /\ state' = "SEND_DATA" /\ at' = "send"
        /\ UNCHANGED <<block, todo, sendDataMin, since, t_period>>
    BY <1>4 DEF SurveyEnd, timerVars, counterVars
  <2>2. \A p \in Periods : Polled(p)'
    BY <2>1 DEF ScanPolls, Polled
  <2>3. MinuteUnseen' => t_period'["RR_100ms"]
    BY <2>1 DEF MinuteUnseen, MinuteBringsTick
  <2> QED
    BY <1>p, <2>1, <2>2, <2>3 DEF ScanPolls, CountdownSet, MinuteBringsTick,
                                  CountdownPolls, DecisionPolls
<1>5. CASE Skip
  <2>1. /\ at = "check" /\ ~t_period[block] /\ LeaveBlock
        /\ UNCHANGED <<state, todo, sendDataMin, since, t_period>>
    BY <1>5 DEF Skip, timerVars, counterVars
  <2>2. \A p \in Periods : (Polled(p)' <=> Polled(p)) /\ (Attended(p)' <=> Attended(p))
    BY <2>1, LanesQuiet
  <2>3. Attended(block) => Polled(block)
    BY <2>1 DEF Attended
  <2>4. MinuteUnseen' <=> MinuteUnseen
    BY <2>1 DEF MinuteUnseen, LeaveBlock
  <2> QED
    BY <1>0, <1>p, <2>1, <2>2, <2>3, <2>4
       DEF LeaveBlock, NextBlock, Periods, Clock!Periods, ScanPolls, StateMatches,
           CountdownSet, MinuteBringsTick, CountdownPolls, DecisionPolls
<1>6. CASE EnterBlock
  <2>1. /\ at = "check" /\ t_period[block] /\ at' = "scan"
        /\ todo' = {c \in Clients : RefreshRate[c] = block}
        /\ UNCHANGED <<block, since, t_period>>
    BY <1>6 DEF EnterBlock, timerVars, counterVars
  <2>2. \A p \in Periods : (Polled(p)' <=> Polled(p)) /\ (Attended(p)' <=> Attended(p))
    BY <2>1, LanesQuiet
  <2>3. ScanPolls'
    BY <2>1 DEF ScanPolls
  <2>4. CASE block = "RR_1m"
    <3>1. MinuteUnseen /\ ~MinuteUnseen' /\ CountMinute
      BY <1>6, <2>1, <2>4 DEF MinuteUnseen, EnterBlock
    <3>2. state = "PROCESS"
      BY <1>0, <2>1, <2>4 DEF DecisionPolls, StateMatches, TypeOK
    <3>3. CASE sendDataMin - 1 <= 0
      <4>1. state' = "SEND_DATA" /\ sendDataMin' = SEND_INTERVAL
        BY <3>1, <3>3 DEF CountMinute
      <4>2. sendDataMin # SEND_INTERVAL
        BY <1>0, <3>3
      <4> QED
        BY <1>p, <2>1, <2>2, <2>3, <2>4, <3>1, <3>2, <4>1, <4>2
           DEF CountdownSet, MinuteBringsTick, CountdownPolls, DecisionPolls
    <3>4. CASE ~(sendDataMin - 1 <= 0)
      <4>1. state' = "PROCESS"
        BY <3>1, <3>2, <3>4 DEF CountMinute
      <4>2. Attended("RR_100ms")
        BY <3>1 DEF MinuteBringsTick, Attended
      <4> QED
        BY <1>p, <2>1, <2>2, <2>3, <2>4, <3>1, <4>1, <4>2
           DEF CountdownSet, MinuteBringsTick, CountdownPolls, DecisionPolls
    <3> QED BY <3>3, <3>4
  <2>5. CASE block # "RR_1m"
    <3>1. UNCHANGED <<state, sendDataMin>>
      BY <1>6, <2>5 DEF EnterBlock
    <3>2. MinuteUnseen' <=> MinuteUnseen
      BY <2>1, <2>5 DEF MinuteUnseen
    <3> QED
      BY <1>p, <2>1, <2>2, <2>3, <2>5, <3>1, <3>2
         DEF CountdownSet, MinuteBringsTick, CountdownPolls, DecisionPolls
  <2> QED BY <2>4, <2>5
<1>7. CASE BlockEnd
  <2>1. /\ at = "scan" /\ todo = {} /\ LeaveBlock
        /\ t_period' = [t_period EXCEPT ![block] = FALSE]
        /\ UNCHANGED <<state, todo, sendDataMin, since>>
    BY <1>7 DEF BlockEnd, Serve, Clock!Served, counterVars
  <2>2. Polled(block)
    BY <2>1 DEF ScanPolls, Polled
  <2>3. \A p \in Periods : Polled(p)' <=> Polled(p)
    BY <2>1 DEF Polled
  <2>4. \A p \in Periods : p # block => t_period'[p] = t_period[p]
    BY <1>0, <2>1
  <2>5. \A p \in Periods : Attended(p) => Attended(p)'
    BY <2>2, <2>3, <2>4 DEF Attended
  <2>6. MinuteUnseen' => MinuteUnseen
    BY <1>0, <1>p, <2>1, <2>4 DEF MinuteUnseen, LeaveBlock
  <2>7. state = "SEND_DATA" \/ (state = "PROCESS" /\ at # "survey")
    BY <1>0, <2>1 DEF StateMatches, TypeOK
  <2>8. ScanPolls' /\ CountdownSet'
    BY <2>1 DEF LeaveBlock, ScanPolls, CountdownSet
  <2>9. MinuteBringsTick'
    <3>1. CASE block = "RR_100ms"
      <4>1. state = "PROCESS"
        BY <2>1, <2>7, <3>1 DEF DecisionPolls
      <4> QED
        BY <1>p, <2>1, <2>2, <2>3, <3>1, <4>1 DEF MinuteBringsTick, LeaveBlock
    <3>2. CASE block # "RR_100ms"
      BY <1>p, <2>1, <2>3, <2>4, <2>6, <3>2 DEF MinuteBringsTick, LeaveBlock
    <3> QED BY <3>1, <3>2
  <2>10. CountdownPolls' /\ DecisionPolls'
    BY <1>0, <1>p, <2>1, <2>2, <2>3, <2>5, <2>6, <2>7
       DEF LeaveBlock, NextBlock, Periods, Clock!Periods, CountdownPolls,
           DecisionPolls
  <2> QED BY <2>8, <2>9, <2>10
<1>8. CASE SendOk \/ SendLost \/ SendFail
  <2>1. /\ at = "send" /\ state' = "PROCESS" /\ at' = "check"
        /\ UNCHANGED <<block, sendDataMin, t_period>>
    BY <1>8 DEF SendOk, SendLost, SendFail, BackToProcess, timerVars
  <2>2. state = "SEND_DATA" /\ sendDataMin = SEND_INTERVAL
    BY <1>0, <2>1 DEF StateMatches, CountdownSet
  <2>3. MinuteUnseen' => t_period'["RR_100ms"]
    BY <2>1, <2>2 DEF MinuteUnseen, MinuteBringsTick
  <2> QED
    BY <2>1, <2>2, <2>3 DEF ScanPolls, CountdownSet, MinuteBringsTick,
                            CountdownPolls, DecisionPolls
<1>9. CASE UNCHANGED vars
  <2>1. UNCHANGED <<state, at, block, todo, sendDataMin, since, t_period>>
    BY <1>9 DEF vars, timerVars, counterVars
  <2> QED
    BY <2>1 DEF ScanPolls, CountdownSet, MinuteBringsTick, CountdownPolls,
                DecisionPolls, MinuteUnseen, Polled, Attended
<1> QED
  BY <1>1, <1>2, <1>3, <1>4, <1>5, <1>6, <1>7, <1>8, <1>9 DEF Next, Step

\* No lane is passed over: with an interval above a minute, every client has
\* been polled when a report is sent, whatever ticks are dropped during scans.
THEOREM LoopPollsAll == Spec => []PolledForReport
<1>1. CASE SEND_INTERVAL > 1
  <2>1. IInv /\ LanesInv => PolledForReport
    <3> SUFFICES ASSUME IInv, LanesInv, at = "send", NEW c \in Clients
                 PROVE  since[c] # "none"
      BY DEF PolledForReport
    <3>1. state = "SEND_DATA"
      BY DEF IInv, StateMatches
    <3>2. Polled("RR_100ms") /\ Polled("RR_1m") /\ Polled("RR_1s")
      BY <3>1 DEF LanesInv, DecisionPolls
    <3>3. RefreshRate[c] \in {"RR_100ms", "RR_1m", "RR_1s"}
      BY DEF Periods, Clock!Periods
    <3> QED BY <3>2, <3>3 DEF Polled
  <2>2. IInv /\ LanesInv /\ [Next]_vars => LanesInv'
    BY <1>1, LanesStep
  <2> QED
    BY <2>1, <2>2, LanesInit, LoopInvariant, PTL DEF Spec
<1>2. CASE ~(SEND_INTERVAL > 1)
  <2>1. PolledForReport
    BY <1>2 DEF PolledForReport
  <2> QED BY <2>1, PTL
<1> QED
  BY <1>1, <1>2

-----------------------------------------------------------------------------
(* Polls that do not fail.                                                 *)

\* No poll has failed, and so no report was accepted without a reading.
AllRead ==
  /\ \A c \in Clients : since[c] # "failure"
  /\ repeated = {}

\* With PolledForReport, the clients that have been polled have been read.
LEMMA AllReadStep ==
  ASSUME PollsMayFail = FALSE, SEND_INTERVAL > 1
  PROVE  IInv /\ PolledForReport /\ AllRead /\ [Next]_vars => AllRead'
<1> SUFFICES ASSUME IInv, PolledForReport, AllRead, [Next]_vars
             PROVE  AllRead'
  OBVIOUS
<1>0. TypeOK
  BY DEF IInv
<1>1. ASSUME NEW c \in Clients, Survey(c) \/ PollOk(c)
      PROVE  AllRead'
  <2>1. PICK n \in 0 .. MaxCount : Count(c, n)
    BY <1>1 DEF Survey, PollOk
  <2> QED BY <1>0, <2>1, CountEffect DEF AllRead, TypeOK
<1>2. CASE SendOk \/ SendLost
  <2>1. at = "send" /\ Accepted
    BY <1>2 DEF SendOk, SendLost
  <2>2. \A c \in Clients : since[c] = "value"
    BY <1>0, <2>1 DEF AllRead, PolledForReport, TypeOK
  <2> QED BY <2>1, <2>2 DEF Accepted, AllRead
<1>3. CASE ~SendOk /\ ~SendLost /\ \A c \in Clients : ~Survey(c) /\ ~PollOk(c)
  <2>1. repeated' = repeated
    BY <1>3, OtherSteps
  <2>2. since' = since
    BY <1>3 DEF Next, Step, Tick, init_sys, PollFail, SurveyEnd, Skip,
                EnterBlock, BlockEnd, SendFail, vars, counterVars
  <2> QED BY <2>1, <2>2 DEF AllRead
<1> QED
  BY <1>1, <1>2, <1>3

\* The reports that repeat a value are due to failed polls alone: where no poll
\* fails, every count is in one accepted report (README.md:229), whatever ticks
\* are dropped and however often a report is refused.
THEOREM ReportedOnceIfAnswered ==
  ASSUME PollsMayFail = FALSE, SEND_INTERVAL > 1
  PROVE  Spec => []ReportedOnce
<1>1. Init => AllRead
  BY DEF Init, AllRead
<1>2. IInv /\ PolledForReport /\ AllRead /\ [Next]_vars => AllRead'
  BY AllReadStep
<1>3. IInv /\ AllRead => ReportedOnce
  BY DEF IInv, OnceIfRead, AllRead, ReportedOnce
<1> QED
  BY <1>1, <1>2, <1>3, LoopInvariant, LoopPollsAll, PTL DEF Spec

\* ... and if no accepted report goes astray, the broker has got what the
\* counters have counted, all of it and once, but for what they still hold.
THEOREM DeliveredExactly ==
  ASSUME PollsMayFail = FALSE, TransitMayLose = FALSE, SEND_INTERVAL > 1
  PROVE  Spec => [](\A c \in Clients : delivered[c] + tally[c] = counted[c])
<1> DEFINE NoneLost == \A c \in Clients : lost[c] = 0
<1>1. Init => NoneLost
  BY DEF Init
<1>2. NoneLost /\ [Next]_vars => NoneLost'
  <2> SUFFICES ASSUME NoneLost, [Next]_vars PROVE lost' = lost
    OBVIOUS
  <2>1. ~SendLost
    BY DEF SendLost
  <2> QED
    BY <2>1 DEF Next, Step, Tick, init_sys, Survey, PollOk, PollFail, Count,
                SurveyEnd, Skip, EnterBlock, BlockEnd, SendOk, SendFail, vars,
                counterVars
<1>3. IInv /\ ReportedOnce /\ NoneLost
        => \A c \in Clients : delivered[c] + tally[c] = counted[c]
  <2> SUFFICES ASSUME IInv, ReportedOnce, NoneLost, NEW c \in Clients
               PROVE  delivered[c] + tally[c] = counted[c]
    OBVIOUS
  <2>1. /\ delivered[c] \in Nat /\ tally[c] \in Nat /\ counted[c] \in Nat
        /\ lost[c] = 0
        /\ delivered[c] + lost[c] + tally[c] >= counted[c]
        /\ delivered[c] + lost[c] + tally[c] <= counted[c]
    BY DEF IInv, TypeOK, NoLoss, ReportedOnce
  <2> QED BY <2>1
<1>4. Spec => []ReportedOnce
  BY ReportedOnceIfAnswered
<1> QED
  BY <1>1, <1>2, <1>3, <1>4, LoopInvariant, PTL DEF Spec

-----------------------------------------------------------------------------
(* The loop comes into service as Service.tla promises.                    *)

LEMMA ServiceStep == IInv /\ [Next]_vars => [Start!Attempt]_(Start!vars)
<1> SUFFICES ASSUME IInv, [Next]_vars
             PROVE  [Start!Attempt]_(Start!vars)
  OBVIOUS
<1>0. /\ ArmedWhenReady /\ StateMatches
      /\ mqtt \in BOOLEAN /\ manager \in BOOLEAN /\ armed \in BOOLEAN
  BY DEF IInv, TypeOK, Clock!TypeOK
<1>1. CASE init_sys
  <2>1. at = "init" /\ mqtt' \in {mqtt, TRUE} /\ manager' \in {manager, TRUE}
    BY <1>0, <1>1 DEF init_sys
  <2>2. \/ armed' = TRUE /\ at' # "init" /\ manager' /\ mqtt'
        \/ armed' = FALSE /\ at' = "init"
    BY <1>1, <2>1 DEF init_sys, Ready, Clock!timer_start, Clock!timer_stop
  <2> QED BY <1>0, <2>1, <2>2 DEF Start!Attempt
<1>2. CASE ~init_sys
  <2>1. UNCHANGED <<mqtt, manager, armed>>
    BY <1>2 DEF Next, Step, Tick, Clock!timer_handler_100ms, Survey, PollOk,
         PollFail, SurveyEnd, Skip, EnterBlock, BlockEnd, Serve, Clock!Served,
         SendOk, SendLost, SendFail, BackToProcess, vars, timerVars, initVars
  <2>2. (at # "init")' = (at # "init")
    BY <1>0, <1>2, <2>1 DEF Next, Step, Tick, Survey, PollOk,
         PollFail, SurveyEnd, Skip, EnterBlock, BlockEnd, LeaveBlock,
         SendOk, SendLost, SendFail, BackToProcess, vars, timerVars,
         Clock!timer_handler_100ms, ArmedWhenReady
  <2> QED BY <2>1, <2>2 DEF Start!vars
<1> QED BY <1>1, <1>2

\* The start that the loop has in one step for each call of init_sys is the one
\* Startup.tla implements call by call (StartImplementsService).
THEOREM LoopImplementsService == Spec => ImplementsService
<1>1. Init => Start!Init
  BY DEF Init, Clock!Init, Start!Init
<1> QED
  BY <1>1, ServiceStep, LoopInvariant, PTL DEF Spec, ImplementsService, Start!Spec

-----------------------------------------------------------------------------
(* The timer under the main loop is the one of Timer.tla: nothing that the *)
(* loop does to it is outside what TimerProofs.tla proves about.           *)

Timing == INSTANCE TimerProofs

LEMMA SameTimer ==
  /\ Clock!Init <=> Timing!Init
  /\ [Clock!Next]_(Clock!vars) <=> [Timing!Next]_(Timing!vars)
BY DEF Clock!Init, Timing!Init, Clock!vars, Timing!vars, Clock!Next, Timing!Next,
       Clock!timer_handler_100ms, Timing!timer_handler_100ms,
       Clock!Raise, Timing!Raise, Clock!Ended, Timing!Ended,
       Clock!timer_start, Timing!timer_start, Clock!timer_stop, Timing!timer_stop,
       Clock!Served, Timing!Served, Clock!Periods, Timing!Periods

LEMMA SameMetronome == Timing!ImplementsMetronome => Clock!ImplementsMetronome
<1>1. Clock!Abstract!Init <=> Timing!Abstract!Init
  BY DEF Clock!Abstract!Init, Timing!Abstract!Init, Clock!Periods, Timing!Periods,
         Clock!Length, Timing!Length
<1>2. [Clock!Abstract!Next]_(Clock!Abstract!vars)
        <=> [Timing!Abstract!Next]_(Timing!Abstract!vars)
  BY DEF Clock!Abstract!Next, Timing!Abstract!Next, Clock!Abstract!vars,
         Timing!Abstract!vars, Clock!Abstract!Interrupt, Timing!Abstract!Interrupt,
         Clock!Abstract!Strikes, Timing!Abstract!Strikes, Clock!Abstract!Take,
         Timing!Abstract!Take, Clock!Abstract!Arm, Timing!Abstract!Arm,
         Clock!Periods, Timing!Periods, Clock!Length, Timing!Length
<1> QED
  BY <1>1, <1>2, PTL DEF Clock!ImplementsMetronome, Timing!ImplementsMetronome,
                         Clock!Abstract!Spec, Timing!Abstract!Spec

\* What the loop does to the timer: it starts it, is interrupted by it, and
\* takes down the flag of the block that it leaves.
LEMMA ClockStep == IInv /\ [Next]_vars => [Clock!Next]_(Clock!vars)
<1> SUFFICES ASSUME IInv, [Next]_vars PROVE [Clock!Next]_(Clock!vars)
  OBVIOUS
<1>1. CASE Tick
  BY <1>1 DEF Tick, Clock!Next
<1>2. CASE init_sys
  <2>1. Clock!timer_start(TRUE) \/ Clock!timer_stop
    BY <1>2 DEF init_sys
  <2> QED BY <2>1 DEF Clock!Next
<1>3. CASE BlockEnd
  <2>1. Clock!Served(block) /\ block \in Clock!Periods
    BY <1>3 DEF BlockEnd, Serve, IInv, TypeOK, Periods
  <2> QED BY <2>1 DEF Clock!Next
<1>4. CASE ~Tick /\ ~init_sys /\ ~BlockEnd
  <2>1. UNCHANGED <<timer_counter, t_period, armed>>
    BY <1>4 DEF Next, Step, Survey, PollOk, PollFail, SurveyEnd, Skip, EnterBlock,
                SendOk, SendLost, SendFail, BackToProcess, vars, timerVars
  <2> QED BY <2>1 DEF Clock!vars
<1> QED
  BY <1>1, <1>2, <1>3, <1>4

\* However long its scans are, and whichever flags it takes down when, the loop
\* sees the three exact clocks of Metronome.tla.
THEOREM LoopKeepsClocks == Spec => KeepsClocks
<1>1. Init => Clock!Init
  BY DEF Init
<1>2. Spec => Timing!Spec
  BY <1>1, ClockStep, SameTimer, LoopInvariant, PTL DEF Spec, Timing!Spec
<1>3. Timing!TimerAssumption
  BY LoopAssumption, MinuteAssumption DEF Timing!TimerAssumption
<1>4. Timing!Spec => Timing!ImplementsMetronome
  BY <1>3, Timing!TimerKeepsClocks
<1> QED
  BY <1>2, <1>4, SameMetronome DEF KeepsClocks

-----------------------------------------------------------------------------
(* The loop implements Reporting.                                          *)

\* An accepted report settles what every client is owed, in the sum it goes to.
LEMMA SendSettles ==
  ASSUME TypeOK, ReportCoversTally, ReadingIsTally, at = "send",
         NEW total \in [Clients -> 0 .. MaxDelivered]
  PROVE  Books!Settles(total, Sent(total))
<1> SUFFICES ASSUME NEW c \in Clients
             PROVE  /\ Sent(total)[c] >= Books!Bounded(total[c] + tally[c])
                    /\ since[c] = "value" =>
                         Sent(total)[c] = Books!Bounded(total[c] + tally[c])
  BY DEF Books!Settles
<1>1. /\ total[c] \in Nat /\ tally[c] \in Nat /\ mqtt_data[c] \in Int
      /\ mqtt_data[c] >= tally[c]
      /\ since[c] = "value" => mqtt_data[c] = tally[c]
  BY DEF TypeOK, ReportCoversTally, ReadingIsTally
<1>2. Sent(total)[c] = Least(total[c] + mqtt_data[c], MaxDelivered)
  BY DEF Sent
<1> QED
  BY <1>1, <1>2 DEF Least, Books!Bounded

LEMMA BooksStep ==
  IInv /\ [Next]_vars => [Books!Next]_(Books!vars)
<1> SUFFICES ASSUME IInv, [Next]_vars
             PROVE  [Books!Next]_(Books!vars)
  OBVIOUS
<1>0. TypeOK /\ ReportCoversTally /\ ReadingIsTally
  BY DEF IInv
<1>1. ASSUME NEW c \in Clients, Survey(c) \/ PollOk(c)
      PROVE  Books!Read(c)
  <2>1. PICK n \in 0 .. MaxCount : Count(c, n)
    BY <1>1 DEF Survey, PollOk
  <2>2. {d \in Clients : since'[d] = "value"}
          = {d \in Clients : since[d] = "value"} \union {c}
    BY <1>0, <2>1 DEF Count, TypeOK
  <2> QED
    BY <2>1, <2>2 DEF Books!Read, Count
<1>2. CASE SendOk \/ SendLost
  <2>1. at = "send" /\ Accepted
    BY <1>2 DEF SendOk, SendLost
  <2>2. /\ tally' = [c \in Clients |-> 0]
        /\ {c \in Clients : since'[c] = "value"} = {}
    BY <2>1 DEF Accepted
  <2>3. \/ Books!Settles(delivered, delivered') /\ UNCHANGED lost
        \/ TransitMayLose /\ Books!Settles(lost, lost') /\ UNCHANGED delivered
    BY <1>0, <1>2, <2>1, SendSettles DEF SendOk, SendLost, TypeOK
  <2> QED
    BY <2>2, <2>3 DEF Books!Next, Books!Report
<1>3. CASE ~SendOk /\ ~SendLost /\ \A c \in Clients : ~Survey(c) /\ ~PollOk(c)
  <2>1. UNCHANGED <<tally, delivered, lost>>
    BY <1>3, OtherSteps
  <2>2. {d \in Clients : since'[d] = "value"}
          = {d \in Clients : since[d] = "value"}
    BY <1>0, <1>3, SinceEffect
  <2> QED
    BY <2>1, <2>2 DEF Books!vars
<1> QED
  BY <1>1, <1>2, <1>3 DEF Books!Next

\* The main loop implements Reporting: what a client is owed grows by readings
\* alone, and only an accepted report settles it, for all clients at once and
\* exactly for those that have been read.
THEOREM LoopRefinesReporting == Spec => ImplementsReporting
<1>1. Init => Books!Init
  BY DEF Init, Books!Init
<1>2. IInv /\ [Next]_vars => [Books!Next]_(Books!vars)
  BY BooksStep
<1> QED
  BY <1>1, <1>2, LoopInvariant, PTL DEF Spec, ImplementsReporting, Books!Spec
=============================================================================
