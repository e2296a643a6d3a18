# A verification of ts_owrt_module

`ts_owrt_module` is a C program for OpenWrt routers. It polls clients over Modbus (TCP
and serial) and OPC UA, feeds what it reads to counters, and publishes a JSON report to
an MQTT broker every few minutes. It is one process with one thread and one signal
handler (SIGALRM, every 100 ms).

This directory holds TLA+ modules translated from `src/src/*.c`, the TLC configurations
that check them on small instances, and TLAPS proofs about them for every value of their
constants. `PROJECT.json` lists the parts, the runs, a broken variant of the code for
each property, and, for each definition, the lines it stands for.

## The parts of the system

| Part | State | Operations | Correct when |
|---|---|---|---|
| Main loop, `main.c` | `state`, `sendDataMin`, `mqtt_data` | first survey; blocks of 100 ms, 1 min, 1 s; the report | every lane is polled for ever; reports come at the interval; nothing counted is lost or reported twice |
| Start of service, `init_sys` of `main.c` | what is ready: broker, clients, timer | `init_sys`, called until all is ready | an acceptable configuration gets into service, with every client registered once |
| Interval timer, `timer.c` | one counter, `t_period`, the interval timer | handler, `timer_start`, `timer_stop` | the three periods are exact and none is forgotten |
| Polling lanes, `client_queue.c` | an array and a cursor per refresh rate | `queueCleen`, `queueAdd`, `queueGetFirst`, `queueGetNext` | a scan hands out each client of its lane once, and ends |
| Counters, `counters.c`, and `client_computation`, `client_to_mqtt` of `main.c` | per client: last reading, counter | `counterAdd`, `counterUpdate`, `counterGet`, `counterReset` | the value reported is what was to be counted since the last report, in spite of widths and marks |
| Client connections, `client_manager.c`, `modbus_connect.c`, `opc_connect.c` | `connected` flags, Modbus contexts, the one OPC `_handler`, descriptors | `manager_init_connections`, `manager_receive_data` with `manager_reconnect` | flags, contexts and handler stay coherent; a client that answers is read |
| Configuration, `manager_init_config` | `_clientSettings`, `_mqttSettings`, the interval | parsing, refusal | what is accepted is enough for lanes, counters and polls |
| Value conversion, `client_manager.c`, `opc_connect.c` | the one `clientData` of `main` | `modbusToClientData`, the switch of `opcReceiveData` | a value is that of the client just read |
| Report, `ts_data.c` | `ts_data_list`, the 3 kB buffer | `init_data`, `get_json`, `send_data` | the text stays in its buffer; a success is a complete report |
| MQTT connection, `mqtt_connect.c` | the library instance | `mqtt_init`, `mqtt_send` | reports go through the instance that is served; an accepted report may be lost |
| Logger, `logger.c` | levels, file, archive | print functions, archiving | no line is lost; logging never writes through a closed file |

How they interact: `main` calls every other part; nothing calls back into it. The signal
handler shares `t_period` with the loop. The counters are updated after a poll and reset
after an accepted report; `mqtt_data` carries their values from one to the other. All
OPC clients share the one handler, so a poll of one client changes what the poll of
another finds. Each call that waits on a device or a broker lets time pass: the timer
goes on interrupting, and devices come and go. The network thread of libmosquitto shares
the descriptors of the process, and nothing else, with this code.

What is hard to test here, each with its line and its properties under "hazards" in
`PROJECT.json`:

- the flag of a period is taken down after the scan it started (main.c:537, 607, 672),
  with whatever ticks came in meanwhile: is a lane or a report starved?
- polls and reports fail in any mix: is a count lost, or reported twice?
- a device goes away between two calls of the same poll, and a client with an unreadable
  node makes every poll reconnect: does the next client still get its data?
- a signal interrupts connect() every 100 ms: what does a failed attempt leave behind?
- descriptors that reconnections, and archiving that fails, leave open;
- the value -1 that stands for "no reading yet", and the widths of `int` and `long`;
- one 100 ms counter that serves three periods and is taken back every minute;
- one `clientData` for the polls of all clients, filled in one field at a time;
- an attempt at the broker that fails at any of its calls, and is made again;
- a process killed between the steps of an archiving;
- a report that the library accepts and the broker never gets.

## The modules

| Module | Models | Used by |
|---|---|---|
| `PollList` | what a lane promises: a set, scanned once each | refined by `ClientQueue`; the form in which `MainLoop` scans |
| `ClientQueue` | `client_queue.c` and its caller's loop | `MCClientQueue`, `ClientQueueProofs` |
| `Metronome` | what the timer promises: one independent clock per period | refined by `Timer` |
| `Timer` | `timer.c` | `MCTimer`, `TimerProofs`, and as an instance in `MainLoop` |
| `Reporting` | what the gateway promises about counts | refined by `MainLoop` |
| `Service` | what the start of service promises: the timer after the rest, and nothing taken down | refined by `Startup` and by `MainLoop` |
| `MainLoop` | the state machine of `main.c`, interrupted by the timer | `MCMainLoop`, `MainLoopProofs` |
| `Startup` | `init_sys` with `mqtt_init` and `manager_init_config` | `MCStartup`, `StartupProofs` |
| `Counters` | `counters.c` with the computation, for one client | `MCCounters`, `CountersProofs` |
| `ClientManager` | `client_manager.c` over both protocols | `MCClientManager`, `ClientManagerProofs` |
| `ClientData` | the conversions, over the one `clientData` | extended by `Report` |
| `Report` | `get_json` and `send_data`, fed by `ClientData` | `MCReport`, `ReportProofs` |
| `Logger` | `logger.c` | `MCLogger`, `LoggerProofs` |

The systems overlap where one abstracts what another details: `MainLoop` takes a call of
`init_sys` for one step (`Startup` details it, and both implement `Service`), a poll for
a success or a failure (`ClientManager`), what it counts for a number (`Counters`), a
scan for a set (`ClientQueue`, by refinement), a report for one step and for whole
(`Report`). `Timer` is a part of it.

The `MC*` modules only give constants their values. Operators whose comment begins with
"Mutant:" are wrong variants of the definition that follows them; nothing uses them in
the specifications.

### PollList and ClientQueue

`rate` and `pos` are the fields of `ClientQueue`. The position of the caller is part of
the model (`scan`, `tempClientIdx`), because the contract of `queueGetNext` depends on
it. A client is added at most once, as `init_sys` does it. The queue is shown to
implement `PollList` with `members` the set of clients stored in a lane and `todo` those
stored after the cursor.

### Metronome and Timer

One action for the handler, and one for each call of the main loop. The constants are
those of `timer.h`. `timer_start` may fail. The refinement maps the age of each clock to
`timer_counter % Length`.

### MainLoop

Each step between two points where an interrupt matters is an action: one `init_sys`,
one client of the survey, the check of a flag, one client of a scan, the end of a block,
one report. `Tick` is the handler of `Timer`, and may come between any two of them. A
client is seen through its counter: what a reading adds is an input (`Counters` says how
it is computed), and so is the success of a poll (`ClientManager` says when). `tally` is
the counter, `mqtt_data` the value of the next report. The history variables `counted`,
`delivered` and `minutes` say what should have happened, and so do `lost`, `since`,
`repeated` and `missed` (the minutes that ended while the flag of the minute before was
still up); no guard reads them, except for the bound `MaxCount`. `SendOk`, `SendLost`
and `SendFail` are the three ends of `mqtt_send`: delivered, accepted and gone astray
(QoS 0), refused.

`Reporting` keeps only the books: what a client is owed, and who has been read since the
last report. The refinement maps what is owed to `tally`. A step of the loop that is
neither a reading nor an accepted report must leave the books alone.

`Service` keeps only what is ready: its one step is an attempt that may set up any part,
but the timer only when the broker and the clients are ready, and service only with the
timer. The loop also sees the clocks of `Metronome` (`KeepsClocks`), although it takes
flags down whenever its scans end and starts the timer itself. These two refinements of
the loop are proved for every value of the constants and have no run of their own.

The tally has no width here. `Counters` models the widths.

### Startup

Every call in `init_sys` that can fail is an action, and every client of the
configuration is read and registered by a step of its own. `Refused` is the early return
of `init_sys` (main.c:70-74, 87-91). `links` records what each instance of the library
has reached, those left behind by failed attempts included. A configuration is a state
of its sections and a sequence of clients, of which it says whether the settings looked
for are there; it does not change. After `manager_init_connections`, whose result is
only logged (main.c:76), all clients enter the lanes.

### Counters

One client with each kind of counter and each data type, an `int`, a dword, or a type
the counters refuse. Readings, counters and reported values wrap at `IntBits` and
`LongBits` bits. `SurveyFails` is the reading of zeroes that `main` feeds to the counter
of a client that does not answer the survey (main.c:446-456). `counterGet` and
`Reported` give the value that goes into the report. `exact` says what the counter ought
to hold, computed from the client's own readings alone: `heard` and `last` say whether
it has answered, and with what. `invented` records that the zeroes of a failed survey
are in the counter, or will be: "cumulated_not_100" counts them, and "cumulated" takes
them for its first reading, so that the first value the client sends is counted whole.
`mistaken` records that a reading was taken for the first one and was not, because the
counter had come to the mark -1. With `exact`, `wrapped` and `readings` these start anew
at every accepted report; `invented` does once the client has answered.

### ClientManager

Every call on a socket is an action: `checkServer`, `modbus_connect`, the connection of
the OPC handler, a read. Devices go down, come up and drop connections between any two
of them. `at`, `phase` and `client` say which call is under way: "init" is the
connection of all clients at the start; "first" and "again" are `manager_receive_data`
before and after its first failed read. libmodbus and open62541 are modelled from their
use: an attempt takes a descriptor and can succeed when the device is up, or, for a
serial line, whether a device listens or not; `modbus_connect` on a context with a
socket forgets that socket; deleting a `UA_Client` closes its own. Any attempt of
`checkServer` and `modbus_connect` may also fail: the handler of SIGALRM is installed
without SA_RESTART (timer.c:59-64), so that every 100 ms a signal may end a connect()
that waits. open62541 connects without blocking and goes on waiting when interrupted.
`steady` and `spare` record whether the device of the running call has been up all along
and whether there were descriptors enough for it when it began: two for a TCP client,
one for a serial line, one for an OPC client unless the handler already has it.
`interrupted` records that an attempt of the call failed that could have succeeded.
`Held` are the descriptors that the contexts and the handler can still give back,
`Forgotten` the others in use.

### ClientData and Report

A value is known by the client it was read from, a number, and how often the computation
has been applied. What is not a reading is `Zero`, `Part` (bytes of something else), or
`Unknown` (what the stack held). `clientData` has one field per type, as in the code; a
poll writes the fields its conversion writes, and `client_to_mqtt` takes one of them.
`given` says what the poll should have reported. `NarrowTime` is the layout of a 32-bit
build, where the eight bytes of a double copied to `data_dword` reach `data_time`. The
module follows where a value comes from, and not its bits: a conversion that changes
width or sign leaves the value the one that was read.

`Report` numbers the fields as `mqtt_data` does and knows a line of the text by its
length, which may be any. A line that passes the end of the buffer leads to "overrun",
where the model stays, for what it overwrites is undefined. What is sent is what
`get_json` has written, for `send_data` does not look at its result.

### Logger

A log is a set of numbered lines, so that one can ask where each of them is. Every call
of `logger_archive` that can fail is an action. `Take` and `Release` are the rest of the
process, which may run between any two of them on the network thread. Opening the log
again for writing may fail for lack of a descriptor, or for another reason; `denied`
records the latter, `taken` that the rest of the process took descriptors while the log
was closed. `Restart` kills the process at any point and starts it again with the files
as they are.

## The runs

| Run | Instance | What it shows |
|---|---|---|
| `queue` | 2 lanes of 3 cells, 4 clients | no gaps, every scan ends, and the arrays implement `PollList`, which holds no client twice |
| `timer` | 10 interrupts a second, 600 a minute | the single counter keeps three exact clocks; an armed timer raises every flag again and again |
| `loop` | 1 client in the lane of 1 s, interval 2, fair | whatever fails, is lost or interrupts: no count lost, none reported twice for a client that is read, every client polled between two reports, no unfilled value sent, no report early, or later than by the minutes missed; in service the gateway reports and polls every lane for ever, and sends what it has counted; the loop implements `Reporting` |
| `startup` | all configurations of up to 3 clients of 6 kinds, where 2 fit; 3 attempts at the broker | one served instance, everything registered once, connections made once, pauses kept; an acceptable configuration gets into service; the calls implement `Service` |
| `counters` | ints of 3 bits, longs of 4, 9 updates between two reports | the exact count of the client's readings is reported, unless the zeroes of a failed survey are in it or a reading was mistaken for the first; and that only when a long is full |
| `manager` | 6 clients of all protocols, sound and faulty, 3 devices, 6 descriptors | flags and links coherent; a poll whose device answers throughout, and that no alarm interrupts, succeeds while there are descriptors; the flag tells the outcome; no descriptor closed under a link, none forgotten but by Modbus clients |
| `report` | 4 clients of both protocols, a buffer of 14 that keeps 4 free for a line, lines of 2 to 6 | the text passes the end of the buffer only by what its last line is too long; a success is complete, and any report has of a client the value of its own last poll |
| `logger` | 4 descriptors, 6 lines, archives of two names | no line lost but with an archive that was overwritten or cut short; lines go to an open file, unless the descriptor was taken or the file denied |
| `loop_stale`, `counters_documented`, `manager_leak`, `values_double` | smallest that show it | the divergences below |

Why the bounds are enough.

- `queue`: four clients on three cells reach the empty, the partly filled and the full
  lane and the refusal. Two lanes let one be scanned while another holds clients.
- `timer`: the whole state space, with the program's own constants.
- `loop`: a minute of four interrupts and a second of two give both the tick that ends a
  minute and a second, and the one that ends a second only. One client is enough for the
  liveness of the loop, whose blocks run whether their lanes hold clients or not; two
  counts are one before and one after a report. The interval 2 makes decided and
  undecided minutes. That clients do not interfere, for any number of them and any
  lanes, is what the theorems add: all the safety properties of this run are proved for
  every value of the constants.
- `startup`: two clients that fit and a third that does not; each of the six kinds of
  client is accepted, or refused for a reason of its own. Three attempts are a first,
  one after a failure, and one that finds the broker while an instance is left behind.
- `counters`: three bits hold every order of two readings, rises beyond half the range,
  and wraps in both directions. A `long` of one bit more is filled by a few readings:
  nine of them between two reports are enough to reach the mark with an `int` and with a
  dword, so that counts are checked before, at and after a mistake. The computation is a
  product in the width of the type; the factor 3 makes it wrap with the values of this
  run.
- `report`: the clients share fields in pairs, with and without a computation, over both
  protocols. The report fits the buffer when its lines are short and is cut when they
  are long; a line may be too long by two, before the last line and as the last. Two
  values tell a stale one from a new one.
- `logger`: the log is looked at after every second line and is full with two; six lines
  are three archivings, of which two must share a name. With four descriptors, archiving
  has three and one is left to be taken, or fails for lack of one.
- `manager`: it has a TCP, an RTU and an OPC client that are sound, an OPC client with
  an unreadable node, a TCP client without a context, an RTU client whose registers are
  refused. Two TCP clients share a device, and two OPC clients the handler. Six
  descriptors let leaks add up over several polls and then run out.

Constants that only bound a run: `MaxCount`, `MaxDelivered`, `MaxMinutes` (`MainLoop`),
`MaxReadings` (`Counters`, between two reports), `MaxTries` (`Startup`), `MaxScale`
(`ClientData`), `MaxLines` (`Logger`). `delivered`, `lost`, `minutes` and `missed` stop
at their bounds rather than block a step, so they never take a behaviour away.
`MaxTries` means that the broker lets itself be reached in the end: the last instance is
connected. `MaxCount` limits what a client counts in all; a reading that adds nothing is
always possible.

The checks of deadlock are off only in the runs of `Counters`, where the bound on the
readings ends a behaviour.

### Fairness

`loop` assumes weak fairness of the loop (the process runs, and every call in it
returns: each has a timeout) and of the tick (the kernel goes on with an interval timer
that has been set), and strong fairness of one event that depends on the world, a
report that the library accepts: without it nothing is ever sent. A report that is
accepted may go astray all the same: `EventuallySent` is about accepted reports. Polls
have no fairness: `LanesServed` and `ReportsRecur` hold although every poll fails. They
speak of a gateway in service; that it gets there is the business of `startup`, and the
loop may retry `init_sys` for ever. `startup` assumes weak fairness of the process, and
strong fairness of finding memory for an instance and of `setitimer`; that the broker is
reached in the end is the bound `MaxTries`. `queue` assumes that the polling loop goes
on (nothing leaves it before -1), `timer` that an armed timer fires.

## The proofs

`tlapm` checks these for every value of the constants, under the assumptions named in
the modules (`QueueAssumption`, `TimerAssumption`, `LoopAssumption`,
`StartupAssumption`, `CounterAssumption`, `ManagerAssumption`, `DataAssumption`,
`ReportAssumption`, `LoggerAssumption`, which state what the configuration and the
constants of the code allow; TLC evaluates them on every run). `lost` and the rest of
the history are part of what is proved; the bounds of the runs are constants like the
others.

**ClientQueueProofs.** The inductive invariant is types, `NoGaps`, `NoDuplicates` and
`CursorOnClient`, which is needed because what `queueGetNext` still has to hand out is
defined by the cursor. `QueueTypes`, `LanesWithoutGaps` and `ClientsStoredOnce` are
parts of it. `QueueRefinesPollList` maps every step of the queue to a step of `PollList`
or to a stutter: the case that needs `NoGaps` is the free cell taken for the end of the
lane, and the one that needs `NoDuplicates` is that a client handed out does not come
again.

**TimerProofs.** `TimerTypes`, and `TimerKeepsClocks`: the age of each clock of
`Metronome` is `timer_counter % Length`. The step that needs an argument is the
interrupt: a remainder goes on by one and returns to zero at the divisor, and a minute
is a multiple of a second, so that taking the counter back to zero leaves the remainder
of the second where it is.

**MainLoopProofs.** `IInv` adds four parts to the types and `NoLoss`.
`ReportCoversTally` says that the value in `mqtt_data` is never less than the counter of
a client that has been surveyed: `NoLoss` needs it where a report is accepted and the
counters are reset. `TallyWithinCount` bounds the counter. `StateMatches` and
`ArmedWhenReady` relate the position in the loop to the state and to the timer.
`MinutesCover` relates the minutes passed to the countdown and the flag that waits;
`Pacing` is its value where a report is decided. `MinutesCovered` is the other half: no
minute has passed that the countdown has not seen, or will see, but the missed ones,
which gives `LateByMissed`; it needs `ScanFlagged`, for a minute that ends during the
scan of the lane of a minute is one of them. `ReadingIsTally` says that the value of a
client read since the last accepted report is its counter; `OnceIfRead` needs it. From
it: `LoopTypes`, `NothingLost`, `NoUnsetValue`, `ReportsPaced`, `LatenessBounded`,
`ReadOnesOnce`, and `LoopRefinesReporting`, whose case of an accepted report rests on
`ReportCoversTally` (at least what is owed) and on `ReadingIsTally` (no more, for those
read).

`LoopPollsAll` (`PolledForReport`) has an invariant of its own, `LanesInv`, for an
interval above a minute. It follows the lanes from one accepted report to the next. A
minute the countdown has not seen came with the flag of 100 ms, and with that of a
second; a flag that has been taken down stands for a lane that has been scanned; the
lane of a minute has been scanned in the pass that saw the first minute, and the other
two are scanned, or flagged, when the pass comes that sees the last one. This is where
dropping the ticks of a whole scan could have passed a lane over, and does not.

`ReportedOnceIfAnswered` joins the two: where no poll fails, and the interval is above a
minute, every client has been read when a report goes out, so none is in `repeated` and
the divergence of `loop_stale` cannot happen. `DeliveredExactly` adds that no accepted
report goes astray: then the broker has got what has been counted, but for what the
counters still hold.

`LoopImplementsService` and `LoopKeepsClocks` are two more refinements. The first lets a
step of the loop stand for the calls of `init_sys` that `Startup` takes apart, since
`StartImplementsService` maps those to the same abstract module. The second maps every
step of the loop to one of `Timer`, and then uses `TimerKeepsClocks`.

**StartupProofs.** The invariant says where the calls of `init_sys` are (what is ready
decides what is passed over), that only the instance in `mosq` can be served and only
when `mqtt` is set, that the settings read so far are those of the first clients, all
acceptable, and that the lanes and counters hold exactly the clients before `idx`. A
lane never holds more than `idx` clients, so `queueAdd` refuses none of a configuration
that was accepted, and `ConnectionsOnce` follows. `StartImplementsService` needs of it
that `timer` is only set while the broker and the clients are ready, and is what lets
`init_sys` be left.

**CountersProofs.** `CounterTypes`, `CountersExact` and `MistakenOnlyFull`, with no
hypothesis on the number of readings. Numbers are compared by `Same`: they differ by a
multiple of the width of an int. The invariant `CInv` has three parts besides the types
and `FullWhenMistaken`. `LastKept` and `StartKept` say that differences are taken from
the last reading, and what a counter is before its first. `SumKept` says that a counter
that nothing has gone wrong with since the last report, and that holds no zeroes of a
failed survey, is the same as the exact count: this is `CountersExact`. `LevelKept` says
that while a long is sure to hold what the readings since the report can add, a
cumulated counter lies between 0 and that, and with an `int` is the exact count itself:
it cannot then show the mark -1, which is `MistakenOnlyFull`. An accepted report brings
both back to zero; for a 64-bit long the mark is 2^31 readings of one interval away. The
provers do not compute powers: the facts used of powers of two are `PowerAssumption` in
`Counters`.

**ReportProofs.** For the buffer: before each line there is room for one of
`DATA_MAX_LINE_LEN`, because `get_json` stops otherwise, so that a line takes the text
past the end by no more than it is longer than that: `ReportInBuffer`, with no
assumption on the lines. For the values: once a client is surveyed its entry of
`mqtt_data` is what its last poll should report, whatever the polls of the others do to
the shared fields; a poll sets the field it reports, or all of them are zero.
`ReportFits` takes any bound on the lines of a configuration, which may be more than
`DATA_MAX_LINE_LEN`: with room for as many of them as there are fields, no report is cut
or passes the end, and taking it for whole, as `MainLoop` does, is right. For lines
within 100 these are 30 fields, that is 20 clients, in the 3072 characters of the code;
for the longest, fewer.

**LoggerProofs.** The descriptors the logger holds are counted at every step. While it
copies, the log has all the lines the archive is to have; the log is erased only when
the archive has them or they are `spoiled`. When it is to be reopened, three descriptors
have just been given back: one is free unless another thread has taken the last
(`taken`), and with one free the log is opened unless the file is denied (`denied`).
That archiving never brings about the failure itself, however many files it has left
open before, is what `LoggerWrites` says.

**ClientManagerProofs.** `IInv` adds four parts to the types and `ConnectedHasLink`.
`ControlOK` says where the calls are: the initialisation passes over the clients in
order, so that an OPC client is not marked before the handler exists, and the handler is
NULL until the first of them. `HeldCounted` says that the links have each a descriptor
among those in use, so that deleting the handler gives back its own. `ContextsMade`:
after the initialisation every Modbus client has a context, unless libmodbus made none.
`CallSucceeds` is what a call whose device stays up, and that no alarm has interrupted,
still has before it: two descriptors before `checkServer` (one for a serial line), one
before `modbus_connect`, an answer or a second chance before a read. From it:
`ManagerTypes`, `LinksCoherent`, `PollsAnswered`, `DescriptorsHeld`, and the action
property `FlagFollowsOutcome`. `ModbusForgetsOnly` goes through the steps once more:
only `checkServer` and `modbus_connect` change the number of descriptors in use that no
link has. With OPC clients alone this number stays zero, the handler is the only holder,
a reconnection always finds the descriptor it needs, and no attempt is interrupted:
`ReconnectsOPC`, the promise that `manager_leak` shows broken for Modbus.

**Model-checked only.** Liveness rests on fairness and is out of the proof system's
reach: `ScanEnds`, `EveryPeriodComes`, `ReportsRecur`, `LanesServed`, `EventuallySent`,
`StartsIfAccepted`. So are ENABLED, and induction over data, whose
theorems take an operator as a parameter; no module has a RECURSIVE operator. All the
other properties of the passing runs are stated by a theorem. That a call returns is not
proved either: it is the fairness of the runs. The other way round, `NoDuplicates` of
the queue, and `ImplementsService` and `KeepsClocks` of the loop, are proved and no run
checks them by name.

## Divergences

Four runs are expected to be violated, each by the behaviour of the code.

- **A count can be reported twice** (`loop_stale`). README.md:229: "Erase when data
  sending". The counters are reset after an accepted report (main.c:695-706), but
  `mqtt_data` is not, and a failed poll leaves it alone (main.c:662-666). A client that
  does not answer until the next report has the value already sent in it again.
- **A cumulated counter counts amounts, not changes** (`counters_documented`).
  README.md:247: "Incremented by 1 when data changes", with 1 for a change from 100 to
  200. The code adds the difference (counters.c:109-123, where `cumulatedCounter++` is
  commented out), and of an `int` only when it rises. `CountsExactly` is about what the
  code is built to add, and `CumulatedAsDocumented` about what the README says.
- **Descriptors are used up** (`manager_leak`). `checkServer` never closes its socket
  (modbus_connect.c:26-51). "Receive data from client, reconnect if error"
  (client_manager.c:737) then fails for a device that is up.
- **A double over Modbus is not reported** (`values_double`). README.md:220 lists
  "double" among the data types of a client (the comments of the Modbus examples leave
  it out; the code accepts it and reads four registers for it). `modbusToClientData`
  copies the registers of a double over `data_dword` (client_manager.c:103), and the
  report takes `data_double`: what an OPC client left there, or what the stack held.

Others were met while reading, and the model follows the code in each.

Counts and polls:

- README.md:247: "Erase when data sending". The cumulated counter can be forgotten
  without a report: -1 marks "no reading yet" (counters.c:96), and a sum of dword
  differences can be -1 where `long` has 32 bits. The next reading then starts the
  counter again. `FullWhenMistaken` and the theorem `MistakenOnlyFull` say that this
  takes more readings between two reports than a `long` is sure to hold, or an int that
  rises by more than an int holds (such a difference wraps, and can be -1 too): with a
  `long` as wide as the dword, one reading is already more.
- README.md:249-251: the first reading only starts the counter. When the survey of a
  client fails, the first reading is the zeroes of main.c:446-456, and the first value
  the client sends is counted whole. `CountsExactly` says that the counts are exact
  again after the next accepted report (`invented`).
- README.md:239: "cumulated_not_100" counts readings; it counts the zeroes of a failed
  survey too.
- README.md:258-261: a product of the computation wraps in the width of an int
  (main.c:283-313).
- main.c:542: "Process send data timer each minute". The flag is taken down after the
  scan (main.c:607), and one flag stands for any number of minutes: minutes that pass
  during one scan are counted once, and the report is late by them. `Pacing` says that
  it is never early, `LateByMissed` that it is late by no others, `ReportsRecur` that it
  comes. Nothing bounds how many they are, for nothing bounds a scan.
- With an interval of 1, or of 0 or less, which client_manager.c:177 accepts, every
  minute seen decides a report. A minute that passes while a report is sent decides the
  next one before the lane of a second may have been polled again. This is why
  `PolledForReport` asks for an interval above a minute.

Reports:

- ts_data.h:13: `DATA_MAX_LINE_LEN`, "Max len of one line", is not enforced: a name has
  up to 80 characters, a string 500, a double in `%f` 317. A longer line can pass the
  end of `send_buf`; `InBuffer` says by how much, and `ReportFits` when none does.
- `get_json` stops with `DATA_ERR_BUF` when its buffer is nearly full, and `send_data`
  does not look at the result (main.c:44): what there is of the text is sent, without
  its closing brace. The buffer has 3072 characters; 50 clients are accepted. If the
  broker takes it, the counters of the clients that were cut off are reset as well.
  `SuccessIsTrue` is therefore about a success of `get_json`, not of `mqtt_send`; what
  a cut report still has is true. `ReportFits` says when none is cut.
- The text is also logged through a buffer of 256 characters (main.c:45, logger.c:415).

Configuration:

- The Modbus examples of README.md lack `mb_offset` and `computation`, which
  `manager_init_config` requires: they are refused.
- README.md does not list `topic` in the section `mqtt`; without it every publish is
  refused.
- An `mb_type` that is not known is accepted (client_manager.c:433).
- main.c:111, "else wait and repeat": after a refused configuration `init_sys` returns
  before its pause, so that only the second of main.c:472 lies between two attempts.

Connections and logs:

- modbus_connect.c:176 says "Close and open all connections": nothing is closed.
- modbus_connect.c:55-58 says false on error; `modbusConnect` returns true when
  `modbus_connect` has failed.
- What is written to the archive is not checked (logger.c:294), and its name holds the
  time to the second (logger.c:244): an archive may be cut short, or replace another.
  `LinesKept` excepts both.
- The log is closed to be reopened (logger.c:302); if that fails, for want of a
  descriptor or because the file cannot be written, `logger_func` still writes to it and
  the next line goes through a NULL pointer. `WriterOpen` says that archiving itself
  never causes it.
- client_manager.c:737, "reconnect if error": the reconnection of a TCP client can be
  ended by the alarm while connect() waits (modbus_connect.c:43, timer.c:59-64), which
  is taken for a server that is not there. The poll then fails, `FlagTellsOutcome` and
  `HeldCounted` hold all the same, and the next poll tries again (`PollAnswers`).

## Assumptions and what is left out

- Nothing is said of a report from the line on that passes the end of its buffer, nor of
  the logger once a line has gone through a NULL pointer.
- Whether a connection attempt is interrupted by the alarm is left open at each attempt:
  how long connect() waits is not modelled.
- Conversions between widths and signs are identities in `ClientData`, which is about
  where a value comes from; `Counters` computes in widths.
- The settings that a refused configuration has left are those of the same file, which
  is refused again: `Startup` forgets them.
- The loads of `t_period` are not cached across the calls of the loop.
- libmodbus, open62541, libmosquitto, the C library and the kernel are not modelled
  beyond their use.
- `manager_close_all_connections` and `modbusCloseConnection` are not modelled: `main`
  calls them only after its endless loop.
- `mqtt_send_topic`, `init_data`, `init_count`, `listTreeRecursive`,
  `logger_set_out_stdout`, `logger_reset_state` and `logger_deinit` are not modelled:
  nothing calls them, or nothing that is reached.
- The values of the fixed fields of a report and the texts of the settings are not
  modelled; no control depends on them. Their number, and whether a setting is there, do
  count.
- The levels of the logger are not modelled: `logger_init` lets all of them pass.

### Not modelled

- open62541.c and open62541.h are a generated copy of a library, 86,000 of the 90,000
  lines of the repository; the gateway uses a dozen of its functions. They are no part
  of this program's logic, and modelled from that use.
- The build scripts, the packaging and the certificates have no state.
- The rest of `src/src`, some 3,900 lines, is modelled as far as it can be reached, but
  for settings, texts, layout and logging as said above.

## What could come next

- Times. Nothing here says how long a call takes, and so how many minutes are missed.
- The loop with several clients under fairness. `LanesServed` is checked with one
  client; the proofs cover the safety properties for any number.
- A report composed with the loop: the counts that a report cut short takes with it.
  `MainLoop` takes a report for whole, which holds while the report fits its buffer
  (`ReportFits`).
