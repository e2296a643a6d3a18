-------------------------------- MODULE Report --------------------------------
(***************************************************************************)
(* The report: get_json of src/ts_data.c writes the fields of mqtt_data    *)
(* into one buffer, and send_data of src/main.c publishes what is in the   *)
(* buffer.  Extends ClientData, which fills mqtt_data.                     *)
(*                                                                         *)
(* Fields are numbered as in mqtt_data: CLIENT_POS fixed ones, then the    *)
(* clients, which are numbers here.  A line of the text is its length.     *)
(* Nothing bounds a line to DATA_MAX_LINE_LEN: it has a name, and a number *)
(* or a string, of any length.  What follows a line that runs over the end *)
(* of the buffer is undefined, and nothing is said of it.                  *)
(***************************************************************************)
EXTENDS ClientData, FiniteSets

CONSTANTS
  CLIENT_POS,         \* SF_CLIENT_POS, the number of fixed fields
  clientsCount,       \* the number of clients
  MAX_BUF,            \* size of send_buf
  DATA_MAX_LINE_LEN,  \* what get_json keeps free for a line
  LineLengths         \* the lengths a line may have

VARIABLES
  at,        \* "poll", "format", "send", or "overrun" once the end is passed
  i, length, \* of get_json: lines written, and characters
  line,      \* the length of its last line
  rc         \* its result, while at = "send"

reportVars == <<at, i, length, line, rc>>
vars == <<dataVars, reportVars>>

Count == CLIENT_POS + clientsCount
Field(c) == CLIENT_POS + c

ASSUME ReportAssumption ==
  /\ CLIENT_POS \in Nat \ {0} /\ clientsCount \in Nat
  /\ Clients = 0 .. clientsCount - 1
  /\ MAX_BUF \in Nat /\ DATA_MAX_LINE_LEN \in Nat \ {0}
  /\ DATA_MAX_LINE_LEN + 2 <= MAX_BUF
  /\ LineLengths \subseteq Nat \ {0}

Results == {"DATA_ERR_SUCCESS", "DATA_ERR_BUF"}
Missing == [is |-> "missing"]

ReportTypeOK ==
  /\ TypeOK
  /\ at \in {"poll", "format", "send", "overrun"}
  /\ i \in 0 .. Count
  /\ length \in Nat /\ line \in Nat
  /\ rc \in Results

ReportInit ==
  /\ Init
  /\ at = "poll" /\ i = 0 /\ length = 0 /\ line = 0 /\ rc = "DATA_ERR_SUCCESS"

Poll == at = "poll" /\ Receive /\ UNCHANGED reportVars

\* SEND_DATA: after the survey, and whenever the interval has passed.
Begin ==
  /\ at = "poll" /\ surveyed = Clients
  /\ at' = "format" /\ i' = 0 /\ length' = 1 /\ line' = 0
  /\ UNCHANGED <<dataVars, rc>>

Return(r) == at' = "send" /\ rc' = r

\* Mutant: the loop runs once more.
More_OneMore == i <= Count

\* The condition of the loop.
More == i < Count

\* Mutant: the room for another line is not looked at.
NoRoom_Never(len, n) == FALSE

\* After the n-th line: is a line still to come, and may it be too long?
NoRoom(len, n) == len >= MAX_BUF - DATA_MAX_LINE_LEN /\ n < Count

\* A line of get_json.  At a field that is unset it would give up: there is none
\* after the survey, or this module would have a deadlock.
Line ==
  /\ at = "format" /\ More
  /\ \A c \in Clients : Field(c) = i => mqtt_data[c] # Unset
  /\ \E n \in LineLengths : line' = n /\ length' = length + n
  /\ i' = i + 1
  /\ \/ length' >= MAX_BUF /\ at' = "overrun" /\ UNCHANGED rc
     \/ length' < MAX_BUF /\ NoRoom(length', i') /\ Return("DATA_ERR_BUF")
     \/ length' < MAX_BUF /\ ~NoRoom(length', i') /\ UNCHANGED <<at, rc>>
  /\ UNCHANGED dataVars

\* Whatever comes of it: the model stays here.
Overrun == at = "overrun" /\ UNCHANGED vars

\* The comma after the last line becomes the brace.
Close ==
  /\ at = "format" /\ ~More
  /\ Return("DATA_ERR_SUCCESS")
  /\ UNCHANGED <<dataVars, i, length, line>>

\* The text ends where the formatter stopped; its result is not looked at.
Sent == [c \in Clients |-> IF Field(c) < i THEN mqtt_data[c] ELSE Missing]

\* Whether the library accepts the text makes a difference to counters only.
Send ==
  /\ at = "send"
  /\ at' = "poll"
  /\ UNCHANGED <<dataVars, i, length, line, rc>>

ReportNext == Poll \/ Begin \/ Line \/ Overrun \/ Close \/ Send

ReportSpec == ReportInit /\ [][ReportNext]_vars

-----------------------------------------------------------------------------
\* Every line begins with room for DATA_MAX_LINE_LEN characters and the zero that
\* ends the text: no number of shorter lines takes it beyond send_buf, and a
\* longer one takes it there by no more than what it is too long.
InBuffer ==
  length < MAX_BUF + (IF line > DATA_MAX_LINE_LEN THEN line - DATA_MAX_LINE_LEN ELSE 0)

\* A report that the formatter calls a success has a line for every client, and
\* what any report says of a client, one that was cut short included, is what
\* the last poll of the client gave.
SuccessIsTrue ==
  at = "send" =>
    \A c \in Clients :
      /\ rc = "DATA_ERR_SUCCESS" => Sent[c] # Missing
      /\ Carried(c) => Sent[c] \in {Missing, given[c]}
=============================================================================
