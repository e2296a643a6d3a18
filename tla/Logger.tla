------------------------------- MODULE Logger -------------------------------
(***************************************************************************)
(* src/logger.c: lines go to the log file, and a log that has become large *)
(* is compressed into an archive and erased.  The main thread logs and     *)
(* archives; the network thread of libmosquitto and the sockets of the     *)
(* other modules share the descriptors of the process with it; and the     *)
(* process may be killed and started again at any point.                   *)
(*                                                                         *)
(* Log levels are left out: logger_init lets all of them pass.  `written`, *)
(* `spoiled`, `taken` and `denied` are history variables.                  *)
(***************************************************************************)
EXTENDS Integers, FiniteSets

CONSTANTS
  LOG_STRING_MAX_NUM,  \* lines between two looks at the size of the log
  LOG_FILE_MAX_SIZE,   \* the size, in lines
  Names,               \* archives are named by the second they begin in
  Descriptors,         \* what the process may have open
  MaxLines             \* bound: lines written to the log in all

VARIABLES
  logger_func,    \* where lines go: "syslog" or "file"
  open,           \* the files the logger holds: "out", "zip" and "log"
  leaked,         \* files that nothing holds any more, and that are open
  others,         \* descriptors in use by the rest of the process
  _stringCounter,
  step,           \* "init", "idle", or the next step of logger_archive
  log,            \* the lines in the log file
  archives,       \* archives[n]: the lines in the archive of that name
  name, zipOk,    \* of logger_archive: the archive, and whether it got all
  written,        \* lines 1 .. written have gone to the log file
  spoiled,        \* lines lost with an archive overwritten or cut short
  taken,          \* another thread took a descriptor while the log was closed
  denied          \* the log could not be opened again, with a descriptor free

pathVars == <<logger_func, _stringCounter>>
fileVars == <<log, archives, spoiled>>
vars == <<pathVars, open, leaked, others, step, fileVars, name, zipOk, written,
          taken, denied>>

ASSUME LoggerAssumption ==
  /\ LOG_STRING_MAX_NUM \in Nat /\ LOG_FILE_MAX_SIZE \in Nat
  /\ Names # {}
  /\ Descriptors \in Nat /\ MaxLines \in Nat

One(f) == IF f \in open THEN 1 ELSE 0

Free == Descriptors - others - leaked - One("out") - One("zip") - One("log")

TypeOK ==
  /\ logger_func \in {"syslog", "file"}
  /\ open \subseteq {"out", "zip", "log"}
  /\ leaked \in 0 .. Descriptors /\ others \in 0 .. Descriptors
  /\ Free >= 0
  /\ _stringCounter \in 0 .. LOG_STRING_MAX_NUM
  /\ step \in {"init", "idle", "zip", "log", "copy", "reopen"}
  /\ written \in 0 .. MaxLines
  /\ log \subseteq 1 .. written
  /\ archives \in [Names -> SUBSET (1 .. written)]
  /\ name \in Names /\ zipOk \in BOOLEAN /\ taken \in BOOLEAN
  /\ denied \in BOOLEAN
  /\ spoiled \subseteq 1 .. written

\* The log may hold lines of an earlier run.
Init ==
  /\ written \in 0 .. MaxLines /\ log = 1 .. written
  /\ archives = [n \in Names |-> {}] /\ spoiled = {}
  /\ name \in Names /\ zipOk = FALSE /\ taken = FALSE /\ denied = FALSE
  /\ logger_func = "syslog" /\ open = {} /\ leaked = 0 /\ others = 0
  /\ _stringCounter = 0
  /\ step = "init"

-----------------------------------------------------------------------------
Full(lines) == Cardinality(lines) >= LOG_FILE_MAX_SIZE

\* logger_archive begins if the log is large.
Look(lines) == step' = IF Full(lines) THEN "zip" ELSE "idle"

\* logger_init: without the file, lines go to the syslog.
logger_init ==
  /\ step = "init"
  /\ \/ /\ Free > 0
        /\ open' = {"out"} /\ logger_func' = "file" /\ Look(log)
     \/ /\ UNCHANGED open /\ logger_func' = "syslog" /\ step' = "idle"
  /\ UNCHANGED <<leaked, others, _stringCounter, fileVars, name, zipOk, written,
                 taken, denied>>

\* Mutant: the count goes on.
Counted_NoReset ==
  /\ _stringCounter' = _stringCounter + 1
  /\ IF _stringCounter + 1 > LOG_STRING_MAX_NUM THEN Look(log') ELSE UNCHANGED step

Counted ==
  IF _stringCounter + 1 > LOG_STRING_MAX_NUM
    THEN _stringCounter' = 0 /\ Look(log')
    ELSE _stringCounter' = _stringCounter + 1 /\ UNCHANGED step

\* LOG and its like without a log file, which is then never large.
LogToSyslog ==
  /\ step = "idle" /\ logger_func = "syslog"
  /\ _stringCounter' = IF _stringCounter + 1 > LOG_STRING_MAX_NUM
                         THEN 0 ELSE _stringCounter + 1
  /\ UNCHANGED <<logger_func, open, leaked, others, step, fileVars, name, zipOk,
                 written, taken, denied>>

\* LOG and its like; the file is flushed at every line.  Writing to a file that
\* is none is undefined: there is no such step here, and WriterOpen below says
\* when it would come.
Log ==
  /\ step = "idle" /\ logger_func = "file" /\ "out" \in open
  /\ written < MaxLines
  /\ written' = written + 1 /\ log' = log \union {written'}
  /\ Counted
  /\ UNCHANGED <<logger_func, open, leaked, others, archives, spoiled, name,
                 zipOk, taken, denied>>

-----------------------------------------------------------------------------
(* logger_archive.                                                         *)

Fail == step' = "idle"

\* Opening an archive for writing empties one of the same name.
OpenZip ==
  /\ step = "zip"
  /\ \/ /\ Fail   \* no directory, or no file
        /\ UNCHANGED <<open, archives, spoiled, name>>
     \/ /\ Free > 0
        /\ \E n \in Names :
             /\ name' = n
             /\ spoiled' = spoiled \union archives[n]
             /\ archives' = [archives EXCEPT ![n] = {}]
        /\ \/ open' = open \union {"zip"} /\ step' = "log"
           \/ UNCHANGED open /\ Fail      \* BZ2_bzWriteOpen fails
  /\ UNCHANGED <<pathVars, leaked, others, log, zipOk, written, taken, denied>>

\* The archive stays open when the log cannot be read.
OpenLog ==
  /\ step = "log"
  /\ \/ /\ Free > 0
        /\ open' = open \union {"log"} /\ step' = "copy" /\ UNCHANGED leaked
     \/ /\ open' = open \ {"zip"} /\ leaked' = leaked + 1 /\ Fail
  /\ UNCHANGED <<pathVars, others, fileVars, name, zipOk, written, taken, denied>>

\* Mutant: the log is erased also when writing the archive has failed.
CopyFails_GoesOn ==
  /\ open' = {} /\ step' = "reopen" /\ zipOk' = TRUE
  /\ taken' = FALSE /\ denied' = FALSE
  /\ UNCHANGED <<leaked, archives>>

\* An error of BZ2_bzWrite ends the archiving and leaves two files open.
CopyFails ==
  /\ open' = {"out"} /\ leaked' = leaked + 2 /\ Fail
  /\ UNCHANGED <<archives, zipOk, taken, denied>>

\* The end of the archive is written by BZ2_bzWriteClose and fclose, whose
\* errors are not looked at.  All three files are closed.
CopyDone ==
  /\ zipOk' \in BOOLEAN
  /\ archives' = [archives EXCEPT ![name] = IF zipOk' THEN log ELSE {}]
  /\ open' = {} /\ taken' = FALSE /\ denied' = FALSE /\ step' = "reopen"
  /\ UNCHANGED leaked

Copy ==
  /\ step = "copy"
  /\ CopyFails \/ CopyDone
  /\ UNCHANGED <<pathVars, others, log, spoiled, name, written>>

\* Mutant: the log is opened before the three files are closed.
CanReopen_BeforeClose == Free > 3

CanReopen == Free > 0

\* Opening the log for writing erases it, or fails: for want of a descriptor, or
\* because the file cannot be written or the system is short of something else.
\* The lines then still go to the file, which is none.
Reopen ==
  /\ step = "reopen"
  /\ step' = "idle"
  /\ \/ /\ CanReopen
        /\ open' = {"out"} /\ log' = {}
        /\ spoiled' = spoiled \union IF zipOk THEN {} ELSE log
        /\ UNCHANGED denied
     \/ /\ denied' = CanReopen
        /\ UNCHANGED <<open, log, spoiled>>
  /\ UNCHANGED <<pathVars, leaked, others, archives, name, zipOk, written, taken>>

-----------------------------------------------------------------------------
(* The rest of the process, and its end.                                   *)

\* A socket of another module, or of the network thread: also while the main
\* thread is between two steps of logger_archive.
Take ==
  /\ Free > 0
  /\ others' = others + 1
  /\ taken' = (taken \/ step = "reopen")
  /\ UNCHANGED <<pathVars, open, leaked, step, fileVars, name, zipOk, written,
                 denied>>

Release ==
  /\ others > 0
  /\ others' = others - 1
  /\ UNCHANGED <<pathVars, open, leaked, step, fileVars, name, zipOk, written,
                 taken, denied>>

\* The process is killed, and started again: its files are closed, and an
\* archive that was not finished holds nothing.
Restart ==
  /\ step # "init" /\ step' = "init"
  /\ open' = {} /\ leaked' = 0 /\ others' = 0 /\ _stringCounter' = 0
  /\ UNCHANGED <<logger_func, fileVars, name, zipOk, written, taken, denied>>

Next ==
  \/ logger_init \/ Log \/ LogToSyslog
  \/ OpenZip \/ OpenLog \/ Copy \/ Reopen
  \/ Take \/ Release \/ Restart

Spec == Init /\ [][Next]_vars

-----------------------------------------------------------------------------
\* Every line that went to the log file is in it or in an archive, wherever
\* archiving fails and wherever the process is killed, but for the lines of an
\* archive that was overwritten or could not be finished.
LinesKept ==
  \A l \in 1 .. written :
    l \in log \/ (\E n \in Names : l \in archives[n]) \/ l \in spoiled

\* Lines go to a file that is open, or the log could not be opened again for
\* what is not the logger's doing: another thread took the descriptors that
\* archiving had given back, or there was one and the file was denied.  Archiving
\* itself never leaves too few.
WriterOpen ==
  step = "idle" /\ logger_func = "file" => "out" \in open \/ taken \/ denied
=============================================================================
