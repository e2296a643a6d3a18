----------------------------- MODULE LoggerProofs -----------------------------
(***************************************************************************)
(* Proofs about the logger, for any limits, names and numbers of           *)
(* descriptors: its variables keep their types (so no descriptor is given  *)
(* back that was not taken), no line is lost but with an archive that was  *)
(* overwritten or cut short, and archiving never lacks the descriptor that *)
(* opens the log again unless another thread takes what it has given back. *)
(***************************************************************************)
EXTENDS Logger, TLAPS

USE LoggerAssumption

\* The files that are open at each step of logger_archive.
Holds ==
  /\ step = "init" => open = {}
  /\ step \in {"zip", "log", "copy"} => "out" \in open
  /\ step \in {"idle", "zip"} => open \subseteq {"out"}
  /\ step = "log" => open = {"out", "zip"}
  /\ step = "copy" => open = {"out", "zip", "log"}
  /\ step = "reopen" => open = {}

\* What archiving has closed, it can open.
GivenBack == step = "reopen" /\ ~taken => Free >= 3

\* An archive is empty until the log is copied, and has all of it afterwards.
Archived ==
  /\ step \in {"log", "copy"} => archives[name] = {}
  /\ step = "reopen" /\ zipOk => log \subseteq archives[name]

IInv == TypeOK /\ Holds /\ GivenBack /\ Archived /\ LinesKept /\ WriterOpen

-----------------------------------------------------------------------------
LEMMA FreeInt == TypeOK => Free \in Nat
BY DEF TypeOK, Free, One

LEMMA IInvInit == Init => IInv
<1> SUFFICES ASSUME Init PROVE IInv
  OBVIOUS
<1>1. Free = Descriptors
  BY DEF Init, Free, One
<1>2. TypeOK
  <2>1. archives \in [Names -> SUBSET (1 .. written)]
    BY DEF Init
  <2>2. 0 \in 0 .. Descriptors /\ 0 \in 0 .. LOG_STRING_MAX_NUM
    OBVIOUS
  <2>3. leaked \in 0 .. Descriptors /\ others \in 0 .. Descriptors /\ Free >= 0
    BY <1>1, <2>2 DEF Init
  <2>4. /\ logger_func \in {"syslog", "file"} /\ step = "init" /\ open = {}
        /\ _stringCounter \in 0 .. LOG_STRING_MAX_NUM
        /\ written \in 0 .. MaxLines /\ log \subseteq 1 .. written
        /\ name \in Names /\ zipOk \in BOOLEAN /\ taken \in BOOLEAN
        /\ denied \in BOOLEAN
        /\ spoiled \subseteq 1 .. written
    BY <2>2 DEF Init
  <2> QED
    BY <2>1, <2>3, <2>4 DEF TypeOK
<1>3. LinesKept
  BY DEF Init, LinesKept
<1> QED
  BY <1>2, <1>3 DEF Init, IInv, Holds, GivenBack, Archived, WriterOpen

LEMMA InitStep == IInv /\ logger_init => IInv'
<1> SUFFICES ASSUME IInv, logger_init PROVE IInv'
  OBVIOUS
<1>1. TypeOK'
  <2>1. open = {} /\ ((open' = {"out"} /\ Free > 0) \/ open' = {})
    BY DEF logger_init, IInv, Holds
  <2>2. Free' >= 0 /\ UNCHANGED <<leaked, others>>
    BY <2>1 DEF logger_init, IInv, TypeOK, Free, One
  <2> QED
    BY <2>1, <2>2 DEF logger_init, Look, IInv, TypeOK, fileVars
<1>2. LinesKept'
  BY DEF logger_init, IInv, LinesKept, fileVars
<1>3. Holds' /\ GivenBack' /\ Archived' /\ WriterOpen'
  BY DEF logger_init, Look, IInv, Holds, GivenBack, Archived, WriterOpen
<1> QED
  BY <1>1, <1>2, <1>3 DEF IInv

LEMMA LogStep == IInv /\ (Log \/ LogToSyslog) => IInv'
<1> SUFFICES ASSUME IInv, Log \/ LogToSyslog PROVE IInv'
  OBVIOUS
<1>0. Free' = Free /\ UNCHANGED <<open, leaked, others, logger_func, taken, denied>>
  BY DEF Log, LogToSyslog, Free, One
<1>1. CASE LogToSyslog
  BY <1>0, <1>1 DEF LogToSyslog, fileVars, IInv, TypeOK, Holds, GivenBack,
                    Archived, LinesKept, WriterOpen
<1>2. CASE Log
  <2>1. _stringCounter' \in 0 .. LOG_STRING_MAX_NUM /\ step' \in {"idle", "zip"}
    BY <1>2 DEF Log, Counted, Look, IInv, TypeOK
  <2>2. /\ written' = written + 1 /\ written' \in 0 .. MaxLines
        /\ log' = log \union {written'}
        /\ UNCHANGED <<archives, spoiled, name, zipOk>>
    BY <1>2 DEF Log, IInv, TypeOK
  <2>3. 1 .. written \subseteq 1 .. written' /\ written' \in 1 .. written'
    BY <2>2 DEF IInv, TypeOK
  <2>4. TypeOK'
    BY <1>0, <2>1, <2>2, <2>3 DEF IInv, TypeOK
  <2>5. LinesKept'
    <3> SUFFICES ASSUME NEW l \in 1 .. written'
                 PROVE  \/ l \in log' \/ l \in spoiled'
                        \/ \E n \in Names : l \in archives'[n]
      BY DEF LinesKept
    <3>1. CASE l = written'
      BY <2>2, <3>1
    <3>2. CASE l # written'
      <4>1. l \in 1 .. written
        BY <2>2, <3>2 DEF IInv, TypeOK
      <4> QED BY <2>2, <4>1 DEF IInv, LinesKept
    <3> QED BY <3>1, <3>2
  <2>6. Holds' /\ GivenBack' /\ Archived' /\ WriterOpen'
    BY <1>0, <1>2, <2>1 DEF Log, IInv, Holds, GivenBack, Archived, WriterOpen
  <2> QED BY <2>4, <2>5, <2>6 DEF IInv
<1> QED BY <1>1, <1>2

LEMMA OpenZipStep == IInv /\ OpenZip => IInv'
<1> SUFFICES ASSUME IInv, OpenZip PROVE IInv'
  OBVIOUS
<1>0. /\ step = "zip" /\ open = {"out"}
      /\ UNCHANGED <<logger_func, _stringCounter, leaked, others, log, zipOk,
                     written, taken, denied>>
  BY DEF OpenZip, pathVars, IInv, Holds
<1>1. CASE UNCHANGED <<open, archives, spoiled, name>> /\ Fail
  <2>1. Free' = Free
    BY <1>0, <1>1 DEF Free, One
  <2> QED
    BY <1>0, <1>1, <2>1 DEF Fail, IInv, TypeOK, Holds, GivenBack, Archived,
                            LinesKept, WriterOpen
<1>2. CASE /\ Free > 0
           /\ \E n \in Names :
                /\ name' = n
                /\ spoiled' = spoiled \union archives[n]
                /\ archives' = [archives EXCEPT ![n] = {}]
           /\ \/ open' = open \union {"zip"} /\ step' = "log"
              \/ UNCHANGED open /\ Fail
  <2>1. PICK n \in Names : /\ name' = n
                           /\ spoiled' = spoiled \union archives[n]
                           /\ archives' = [archives EXCEPT ![n] = {}]
    BY <1>2
  <2>2. \/ open' = {"out", "zip"} /\ step' = "log"
        \/ open' = {"out"} /\ step' = "idle"
    BY <1>0, <1>2 DEF Fail
  <2>3. Free' >= 0
    BY <1>0, <1>2, <2>2, FreeInt DEF Free, One, IInv, TypeOK
  <2>4. /\ archives \in [Names -> SUBSET (1 .. written)]
        /\ spoiled \subseteq 1 .. written
    BY DEF IInv, TypeOK
  <2>5. /\ archives' \in [Names -> SUBSET (1 .. written')]
        /\ spoiled' \subseteq 1 .. written'
    BY <1>0, <2>1, <2>4
  <2>6. TypeOK'
    BY <1>0, <2>1, <2>2, <2>3, <2>5 DEF IInv, TypeOK
  <2>7. LinesKept'
    <3> SUFFICES ASSUME NEW l \in 1 .. written
                 PROVE  \/ l \in log \/ l \in spoiled'
                        \/ \E m \in Names : l \in archives'[m]
      BY <1>0 DEF LinesKept
    <3>1. CASE l \in archives[n]
      BY <2>1, <3>1
    <3>2. CASE l \in log \/ l \in spoiled
      BY <2>1, <3>2
    <3>3. ASSUME NEW m \in Names, l \in archives[m], m # n
          PROVE  l \in archives'[m]
      BY <2>1, <2>4, <3>3
    <3> QED BY <3>1, <3>2, <3>3 DEF IInv, LinesKept
  <2>8. archives'[name'] = {}
    BY <2>1, <2>4
  <2>9. Holds' /\ GivenBack' /\ Archived' /\ WriterOpen'
    BY <1>0, <2>2, <2>8 DEF Holds, GivenBack, Archived, WriterOpen
  <2> QED BY <2>6, <2>7, <2>9 DEF IInv
<1> QED
  BY <1>1, <1>2 DEF OpenZip

LEMMA OpenLogStep == IInv /\ OpenLog => IInv'
<1> SUFFICES ASSUME IInv, OpenLog PROVE IInv'
  OBVIOUS
<1>0. /\ step = "log" /\ open = {"out", "zip"}
      /\ UNCHANGED <<logger_func, _stringCounter, others, log, archives, spoiled,
                     name, zipOk, written, taken, denied>>
  BY DEF OpenLog, pathVars, fileVars, IInv, Holds
<1>1. \/ /\ Free > 0 /\ open' = {"out", "zip", "log"} /\ step' = "copy"
         /\ leaked' = leaked
      \/ /\ open' = {"out"} /\ leaked' = leaked + 1 /\ step' = "idle"
  BY <1>0 DEF OpenLog, Fail
<1>2. Free' >= 0 /\ leaked' \in 0 .. Descriptors
  BY <1>0, <1>1 DEF Free, One, IInv, TypeOK
<1>3. TypeOK'
  BY <1>0, <1>1, <1>2 DEF IInv, TypeOK
<1>4. LinesKept'
  BY <1>0 DEF IInv, LinesKept
<1>5. Holds' /\ GivenBack' /\ Archived' /\ WriterOpen'
  BY <1>0, <1>1 DEF IInv, Holds, GivenBack, Archived, WriterOpen
<1> QED BY <1>3, <1>4, <1>5 DEF IInv

LEMMA CopyStep == IInv /\ Copy => IInv'
<1> SUFFICES ASSUME IInv, Copy PROVE IInv'
  OBVIOUS
<1>0. /\ step = "copy" /\ open = {"out", "zip", "log"}
      /\ UNCHANGED <<logger_func, _stringCounter, others, log, spoiled, name,
                     written>>
  BY DEF Copy, pathVars, IInv, Holds
<1>1. CASE CopyFails
  <2>1. Free' = Free /\ leaked' \in 0 .. Descriptors
    BY <1>0, <1>1 DEF CopyFails, Free, One, IInv, TypeOK
  <2> QED
    BY <1>0, <1>1, <2>1 DEF CopyFails, Fail, IInv, TypeOK, Holds, GivenBack,
                            Archived, LinesKept, WriterOpen
<1>2. CASE CopyDone
  <2>1. /\ open' = {} /\ leaked' = leaked /\ step' = "reopen"
        /\ zipOk' \in BOOLEAN
        /\ archives' = [archives EXCEPT ![name] = IF zipOk' THEN log ELSE {}]
    BY <1>2 DEF CopyDone
  <2>2. Free' = Free + 3
    BY <1>0, <2>1 DEF Free, One, IInv, TypeOK
  <2>3. Free' >= 3 /\ Free' >= 0
    BY <2>2, FreeInt DEF IInv
  <2>4. /\ archives \in [Names -> SUBSET (1 .. written)]
        /\ log \subseteq 1 .. written /\ name \in Names
    BY DEF IInv, TypeOK
  <2>5. archives' \in [Names -> SUBSET (1 .. written')]
    BY <1>0, <2>1, <2>4
  <2>6. TypeOK'
    BY <1>0, <1>2, <2>1, <2>3, <2>5 DEF CopyDone, IInv, TypeOK
  <2>7. LinesKept'
    <3> SUFFICES ASSUME NEW l \in 1 .. written
                 PROVE  \/ l \in log \/ l \in spoiled
                        \/ \E m \in Names : l \in archives'[m]
      BY <1>0 DEF LinesKept
    <3>1. ASSUME NEW m \in Names, l \in archives[m], m # name
          PROVE  l \in archives'[m]
      BY <2>1, <2>4, <3>1
    <3>2. ASSUME l \in archives[name]
          PROVE  l \in log
      BY <1>0, <3>2 DEF IInv, Archived
    <3> QED BY <3>1, <3>2 DEF IInv, LinesKept
  <2>8. Archived'
    BY <1>0, <2>1, <2>4 DEF Archived
  <2>9. Holds' /\ GivenBack' /\ WriterOpen'
    BY <2>1, <2>3 DEF Holds, GivenBack, WriterOpen
  <2> QED BY <2>6, <2>7, <2>8, <2>9 DEF IInv
<1> QED BY <1>1, <1>2 DEF Copy

LEMMA ReopenStep == IInv /\ Reopen => IInv'
<1> SUFFICES ASSUME IInv, Reopen PROVE IInv'
  OBVIOUS
<1>0. /\ step = "reopen" /\ open = {} /\ step' = "idle"
      /\ UNCHANGED <<logger_func, _stringCounter, leaked, others, archives, name,
                     zipOk, written, taken>>
  BY DEF Reopen, pathVars, IInv, Holds
<1>1. CASE /\ Free > 0 /\ UNCHANGED denied
           /\ open' = {"out"} /\ log' = {}
           /\ spoiled' = spoiled \union IF zipOk THEN {} ELSE log
  <2>1. /\ open' = {"out"} /\ log' = {}
        /\ spoiled' = spoiled \union IF zipOk THEN {} ELSE log
    BY <1>1
  <2>2. Free' >= 0
    BY <1>0, <1>1, <2>1 DEF Free, One, IInv, TypeOK
  <2>3. TypeOK'
    BY <1>0, <1>1, <2>1, <2>2 DEF IInv, TypeOK
  <2>4. LinesKept'
    <3> SUFFICES ASSUME NEW l \in 1 .. written
                 PROVE  l \in spoiled' \/ \E n \in Names : l \in archives[n]
      BY <1>0 DEF LinesKept
    <3>1. CASE l \in log
      BY <1>0, <2>1, <3>1 DEF IInv, Archived, TypeOK
    <3>2. CASE l \notin log
      BY <2>1, <3>2 DEF IInv, LinesKept
    <3> QED BY <3>1, <3>2
  <2> QED
    BY <1>0, <2>1, <2>3, <2>4 DEF IInv, Holds, GivenBack, Archived, WriterOpen
<1>2. CASE denied' = (Free > 0) /\ UNCHANGED <<open, log, spoiled>>
  <2>1. denied' \in BOOLEAN
    <3>1. (Free > 0) \in BOOLEAN
      BY FreeInt DEF IInv
    <3> QED
      BY <1>2, <3>1, Zenon
  \* With a descriptor the file was denied; there is none when one was taken.
  <2>2. taken \/ denied'
    <3>1. taken \/ Free > 0
      BY <1>0, FreeInt DEF IInv, GivenBack
    <3> QED
      BY <1>2, <3>1, Zenon
  <2>3. Free' = Free
    BY <1>0, <1>2 DEF Free, One
  <2> QED
    BY <1>0, <1>2, <2>1, <2>2, <2>3 DEF IInv, TypeOK, Holds, GivenBack, Archived,
                                        LinesKept, WriterOpen
<1> QED BY <1>1, <1>2 DEF Reopen, CanReopen

LEMMA ProcessStep == IInv /\ (Take \/ Release) => IInv'
<1> SUFFICES ASSUME IInv, Take \/ Release PROVE IInv'
  OBVIOUS
<1>0. UNCHANGED <<logger_func, _stringCounter, open, leaked, step, log, archives,
                  spoiled, name, zipOk, written, denied>>
  BY DEF Take, Release, pathVars, fileVars
<1>1. CASE Take
  <2>1. Free' = Free - 1 /\ Free > 0 /\ others' \in 0 .. Descriptors
    BY <1>0, <1>1 DEF Take, Free, One, IInv, TypeOK
  <2>2. taken' \in BOOLEAN /\ (taken => taken') /\ (step = "reopen" => taken')
    BY <1>1 DEF Take, IInv, TypeOK
  <2> QED
    BY <1>0, <2>1, <2>2, FreeInt DEF IInv, TypeOK, Holds, GivenBack, Archived,
                                     LinesKept, WriterOpen
<1>2. CASE Release
  <2>1. /\ Free' = Free + 1 /\ others' \in 0 .. Descriptors
        /\ taken' = taken
    BY <1>0, <1>2 DEF Release, Free, One, IInv, TypeOK
  <2> QED
    BY <1>0, <2>1, FreeInt DEF IInv, TypeOK, Holds, GivenBack, Archived,
                               LinesKept, WriterOpen
<1> QED BY <1>1, <1>2

LEMMA RestartStep == IInv /\ Restart => IInv'
<1> SUFFICES ASSUME IInv, Restart PROVE IInv'
  OBVIOUS
<1>1. /\ open' = {} /\ leaked' = 0 /\ others' = 0 /\ step' = "init"
      /\ _stringCounter' = 0
      /\ UNCHANGED <<logger_func, log, archives, spoiled, name, zipOk, written,
                     taken, denied>>
  BY DEF Restart, fileVars
<1>2. Free' = Descriptors
  BY <1>1 DEF Free, One
<1> QED
  BY <1>1, <1>2 DEF IInv, TypeOK, Holds, GivenBack, Archived, LinesKept,
                    WriterOpen

LEMMA IInvStep == IInv /\ [Next]_vars => IInv'
<1> SUFFICES ASSUME IInv, [Next]_vars PROVE IInv'
  OBVIOUS
<1>1. CASE UNCHANGED vars
  <2>1. Free' = Free
    BY <1>1 DEF vars, Free, One
  <2> QED
    BY <1>1, <2>1 DEF vars, pathVars, fileVars, IInv, TypeOK, Holds, GivenBack,
                      Archived, LinesKept, WriterOpen
<1> QED
  BY <1>1, InitStep, LogStep, OpenZipStep, OpenLogStep, CopyStep, ReopenStep,
     ProcessStep, RestartStep DEF Next

LEMMA LoggerInvariant == Spec => []IInv
BY IInvInit, IInvStep, PTL DEF Spec

-----------------------------------------------------------------------------
\* The variables of the logger keep their types; the descriptors suffice for
\* what is counted as open.
THEOREM LoggerTypes == Spec => []TypeOK
<1>1. IInv => TypeOK
  BY DEF IInv
<1> QED
  BY LoggerInvariant, <1>1, PTL

\* No line is lost but with an archive that was overwritten or cut short.
THEOREM LoggerKeepsLines == Spec => []LinesKept
<1>1. IInv => LinesKept
  BY DEF IInv
<1> QED
  BY LoggerInvariant, <1>1, PTL

\* The log is open whenever lines go to it, unless another thread has taken the
\* descriptors that archiving gave back or the file itself was denied: archiving
\* never leaves too few descriptors, however often it has failed before.
THEOREM LoggerWrites == Spec => []WriterOpen
<1>1. IInv => WriterOpen
  BY DEF IInv
<1> QED
  BY LoggerInvariant, <1>1, PTL
=============================================================================
