---------------------------- MODULE ClientQueue -----------------------------
(***************************************************************************)
(* The polling lanes of src/client_queue.c: for each refresh rate a fixed  *)
(* array of MAX_CLIENT_NUM cells and a cursor.                             *)
(*                                                                         *)
(* The callers are in main.c.  init_sys clears the lanes and adds every    *)
(* client once; the PROCESS state scans one lane at a time, calling        *)
(* queueGetFirst and then queueGetNext until -1 comes back.  `scan` is the *)
(* caller's position (which of the three polling loops runs), and          *)
(* tempClientIdx its local variable of that name.                          *)
(***************************************************************************)
EXTENDS Integers

CONSTANTS
  Rates,           \* RefreshRate: one lane per rate
  Clients,         \* the innerIdx values given to queueAdd
  MAX_CLIENT_NUM   \* cells of a lane

EMPTY  == -1       \* a free cell, and the value returned at the end of a lane
NoScan == "none"   \* the caller is in none of its polling loops

ASSUME QueueAssumption ==
  /\ MAX_CLIENT_NUM \in Nat \ {0}
  /\ Clients \subseteq Nat
  /\ NoScan \notin Rates

VARIABLES
  rate,           \* rate[r]: the cells of lane r
  pos,            \* pos[r]: the cursor of lane r
  scan,           \* the lane the caller is polling, or NoScan
  tempClientIdx   \* the value the last queueGetFirst or queueGetNext returned

vars == <<rate, pos, scan, tempClientIdx>>

Slots == 0 .. MAX_CLIENT_NUM - 1

\* The clients stored in the cells `cells` of lane r.
StoredIn(r, cells) == {rate[r][k] : k \in cells} \ {EMPTY}

Queued(r) == StoredIn(r, Slots)

TypeOK ==
  /\ rate \in [Rates -> [Slots -> Clients \union {EMPTY}]]
  /\ pos \in [Rates -> Slots]
  /\ scan \in Rates \union {NoScan}
  /\ tempClientIdx \in Clients \union {EMPTY}

\* The lanes as init_sys leaves them after its first queueCleen (main.c:80):
\* no other operation is called before it.
Init ==
  /\ rate = [r \in Rates |-> [k \in Slots |-> EMPTY]]
  /\ pos = [r \in Rates |-> 0]
  /\ scan = NoScan
  /\ tempClientIdx = EMPTY

queueCleen ==
  /\ scan = NoScan
  /\ rate' = [r \in Rates |-> [k \in Slots |-> EMPTY]]
  /\ pos' = [r \in Rates |-> 0]
  /\ UNCHANGED <<scan, tempClientIdx>>

\* Mutant: the search starts at the second cell.
FirstFree_FromOne(r, k) ==
  /\ rate[r][k] = EMPTY
  /\ k > 0
  /\ \A j \in 1 .. k - 1 : rate[r][j] # EMPTY

\* The cell the search for a free one stops at.
FirstFree(r, k) ==
  /\ rate[r][k] = EMPTY
  /\ \A j \in 0 .. k - 1 : rate[r][j] # EMPTY

\* The caller adds a client only once between two calls of queueCleen; with
\* no free cell the call returns false and changes nothing.
queueAdd(r, c) ==
  /\ scan = NoScan
  /\ \A q \in Rates : c \notin Queued(q)
  /\ \/ \E k \in Slots : FirstFree(r, k) /\ rate' = [rate EXCEPT ![r][k] = c]
     \/ /\ EMPTY \notin {rate[r][k] : k \in Slots}
        /\ UNCHANGED rate
  /\ UNCHANGED <<pos, scan, tempClientIdx>>

\* The caller's reaction to a returned value: -1 ends its loop.
Return(r, c) ==
  /\ tempClientIdx' = c
  /\ scan' = IF c = EMPTY THEN NoScan ELSE r

\* Mutant: queueGetFirst continues from where the last scan stopped.
queueGetFirst_NoRewind(r) ==
  /\ scan = NoScan
  /\ UNCHANGED pos
  /\ Return(r, rate[r][pos[r]])
  /\ UNCHANGED rate

queueGetFirst(r) ==
  /\ scan = NoScan
  /\ pos' = [pos EXCEPT ![r] = 0]
  /\ Return(r, rate[r][0])
  /\ UNCHANGED rate

\* Mutant: queueGetNext returns the current cell without advancing.
queueGetNext_NoAdvance(r) ==
  /\ scan = r
  /\ Return(r, rate[r][pos[r]])
  /\ UNCHANGED <<rate, pos>>

\* Mutant: the end of the lane does not take the cursor back.
queueGetNext_NoWrap(r) ==
  /\ scan = r
  /\ LET next == pos[r] + 1 IN
       /\ pos' = [pos EXCEPT ![r] = next]
       /\ Return(r, IF next = MAX_CLIENT_NUM THEN EMPTY ELSE rate[r][next])
  /\ UNCHANGED rate

queueGetNext(r) ==
  /\ scan = r
  /\ LET next == pos[r] + 1 IN
       IF next = MAX_CLIENT_NUM
         THEN pos' = [pos EXCEPT ![r] = 0] /\ Return(r, EMPTY)
         ELSE pos' = [pos EXCEPT ![r] = next] /\ Return(r, rate[r][next])
  /\ UNCHANGED rate

Next ==
  \/ queueCleen
  \/ \E r \in Rates, c \in Clients : queueAdd(r, c)
  \/ \E r \in Rates : queueGetFirst(r) \/ queueGetNext(r)

Spec == Init /\ [][Next]_vars

\* The polling loop calls queueGetNext again after every client: nothing in
\* main.c leaves it before -1 is returned.
FairSpec == Spec /\ \A r \in Rates : WF_vars(queueGetNext(r))

-----------------------------------------------------------------------------
\* Every lane is stored without gaps: queueGetNext may take the first free
\* cell for the end of the lane (client_queue.c stops at the first -1).
NoGaps ==
  \A r \in Rates : \A k \in Slots :
    rate[r][k] = EMPTY => \A j \in Slots : j > k => rate[r][j] = EMPTY

\* No client sits in two cells, so none is polled twice in one scan.
NoDuplicates ==
  \A r, q \in Rates : \A k, j \in Slots :
    rate[r][k] = rate[q][j] /\ rate[r][k] # EMPTY => r = q /\ k = j

\* While a lane is scanned, the cursor is on the client handed out last.
CursorOnClient ==
  /\ scan = NoScan <=> tempClientIdx = EMPTY
  /\ scan # NoScan => rate[scan][pos[scan]] = tempClientIdx

IInv == TypeOK /\ NoGaps /\ NoDuplicates /\ CursorOnClient

\* Every scan the main loop begins comes to its end, whatever the fill of the
\* lane: a full lane ends by the cursor, any other by the first free cell.
ScanEnds == (scan # NoScan) ~> (scan = NoScan)

\* The clients the running scan has still to hand out.
Remaining ==
  IF scan = NoScan
    THEN {}
    ELSE StoredIn(scan, {k \in Slots : k > pos[scan]})

Abstract == INSTANCE PollList WITH
  members <- [r \in Rates |-> Queued(r)],
  todo    <- Remaining

\* The array with its cursor hands out every client of a lane exactly once
\* per scan and then ends: client_queue.c implements PollList.
ImplementsPollList == Abstract!Spec
=============================================================================
