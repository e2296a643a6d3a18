------------------------------ MODULE PollList ------------------------------
(***************************************************************************)
(* What the polling lanes promise to the main loop: each lane is a set of  *)
(* registered clients, and a scan of a lane hands out every client that is *)
(* registered in it exactly once and then reports the end.                 *)
(*                                                                         *)
(* The array and cursor of client_queue.c implement this module            *)
(* (ClientQueue.tla); the main loop is modelled on top of it               *)
(* (MainLoop.tla).                                                         *)
(***************************************************************************)
EXTENDS Integers

CONSTANTS
  Rates,    \* the polling lanes, one per RefreshRate
  Clients   \* the innerIdx values a lane may hold

EMPTY  == -1      \* "no client": the end of a scan
NoScan == "none"  \* no lane is being scanned

VARIABLES
  members,        \* members[r]: the clients registered in lane r
  todo,           \* the clients the running scan has not handed out yet
  scan,           \* the lane being scanned, or NoScan
  tempClientIdx   \* what the scan returned last

vars == <<members, todo, scan, tempClientIdx>>

Init ==
  /\ members = [r \in Rates |-> {}]
  /\ todo = {}
  /\ scan = NoScan
  /\ tempClientIdx = EMPTY

Clear ==
  /\ scan = NoScan
  /\ members' = [r \in Rates |-> {}]
  /\ UNCHANGED <<todo, scan, tempClientIdx>>

Register(r, c) ==
  /\ scan = NoScan
  /\ members' = [members EXCEPT ![r] = @ \union {c}]
  /\ UNCHANGED <<todo, scan, tempClientIdx>>

\* Hand out some client of `left`, or report the end when there is none.
HandOut(r, left) ==
  \/ /\ left = {}
     /\ todo' = {}
     /\ scan' = NoScan
     /\ tempClientIdx' = EMPTY
  \/ \E c \in left :
       /\ todo' = left \ {c}
       /\ scan' = r
       /\ tempClientIdx' = c

First(r) ==
  /\ scan = NoScan
  /\ HandOut(r, members[r])
  /\ UNCHANGED members

Following(r) ==
  /\ scan = r
  /\ HandOut(r, todo)
  /\ UNCHANGED members

Next ==
  \/ Clear
  \/ \E r \in Rates, c \in Clients : Register(r, c)
  \/ \E r \in Rates : First(r) \/ Following(r)

Spec == Init /\ [][Next]_vars
=============================================================================
