------------------------------ MODULE Reporting ------------------------------
(***************************************************************************)
(* What the gateway promises about counts: each client is owed what its    *)
(* readings have counted, an accepted report settles all that is owed at   *)
(* once, and it carries neither more nor less than that of a client that   *)
(* has been read since the report before.  MainLoop.tla implements it.     *)
(***************************************************************************)
EXTENDS Integers

CONSTANTS
  Clients,
  TransitMayLose, \* an accepted report may go astray
  MaxCount,       \* bound: what one reading may add
  MaxDelivered    \* bound: the sums below stop there

VARIABLES
  owed,      \* owed[c]: counted, and in no accepted report
  fresh,     \* the clients read since the last accepted report
  delivered, \* delivered[c]: sum of what reports have brought the broker
  lost       \* lost[c]: sum of what went astray

vars == <<owed, fresh, delivered, lost>>

Init ==
  /\ owed = [c \in Clients |-> 0]
  /\ fresh = {}
  /\ delivered = [c \in Clients |-> 0]
  /\ lost = [c \in Clients |-> 0]

Read(c) ==
  /\ \E n \in 0 .. MaxCount : owed' = [owed EXCEPT ![c] = @ + n]
  /\ fresh' = fresh \union {c}
  /\ UNCHANGED <<delivered, lost>>

Bounded(n) == IF n < MaxDelivered THEN n ELSE MaxDelivered

\* `after` is `before` with at least what is owed; with no more than that for
\* the clients that have been read.
Settles(before, after) ==
  \A c \in Clients :
    /\ after[c] >= Bounded(before[c] + owed[c])
    /\ c \in fresh => after[c] = Bounded(before[c] + owed[c])

Report ==
  /\ owed' = [c \in Clients |-> 0]
  /\ fresh' = {}
  /\ \/ Settles(delivered, delivered') /\ UNCHANGED lost
     \/ TransitMayLose /\ Settles(lost, lost') /\ UNCHANGED delivered

Next == (\E c \in Clients : Read(c)) \/ Report

Spec == Init /\ [][Next]_vars
=============================================================================
