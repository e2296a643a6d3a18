------------------------- MODULE ClientQueueProofs --------------------------
(***************************************************************************)
(* Proofs about the polling lanes, for any number of lanes, cells and      *)
(* clients: the inductive invariant IInv of ClientQueue, and that the      *)
(* array with its cursor implements PollList.                              *)
(***************************************************************************)
EXTENDS ClientQueue, TLAPS

USE QueueAssumption DEF EMPTY, Slots

-----------------------------------------------------------------------------
(* The invariant, one lemma per conjunct.                                  *)

LEMMA TypeInit == Init => TypeOK
BY DEF Init, TypeOK

LEMMA TypeStep == TypeOK /\ [Next]_vars => TypeOK'
<1> SUFFICES ASSUME TypeOK, [Next]_vars PROVE TypeOK'
  OBVIOUS
<1> USE DEF TypeOK
<1>1. CASE queueCleen
  BY <1>1 DEF queueCleen
<1>2. ASSUME NEW r \in Rates, NEW c \in Clients, queueAdd(r, c)
      PROVE  TypeOK'
  <2>1. ASSUME NEW k \in Slots, rate' = [rate EXCEPT ![r][k] = c]
        PROVE  rate' \in [Rates -> [Slots -> Clients \union {EMPTY}]]
    BY <2>1
  <2>2. rate' \in [Rates -> [Slots -> Clients \union {EMPTY}]]
    BY <1>2, <2>1 DEF queueAdd
  <2> QED BY <1>2, <2>2 DEF queueAdd
<1>3. ASSUME NEW r \in Rates, queueGetFirst(r)
      PROVE  TypeOK'
  <2>1. 0 \in Slots /\ rate[r][0] \in Clients \union {EMPTY}
    OBVIOUS
  <2> QED BY <1>3, <2>1 DEF queueGetFirst, Return
<1>4. ASSUME NEW r \in Rates, queueGetNext(r)
      PROVE  TypeOK'
  <2>1. CASE pos[r] + 1 = MAX_CLIENT_NUM
    <3>1. /\ pos' = [pos EXCEPT ![r] = 0]
          /\ tempClientIdx' = EMPTY /\ scan' = NoScan /\ rate' = rate
      BY <1>4, <2>1 DEF queueGetNext, Return
    <3> QED BY <3>1
  <2>2. CASE pos[r] + 1 # MAX_CLIENT_NUM
    <3> DEFINE next == pos[r] + 1
    <3>1. next \in Slots /\ rate[r][next] \in Clients \union {EMPTY}
      BY <2>2
    <3>2. /\ pos' = [pos EXCEPT ![r] = next]
          /\ tempClientIdx' = rate[r][next]
          /\ scan' = (IF rate[r][next] = EMPTY THEN NoScan ELSE r)
          /\ rate' = rate
      BY <1>4, <2>2 DEF queueGetNext, Return
    <3> HIDE DEF next
    <3> QED BY <3>1, <3>2
  <2> QED BY <2>1, <2>2
<1>5. CASE UNCHANGED vars
  BY <1>5 DEF vars
<1> QED
  BY <1>1, <1>2, <1>3, <1>4, <1>5 DEF Next

\* Filling the first free cell keeps the free cells behind the stored ones.
LEMMA NoGapsStep == TypeOK /\ NoGaps /\ [Next]_vars => NoGaps'
<1> SUFFICES ASSUME TypeOK, NoGaps, [Next]_vars PROVE NoGaps'
  OBVIOUS
<1> USE DEF TypeOK, NoGaps
<1>1. CASE queueCleen
  BY <1>1 DEF queueCleen
<1>2. ASSUME NEW r \in Rates, NEW c \in Clients, queueAdd(r, c)
      PROVE  NoGaps'
  <2>1. ASSUME NEW k \in Slots, FirstFree(r, k),
               rate' = [rate EXCEPT ![r][k] = c]
        PROVE  NoGaps'
    <3> SUFFICES ASSUME NEW q \in Rates, NEW i \in Slots, NEW j \in Slots,
                        rate'[q][i] = EMPTY, j > i
                 PROVE  rate'[q][j] = EMPTY
      OBVIOUS
    <3>1. CASE q # r
      BY <2>1, <3>1
    <3>2. CASE q = r
      <4>1. i # k /\ rate[r][i] = EMPTY
        BY <2>1, <3>2
      <4>2. i > k
        BY <2>1, <4>1 DEF FirstFree
      <4> QED BY <2>1, <3>2, <4>1, <4>2
    <3> QED BY <3>1, <3>2
  <2>2. CASE UNCHANGED rate
    BY <2>2
  <2> QED BY <1>2, <2>1, <2>2 DEF queueAdd
<1>3. CASE UNCHANGED rate
  BY <1>3
<1> QED
  BY <1>1, <1>2, <1>3 DEF Next, vars, queueGetFirst, queueGetNext

\* A client is added only when no lane holds it yet.
LEMMA NoDuplicatesStep ==
  TypeOK /\ NoDuplicates /\ [Next]_vars => NoDuplicates'
<1> SUFFICES ASSUME TypeOK, NoDuplicates, [Next]_vars PROVE NoDuplicates'
  OBVIOUS
<1> USE DEF TypeOK, NoDuplicates
<1>1. CASE queueCleen
  BY <1>1 DEF queueCleen
<1>2. ASSUME NEW r \in Rates, NEW c \in Clients, queueAdd(r, c)
      PROVE  NoDuplicates'
  <2>1. \A q \in Rates : \A j \in Slots : rate[q][j] # c
    BY <1>2 DEF queueAdd, Queued, StoredIn
  <2>2. ASSUME NEW k \in Slots, rate' = [rate EXCEPT ![r][k] = c]
        PROVE  NoDuplicates'
    <3>1. \A q \in Rates, i \in Slots :
            rate'[q][i] = IF q = r /\ i = k THEN c ELSE rate[q][i]
      BY <2>2
    <3> SUFFICES ASSUME NEW p \in Rates, NEW q \in Rates,
                        NEW i \in Slots, NEW j \in Slots,
                        rate'[p][i] = rate'[q][j], rate'[p][i] # EMPTY
                 PROVE  p = q /\ i = j
      OBVIOUS
    <3>2. CASE p = r /\ i = k
      <4>1. rate'[q][j] = c
        BY <3>1, <3>2
      <4> QED BY <2>1, <3>1, <3>2, <4>1
    <3>3. CASE ~(p = r /\ i = k)
      <4>1. rate'[p][i] = rate[p][i] /\ rate[p][i] # c
        BY <2>1, <3>1, <3>3
      <4>2. rate'[q][j] = rate[q][j]
        BY <3>1, <4>1
      <4>3. rate[p][i] = rate[q][j] /\ rate[p][i] # EMPTY
        BY <4>1, <4>2
      <4> QED BY <4>3
    <3> QED BY <3>2, <3>3
  <2>3. CASE UNCHANGED rate
    BY <2>3
  <2> QED BY <1>2, <2>2, <2>3 DEF queueAdd
<1>3. CASE UNCHANGED rate
  BY <1>3
<1> QED
  BY <1>1, <1>2, <1>3 DEF Next, vars, queueGetFirst, queueGetNext

LEMMA CursorStep ==
  TypeOK /\ CursorOnClient /\ [Next]_vars => CursorOnClient'
<1> SUFFICES ASSUME TypeOK, CursorOnClient, [Next]_vars
             PROVE  CursorOnClient'
  OBVIOUS
<1> USE DEF TypeOK, CursorOnClient
<1>1. CASE queueCleen
  BY <1>1 DEF queueCleen
<1>2. ASSUME NEW r \in Rates, NEW c \in Clients, queueAdd(r, c)
      PROVE  CursorOnClient'
  BY <1>2 DEF queueAdd
<1>3. ASSUME NEW r \in Rates, queueGetFirst(r)
      PROVE  CursorOnClient'
  BY <1>3 DEF queueGetFirst, Return
<1>4. ASSUME NEW r \in Rates, queueGetNext(r)
      PROVE  CursorOnClient'
  <2>1. CASE pos[r] + 1 = MAX_CLIENT_NUM
    BY <1>4, <2>1 DEF queueGetNext, Return
  <2>2. CASE pos[r] + 1 # MAX_CLIENT_NUM
    <3> DEFINE next == pos[r] + 1
    <3>1. next \in Slots
      BY <2>2
    <3>2. /\ pos' = [pos EXCEPT ![r] = next]
          /\ tempClientIdx' = rate[r][next]
          /\ scan' = (IF rate[r][next] = EMPTY THEN NoScan ELSE r)
          /\ rate' = rate
      BY <1>4, <2>2 DEF queueGetNext, Return
    <3> HIDE DEF next
    <3> QED BY <3>1, <3>2
  <2> QED BY <2>1, <2>2
<1>5. CASE UNCHANGED vars
  BY <1>5 DEF vars
<1> QED
  BY <1>1, <1>2, <1>3, <1>4, <1>5 DEF Next

LEMMA IInvInit == Init => IInv
BY TypeInit DEF Init, IInv, NoGaps, NoDuplicates, CursorOnClient

LEMMA IInvStep == IInv /\ [Next]_vars => IInv'
BY TypeStep, NoGapsStep, NoDuplicatesStep, CursorStep DEF IInv

\* The lanes are well formed in every reachable state: typed, without gaps
\* or duplicates, and the cursor of the running scan on the client returned.
THEOREM QueueInvariant == Spec => []IInv
BY IInvInit, IInvStep, PTL DEF Spec

\* The arrays and cursors of client_queue.c stay within their bounds.
THEOREM QueueTypes == Spec => []TypeOK
<1>1. IInv => TypeOK
  BY DEF IInv
<1> QED
  BY QueueInvariant, <1>1, PTL

\* queueAdd leaves no free cell before a client: a scan, which ends at the first
\* free cell, passes nobody over.
THEOREM LanesWithoutGaps == Spec => []NoGaps
<1>1. IInv => NoGaps
  BY DEF IInv
<1> QED
  BY QueueInvariant, <1>1, PTL

\* queueAdd stores a client once: no scan polls it twice.
THEOREM ClientsStoredOnce == Spec => []NoDuplicates
<1>1. IInv => NoDuplicates
  BY DEF IInv
<1> QED
  BY QueueInvariant, <1>1, PTL

-----------------------------------------------------------------------------
(* The refinement.                                                         *)

\* The cells of a lane from n on, and what the cell n says about them: a free
\* cell means that nothing follows, a stored client that it is met only there.
LEMMA CellSplitsLane ==
  ASSUME IInv, NEW r \in Rates, NEW n \in Slots
  PROVE  LET left == StoredIn(r, {k \in Slots : k >= n})
             rest == StoredIn(r, {k \in Slots : k > n})
         IN  /\ rate[r][n] = EMPTY => left = {}
             /\ rate[r][n] # EMPTY => rate[r][n] \in left
                                    /\ rest = left \ {rate[r][n]}
<1> USE DEF IInv, TypeOK
<1>1. ASSUME rate[r][n] = EMPTY, NEW k \in Slots, k >= n
      PROVE  rate[r][k] = EMPTY
  BY <1>1 DEF NoGaps
<1>2. ASSUME rate[r][n] # EMPTY, NEW k \in Slots, rate[r][k] = rate[r][n]
      PROVE  k = n
  BY <1>2 DEF NoDuplicates
<1>3. \A k \in Slots : k >= n <=> k > n \/ k = n
  OBVIOUS
<1> QED
  BY <1>1, <1>2, <1>3 DEF StoredIn

LEMMA InitRefines == Init => Abstract!Init
<1> SUFFICES ASSUME Init PROVE Abstract!Init
  OBVIOUS
<1>1. ASSUME NEW r \in Rates PROVE Queued(r) = {}
  BY <1>1 DEF Init, Queued, StoredIn
<1> QED
  BY <1>1 DEF Init, Remaining, Abstract!Init, Abstract!EMPTY, Abstract!NoScan,
              NoScan

\* The return of a cell, seen from the abstract lane: one client of `left` is
\* handed out, or the end of the scan when there is none.
LEMMA ReturnHandsOut ==
  ASSUME IInv, NEW r \in Rates, NEW n \in Slots,
         rate' = rate, pos' = [pos EXCEPT ![r] = n],
         Return(r, rate[r][n])
  PROVE  Abstract!HandOut(r, StoredIn(r, {k \in Slots : k >= n}))
<1> DEFINE left == StoredIn(r, {k \in Slots : k >= n})
<1>0. pos'[r] = n
  BY DEF IInv, TypeOK
<1>1. CASE rate[r][n] = EMPTY
  <2>1. left = {}
    BY <1>1, CellSplitsLane
  <2> QED
    BY <1>1, <2>1 DEF Return, Remaining, NoScan, Abstract!HandOut,
                      Abstract!EMPTY, Abstract!NoScan
<1>2. CASE rate[r][n] # EMPTY
  <2>1. /\ rate[r][n] \in left
        /\ StoredIn(r, {k \in Slots : k > n}) = left \ {rate[r][n]}
    BY <1>2, CellSplitsLane
  <2>2. tempClientIdx' = rate[r][n] /\ scan' = r
    BY <1>2 DEF Return
  <2>3. Remaining' = StoredIn(r, {k \in Slots : k > n})
    <3>1. r # NoScan
      OBVIOUS
    <3> QED BY <1>0, <2>2, <3>1 DEF Remaining, StoredIn
  <2>4. Remaining' = left \ {rate[r][n]}
    BY <2>1, <2>3
  <2>5. Abstract!HandOut(r, left)
    <3> HIDE DEF left
    <3> QED BY <2>1, <2>2, <2>4 DEF Abstract!HandOut
  <2> QED BY <2>5
<1> QED
  BY <1>1, <1>2

LEMMA SameLanes ==
  ASSUME rate' = rate
  PROVE  [r \in Rates |-> Queued(r)]' = [r \in Rates |-> Queued(r)]
BY DEF Queued, StoredIn

LEMMA StepRefines ==
  IInv /\ [Next]_vars => [Abstract!Next]_(Abstract!vars)
<1> SUFFICES ASSUME IInv, [Next]_vars PROVE [Abstract!Next]_(Abstract!vars)
  OBVIOUS
<1>1. CASE queueCleen
  <2>1. ASSUME NEW r \in Rates PROVE Queued(r)' = {}
    BY <1>1, <2>1 DEF queueCleen, Queued, StoredIn
  <2>2. Abstract!Clear
    BY <1>1, <2>1 DEF queueCleen, Remaining, NoScan, Abstract!Clear,
                      Abstract!NoScan
  <2> QED BY <2>2 DEF Abstract!Next
<1>2. ASSUME NEW r \in Rates, NEW c \in Clients, queueAdd(r, c)
      PROVE  [Abstract!Next]_(Abstract!vars)
  <2>0. scan = NoScan /\ UNCHANGED <<pos, scan, tempClientIdx>>
    BY <1>2 DEF queueAdd
  <2>1. ASSUME NEW k \in Slots, FirstFree(r, k),
               rate' = [rate EXCEPT ![r][k] = c]
        PROVE  Abstract!Register(r, c)
    <3>1. \A q \in Rates, i \in Slots :
            rate'[q][i] = IF q = r /\ i = k THEN c ELSE rate[q][i]
      BY <2>1 DEF IInv, TypeOK
    <3>2. c # EMPTY /\ rate[r][k] = EMPTY
      BY <2>1 DEF FirstFree
    <3>3. Queued(r)' = Queued(r) \union {c}
      BY <3>1, <3>2 DEF Queued, StoredIn
    <3>4. ASSUME NEW q \in Rates, q # r PROVE Queued(q)' = Queued(q)
      BY <3>1, <3>4 DEF Queued, StoredIn
    <3>5. [q \in Rates |-> Queued(q)]' =
            [[q \in Rates |-> Queued(q)] EXCEPT ![r] = @ \union {c}]
      BY <3>3, <3>4
    <3> QED
      BY <2>0, <3>5 DEF Remaining, NoScan, Abstract!Register, Abstract!NoScan
  <2>2. CASE UNCHANGED rate
    BY <2>0, <2>2, SameLanes DEF Remaining, Abstract!vars
  <2> QED BY <1>2, <2>1, <2>2 DEF queueAdd, Abstract!Next
<1>3. ASSUME NEW r \in Rates, queueGetFirst(r)
      PROVE  Abstract!Next
  <2>0. 0 \in Slots
    OBVIOUS
  <2>1. Queued(r) = StoredIn(r, {k \in Slots : k >= 0})
    <3>1. {k \in Slots : k >= 0} = Slots
      OBVIOUS
    <3> QED BY <3>1 DEF Queued, StoredIn
  <2>2. Abstract!HandOut(r, Queued(r))
    <3>1. rate' = rate /\ pos' = [pos EXCEPT ![r] = 0] /\ Return(r, rate[r][0])
      BY <1>3 DEF queueGetFirst
    <3> QED BY <2>0, <2>1, <3>1, ReturnHandsOut
  <2>3. Abstract!First(r)
    BY <1>3, <2>2, SameLanes DEF queueGetFirst, NoScan, Abstract!First,
                                 Abstract!NoScan
  <2> QED BY <2>3 DEF Abstract!Next
<1>4. ASSUME NEW r \in Rates, queueGetNext(r)
      PROVE  Abstract!Next
  <2>0. scan = r /\ rate' = rate /\ r # NoScan
    BY <1>4 DEF queueGetNext
  <2>1. Abstract!HandOut(r, Remaining)
    <3>1. CASE pos[r] + 1 = MAX_CLIENT_NUM
      <4>1. Remaining = {}
        BY <2>0, <3>1 DEF IInv, TypeOK, Remaining, StoredIn
      <4>2. scan' = NoScan /\ tempClientIdx' = EMPTY
        BY <1>4, <3>1 DEF queueGetNext, Return
      <4> QED
        BY <4>1, <4>2 DEF Remaining, NoScan, Abstract!HandOut,
                          Abstract!EMPTY, Abstract!NoScan
    <3>2. CASE pos[r] + 1 # MAX_CLIENT_NUM
      <4> DEFINE next == pos[r] + 1
      <4>1. next \in Slots
        BY <3>2 DEF IInv, TypeOK
      <4>2. {k \in Slots : k > pos[r]} = {k \in Slots : k >= next}
        BY DEF IInv, TypeOK
      <4>3. pos' = [pos EXCEPT ![r] = next] /\ Return(r, rate[r][next])
        BY <1>4, <3>2 DEF queueGetNext
      <4>4. Remaining = StoredIn(r, {k \in Slots : k >= next})
        BY <2>0, <4>2 DEF Remaining
      <4> HIDE DEF next
      <4> QED BY <2>0, <4>1, <4>3, <4>4, ReturnHandsOut
    <3> QED BY <3>1, <3>2
  <2>2. Abstract!Following(r)
    BY <2>0, <2>1, SameLanes DEF Abstract!Following
  <2> QED BY <2>2 DEF Abstract!Next
<1>5. CASE UNCHANGED vars
  BY <1>5, SameLanes DEF vars, Remaining, StoredIn, Abstract!vars
<1> QED
  BY <1>1, <1>2, <1>3, <1>4, <1>5 DEF Next

\* client_queue.c implements PollList for lanes of every size: a scan hands
\* out each client of its lane exactly once and ends.
THEOREM QueueRefinesPollList == Spec => ImplementsPollList
<1>1. Abstract!Spec <=> Abstract!Init /\ [][Abstract!Next]_(Abstract!vars)
  BY DEF Abstract!Spec
<1> QED
  BY QueueInvariant, InitRefines, StepRefines, <1>1, PTL
     DEF Spec, ImplementsPollList
=============================================================================
