------------------------ MODULE DedupedJobQueueProofs ------------------------
(***************************************************************************)
(* Proofs, for any set of jobs, that the linked list of DedupedJobQueue is *)
(* well formed and implements the queue that JobQueue promises.            *)
(***************************************************************************)
EXTENDS DedupedJobQueue, TLAPS

\* The types and the shape of the list are inductive together: shift() and
\* clear() need the shape to stay within the types.
IInv == TypeOK /\ ListMatchesOrder

LEMMA InitIInv == Init => IInv
<1> SUFFICES ASSUME Init PROVE IInv
  OBVIOUS
<1>1. head \in Jobs \cup {None} /\ tail \in Jobs \cup {None} /\ size \in Nat
  BY DEF Init
<1>2. next \in [Jobs -> Jobs \cup {None}] /\ prev \in [Jobs -> Jobs \cup {None}]
  BY DEF Init
<1>3. slot \in SUBSET Jobs /\ clearing \in BOOLEAN /\ out \in Jobs \cup Nat \cup {None}
  BY DEF Init
<1>4. order \in Seq(Jobs) /\ cleared \in Nat /\ Len(order) = 0
  BY DEF Init
<1>5. ListMatchesOrder
  BY <1>4 DEF Init, ListMatchesOrder
<1> QED
  BY <1>1, <1>2, <1>3, <1>4, <1>5 DEF IInv, TypeOK

\* enqueue() of a job that is not in the list.
LEMMA EnqueueNewKeepsIInv == ASSUME NEW j \in Jobs, IInv, EnqueueNew(j) PROVE IInv'
<1> USE JobsAssumption
<1> DEFINE n == Len(order)
<1>1. n \in Nat /\ Len(order') = n + 1 /\ order' \in Seq(Jobs) /\ cleared = 0 /\ ~clearing
  BY DEF IInv, TypeOK, ListMatchesOrder, EnqueueNew
<1>2. /\ \A i \in 1..n : order'[i] = order[i] /\ order[i] \in Jobs
      /\ order'[n + 1] = j
  BY <1>1 DEF IInv, TypeOK, EnqueueNew
<1>3. \A i \in 1..n : order[i] # j
  BY <1>1 DEF IInv, TypeOK, ListMatchesOrder, EnqueueNew
<1>4. TypeOK'
  BY <1>1 DEF IInv, TypeOK, EnqueueNew
<1>5. tail = (IF n = 0 THEN None ELSE order[n])
  BY <1>1 DEF IInv, TypeOK, ListMatchesOrder
<1>6. cleared' <= Len(order') /\ (~clearing' => cleared' = 0) /\ size' = Len(order')
  BY <1>1 DEF IInv, TypeOK, ListMatchesOrder, EnqueueNew
<1>7. \A i, k \in 1..Len(order') : order'[i] = order'[k] => i = k
  BY <1>1, <1>2, <1>3 DEF IInv, ListMatchesOrder
<1>8. slot' = {order'[i] : i \in (cleared' + 1)..Len(order')}
  <2>1. slot = {order[i] : i \in 1..n}
    BY <1>1 DEF IInv, ListMatchesOrder
  <2>2. 1..(n + 1) = (1..n) \cup {n + 1}
    BY <1>1
  <2> QED
    BY <1>1, <1>2, <2>1, <2>2 DEF EnqueueNew
<1>9. head' = IF cleared' = Len(order') THEN None ELSE order'[cleared' + 1]
  BY <1>1, <1>2, <1>5 DEF IInv, ListMatchesOrder, EnqueueNew
<1>10. tail' = IF order' = <<>> THEN None ELSE order'[Len(order')]
  BY <1>1, <1>2 DEF EnqueueNew
<1>11. \A i \in (cleared' + 1)..Len(order') :
         next'[order'[i]] = IF i = Len(order') THEN None ELSE order'[i + 1]
  <2> SUFFICES ASSUME NEW i \in 1..(n + 1)
               PROVE  next'[order'[i]] = IF i = n + 1 THEN None ELSE order'[i + 1]
    BY <1>1 DEF EnqueueNew
  <2>1. CASE i = n + 1
    BY <2>1, <1>1, <1>2, <1>3, <1>5 DEF EnqueueNew
  <2>2. CASE i = n
    BY <2>2, <1>1, <1>2, <1>3, <1>5 DEF EnqueueNew
  <2>3. CASE i < n
    <3>1. order[i] # tail /\ order[i] # j /\ order[i] \in Jobs
      BY <2>3, <1>1, <1>2, <1>3, <1>5 DEF IInv, ListMatchesOrder
    <3>2. next[order[i]] = order[i + 1]
      BY <2>3, <1>1 DEF IInv, ListMatchesOrder
    <3> QED
      BY <2>3, <3>1, <3>2, <1>1, <1>2 DEF EnqueueNew
  <2> QED
    BY <2>1, <2>2, <2>3, <1>1
<1>12. \A i \in 1..Len(order') :
         prev'[order'[i]] = IF i = 1 THEN None ELSE order'[i - 1]
  <2> SUFFICES ASSUME NEW i \in 1..(n + 1)
               PROVE  prev'[order'[i]] = IF i = 1 THEN None ELSE order'[i - 1]
    BY <1>1
  <2>1. CASE i = n + 1
    BY <2>1, <1>1, <1>2, <1>5 DEF EnqueueNew, IInv, TypeOK
  <2>2. CASE i \in 1..n
    BY <2>2, <1>1, <1>2, <1>3 DEF EnqueueNew, IInv, TypeOK, ListMatchesOrder
  <2> QED
    BY <2>1, <2>2, <1>1
<1> QED
  BY <1>1, <1>4, <1>6, <1>7, <1>8, <1>9, <1>10, <1>11, <1>12
  DEF IInv, ListMatchesOrder, EnqueueNew

\* shift() of a list that is not empty.
LEMMA ShiftEntryKeepsIInv == ASSUME IInv, ShiftEntry PROVE IInv'
<1> USE JobsAssumption
<1> DEFINE n == Len(order)
<1>1. n \in Nat \ {0} /\ cleared = 0 /\ ~clearing /\ head = order[1] /\ order # <<>>
  <2>1. n \in Nat /\ cleared = 0 /\ ~clearing /\ head # None
    BY DEF IInv, TypeOK, ListMatchesOrder, ShiftEntry
  <2>2. n # 0 /\ head = order[1]
    BY <2>1 DEF IInv, ListMatchesOrder
  <2> QED
    BY <2>1, <2>2 DEF IInv, TypeOK
<1>2. /\ Len(order') = n - 1 /\ order' \in Seq(Jobs)
      /\ \A i \in 1..(n - 1) : order'[i] = order[i + 1]
      /\ \A i \in 1..n : order[i] \in Jobs
  BY <1>1 DEF IInv, TypeOK, ShiftEntry
<1>3. \A i, k \in 1..n : order[i] = order[k] => i = k
  BY DEF IInv, ListMatchesOrder
<1>4. head' = IF n = 1 THEN None ELSE order[2]
  BY <1>1 DEF IInv, ListMatchesOrder, ShiftEntry
<1>5. TypeOK'
  BY <1>1, <1>2, <1>4 DEF IInv, TypeOK, ListMatchesOrder, ShiftEntry
<1>6. cleared' <= Len(order') /\ (~clearing' => cleared' = 0) /\ size' = Len(order')
  BY <1>1, <1>2 DEF IInv, ListMatchesOrder, ShiftEntry
<1>7. \A i, k \in 1..Len(order') : order'[i] = order'[k] => i = k
  BY <1>1, <1>2, <1>3
<1>8. slot' = {order'[i] : i \in (cleared' + 1)..Len(order')}
  <2>1. slot = {order[i] : i \in 1..n}
    BY <1>1 DEF IInv, ListMatchesOrder
  <2>2. slot' = {order[i] : i \in 2..n}
    BY <2>1, <1>1, <1>3 DEF ShiftEntry
  <2>3. {order[i] : i \in 2..n} = {order[i + 1] : i \in 1..(n - 1)}
    <3>1. \A i \in 2..n : i - 1 \in 1..(n - 1) /\ (i - 1) + 1 = i
      BY <1>1
    <3>2. \A i \in 1..(n - 1) : i + 1 \in 2..n
      BY <1>1
    <3> QED
      BY <3>1, <3>2
  <2>4. {order'[i] : i \in 1..(n - 1)} = {order[i + 1] : i \in 1..(n - 1)}
    BY <1>2
  <2>5. (cleared' + 1)..Len(order') = 1..(n - 1)
    BY <1>1, <1>2 DEF ShiftEntry
  <2> QED
    BY <2>2, <2>3, <2>4, <2>5
<1>9. head' = IF cleared' = Len(order') THEN None ELSE order'[cleared' + 1]
  BY <1>1, <1>2, <1>4 DEF ShiftEntry
<1>10. tail' = IF order' = <<>> THEN None ELSE order'[Len(order')]
  <2>1. tail = order[n]
    BY <1>1 DEF IInv, ListMatchesOrder
  <2>2. order' = <<>> <=> n = 1
    BY <1>1, <1>2
  <2>3. n # 1 => head' # None /\ order'[n - 1] = order[n]
    BY <1>1, <1>2, <1>4
  <2> QED
    BY <2>1, <2>2, <2>3, <1>1, <1>2, <1>4 DEF ShiftEntry
<1>11. \A i \in (cleared' + 1)..Len(order') :
         next'[order'[i]] = IF i = Len(order') THEN None ELSE order'[i + 1]
  BY <1>1, <1>2, <1>3 DEF IInv, TypeOK, ListMatchesOrder, ShiftEntry
<1>12. \A i \in 1..Len(order') :
         prev'[order'[i]] = IF i = 1 THEN None ELSE order'[i - 1]
  <2> SUFFICES ASSUME NEW i \in 1..(n - 1)
               PROVE  prev'[order'[i]] = IF i = 1 THEN None ELSE order'[i - 1]
    BY <1>1, <1>2
  <2>1. CASE i = 1
    BY <2>1, <1>1, <1>2, <1>4 DEF ShiftEntry
  <2>2. CASE i # 1
    <3>1. order[i + 1] \notin {order[1], order[2]}
      BY <2>2, <1>1, <1>3
    <3>2. prev[order[i + 1]] = order[i]
      BY <2>2, <1>1 DEF IInv, ListMatchesOrder
    <3> QED
      BY <2>2, <3>1, <3>2, <1>1, <1>2, <1>4 DEF ShiftEntry
  <2> QED
    BY <2>1, <2>2
<1> QED
  BY <1>5, <1>6, <1>7, <1>8, <1>9, <1>10, <1>11, <1>12 DEF IInv, ListMatchesOrder

\* One iteration of the loop of clear().
LEMMA ClearEntryKeepsIInv == ASSUME IInv, ClearEntry PROVE IInv'
<1> USE JobsAssumption
<1> DEFINE n == Len(order)
<1>1. n \in Nat /\ clearing /\ cleared \in 0..(n - 1) /\ head = order[cleared + 1]
  BY DEF IInv, TypeOK, ListMatchesOrder, ClearEntry
<1>2. \A i \in 1..n : order[i] \in Jobs
  BY DEF IInv, TypeOK
<1>3. \A i, k \in 1..n : order[i] = order[k] => i = k
  BY DEF IInv, ListMatchesOrder
<1>4. head' = IF cleared + 1 = n THEN None ELSE order[cleared + 2]
  BY <1>1 DEF IInv, ListMatchesOrder, ClearEntry
<1>5. TypeOK'
  BY <1>1, <1>2, <1>4 DEF IInv, TypeOK, ClearEntry
<1>6. slot' = {order[i] : i \in (cleared + 2)..n}
  <2>1. slot = {order[i] : i \in (cleared + 1)..n}
    BY DEF IInv, ListMatchesOrder
  <2>2. slot' = {order[i] : i \in (cleared + 1)..n} \ {order[cleared + 1]}
    BY <1>1, <2>1 DEF ClearEntry
  <2>3. \A i \in (cleared + 1)..n : order[i] = order[cleared + 1] <=> i = cleared + 1
    BY <1>1, <1>3
  <2>4. \A i : i \in (cleared + 2)..n <=> (i \in (cleared + 1)..n /\ i # cleared + 1)
    BY <1>1
  <2> QED
    BY <2>2, <2>3, <2>4
<1>7. \A i \in (cleared + 2)..n : next'[order[i]] = IF i = n THEN None ELSE order[i + 1]
  BY <1>1, <1>2, <1>3 DEF IInv, TypeOK, ListMatchesOrder, ClearEntry
<1> QED
  BY <1>1, <1>3, <1>4, <1>5, <1>6, <1>7 DEF IInv, ListMatchesOrder, ClearEntry

\* Every step of the queue keeps the inductive invariant.
LEMMA NextKeepsIInv == IInv /\ [Next]_vars => IInv'
<1> SUFFICES ASSUME IInv, [Next]_vars PROVE IInv'
  OBVIOUS
<1>1. ASSUME NEW j \in Jobs, EnqueueNew(j) PROVE IInv'
  BY <1>1, EnqueueNewKeepsIInv
<1>2. CASE ShiftEntry
  BY <1>2, ShiftEntryKeepsIInv
<1>3. CASE ClearEntry
  BY <1>3, ClearEntryKeepsIInv
<1>4. CASE ShiftEmpty
  BY <1>4 DEF IInv, TypeOK, ListMatchesOrder, ShiftEmpty
<1>5. CASE Size
  BY <1>5 DEF IInv, TypeOK, ListMatchesOrder, Size
<1>6. CASE ClearBegin
  BY <1>6 DEF IInv, TypeOK, ListMatchesOrder, ClearBegin
<1>7. CASE ClearEnd
  <2>1. slot = {}
    BY <1>7, JobsAssumption DEF IInv, TypeOK, ListMatchesOrder, ClearEnd
  <2>2. order' \in Seq(Jobs) /\ Len(order') = 0 /\ order' = <<>> /\ cleared' = 0
    BY <1>7 DEF ClearEnd
  <2>3. TypeOK'
    <3>1. UNCHANGED <<head, next, prev, slot, out>>
      BY <1>7 DEF ClearEnd
    <3>2. tail' = None /\ size' = 0 /\ clearing' = FALSE
      BY <1>7 DEF ClearEnd
    <3> QED
      BY <2>2, <3>1, <3>2 DEF IInv, TypeOK
  <2>4. ListMatchesOrder'
    BY <1>7, <2>1, <2>2 DEF ListMatchesOrder, ClearEnd
  <2> QED
    BY <2>3, <2>4 DEF IInv
<1>8. CASE UNCHANGED vars
  BY <1>8 DEF IInv, TypeOK, ListMatchesOrder, vars
<1> QED
  BY <1>1, <1>2, <1>3, <1>4, <1>5, <1>6, <1>7, <1>8 DEF Next, EnqueueAgain

\* The variables of the list always have their types.
THEOREM QueueTypeCorrect == Spec => []TypeOK
<1>1. IInv => TypeOK
  BY DEF IInv
<1> QED
  BY <1>1, InitIInv, NextKeepsIInv, PTL DEF Spec

\* The list is always linked in the order of arrival, and slots mark exactly
\* its members, also between two iterations of clear().
THEOREM QueueListShape == Spec => []ListMatchesOrder
<1>1. IInv => ListMatchesOrder
  BY DEF IInv
<1> QED
  BY <1>1, InitIInv, NextKeepsIInv, PTL DEF Spec

\* Every call of the list is a call of the abstract queue with the same
\* result; the iterations of clear() but the last one are stutters.
THEOREM QueueImplementsJobQueue == Spec => ImplementsJobQueue
<1>1. Init => Abstract!Init
  BY DEF Init, Abstract!Init
<1>2. IInv /\ [Next]_vars => [Abstract!Next]_(Abstract!vars)
  <2> SUFFICES ASSUME IInv, [Next]_vars PROVE [Abstract!Next]_(Abstract!vars)
    OBVIOUS
  <2> USE DEF IInv, TypeOK
  <2>1. ASSUME NEW j \in Jobs, EnqueueNew(j) PROVE Abstract!Enqueue(j)
    <3>1. j \notin Abstract!Range(order)
      BY <2>1 DEF EnqueueNew, ListMatchesOrder, Abstract!Range
    <3> QED
      BY <2>1, <3>1 DEF EnqueueNew, Abstract!Enqueue
  <2>2. CASE ShiftEmpty
    <3>1. order = <<>>
      <4>1. order \in Seq(Jobs)
        OBVIOUS
      <4>2. cleared = 0 /\ None = IF cleared = Len(order) THEN None ELSE order[cleared + 1]
        BY <2>2, Zenon DEF ShiftEmpty, ListMatchesOrder
      <4>3. ASSUME Len(order) # 0 PROVE order[1] \in Jobs
        BY <4>1, <4>3
      <4>4. Len(order) = 0
        BY <4>2, <4>3, JobsAssumption
      <4> QED
        BY <4>1, <4>4
    <3> QED
      BY <2>2, <3>1 DEF ShiftEmpty, Abstract!Next, Abstract!Shift
  <2>3. CASE ShiftEntry
    <3>1. Len(order) # 0 /\ head = order[1]
      BY <2>3, JobsAssumption DEF ShiftEntry, ListMatchesOrder
    <3>2. order # <<>> /\ head = Head(order)
      BY <3>1
    <3> QED
      BY <2>3, <3>2 DEF ShiftEntry, Abstract!Next, Abstract!Shift
  <2>4. CASE Size
    BY <2>4 DEF Size, ListMatchesOrder, Abstract!Next, Abstract!Size
  <2>5. CASE ClearBegin \/ ClearEntry
    BY <2>5 DEF ClearBegin, ClearEntry, Abstract!vars
  <2>6. CASE ClearEnd
    BY <2>6 DEF ClearEnd, Abstract!Next, Abstract!Clear
  <2>7. CASE UNCHANGED vars
    BY <2>7 DEF vars, Abstract!vars
  <2>8. ASSUME NEW j \in Jobs, EnqueueAgain(j) PROVE UNCHANGED vars
    BY <2>8 DEF EnqueueAgain
  <2> QED
    BY <2>1, <2>2, <2>3, <2>4, <2>5, <2>6, <2>7, <2>8 DEF Next, Abstract!Next
<1> QED
  BY <1>1, <1>2, InitIInv, NextKeepsIInv, PTL DEF Spec, ImplementsJobQueue, Abstract!Spec
=============================================================================
