--------------------------- MODULE DedupedJobQueue ---------------------------
(***************************************************************************)
(* dedupedJobQueue.ts: the doubly linked list behind the scheduler's queue *)
(* of computed jobs.  An entry of the list is named by the job it carries: *)
(* the slot of a job holds at most one entry, so a job names its entry as  *)
(* long as the entry is in the list, and an entry that has left the list   *)
(* is garbage.  The loop of clear() is taken one iteration at a time.      *)
(***************************************************************************)
EXTENDS Naturals, SequencesExt

CONSTANTS Jobs, None

ASSUME JobsAssumption == None \notin Jobs /\ None \notin Nat /\ Jobs \cap Nat = {}

VARIABLES
  head, tail, size,  \* the variables of the closure
  next, prev,        \* the links of the entry of a job
  slot,              \* the jobs whose QueueSlot property is set
  clearing,          \* clear() is in its loop
  out,               \* what the last call that returns something returned
  order,             \* history: the jobs of the list, oldest first
  cleared            \* history: how many of them clear() has passed

vars == <<head, tail, size, next, prev, slot, clearing, out, order, cleared>>

Init ==
  /\ head = None /\ tail = None /\ size = 0
  /\ next = [j \in Jobs |-> None] /\ prev = [j \in Jobs |-> None]
  /\ slot = {} /\ clearing = FALSE /\ out = None
  /\ order = <<>> /\ cleared = 0

EnqueueAgain(j) == ~clearing /\ j \in slot /\ UNCHANGED vars

\* Mutant of EnqueueNew: tail stays behind when the list is not empty.
EnqueueBehind(j) ==
  /\ ~clearing /\ j \notin slot
  /\ prev' = [prev EXCEPT ![j] = tail]
  /\ next' = [k \in Jobs |-> IF k = tail THEN j ELSE IF k = j THEN None ELSE next[k]]
  /\ head' = IF tail = None THEN j ELSE head
  /\ tail' = IF tail = None THEN j ELSE tail
  /\ size' = size + 1 /\ slot' = slot \cup {j}
  /\ order' = Append(order, j)
  /\ UNCHANGED <<clearing, out, cleared>>

\* Mutant of EnqueueNew: the entry is not counted.
EnqueueUncounted(j) ==
  /\ ~clearing /\ j \notin slot
  /\ prev' = [prev EXCEPT ![j] = tail]
  /\ next' = [k \in Jobs |-> IF k = tail THEN j ELSE IF k = j THEN None ELSE next[k]]
  /\ head' = IF tail = None THEN j ELSE head
  /\ tail' = j /\ slot' = slot \cup {j}
  /\ order' = Append(order, j)
  /\ UNCHANGED <<size, clearing, out, cleared>>

EnqueueNew(j) ==
  /\ ~clearing /\ j \notin slot
  /\ prev' = [prev EXCEPT ![j] = tail]
  /\ next' = [k \in Jobs |-> IF k = tail THEN j ELSE IF k = j THEN None ELSE next[k]]
  /\ head' = IF tail = None THEN j ELSE head
  /\ tail' = j
  /\ size' = size + 1 /\ slot' = slot \cup {j}
  /\ order' = Append(order, j)
  /\ UNCHANGED <<clearing, out, cleared>>

ShiftEmpty ==
  /\ ~clearing /\ head = None
  /\ out' = None
  /\ UNCHANGED <<head, tail, size, next, prev, slot, clearing, order, cleared>>

\* Mutant of ShiftEntry: the slot of the job is not cleared.
ShiftEntryKeepSlot ==
  /\ ~clearing /\ head # None
  /\ head' = next[head]
  /\ tail' = IF head' = None THEN None ELSE tail
  /\ next' = [next EXCEPT ![head] = None]
  /\ prev' = [j \in Jobs |-> IF j \in {head, head'} THEN None ELSE prev[j]]
  /\ size' = size - 1
  /\ out' = head
  /\ order' = Tail(order)
  /\ UNCHANGED <<slot, clearing, cleared>>

ShiftEntry ==
  /\ ~clearing /\ head # None
  /\ head' = next[head]
  /\ tail' = IF head' = None THEN None ELSE tail
  /\ next' = [next EXCEPT ![head] = None]
  /\ prev' = [j \in Jobs |-> IF j \in {head, head'} THEN None ELSE prev[j]]
  /\ size' = size - 1 /\ slot' = slot \ {head}
  /\ out' = head
  /\ order' = Tail(order)
  /\ UNCHANGED <<clearing, cleared>>

Size ==
  /\ ~clearing
  /\ out' = size
  /\ UNCHANGED <<head, tail, size, next, prev, slot, clearing, order, cleared>>

ClearBegin ==
  /\ ~clearing /\ clearing' = TRUE
  /\ UNCHANGED <<head, tail, size, next, prev, slot, out, order, cleared>>

\* One iteration of while (head).
ClearEntry ==
  /\ clearing /\ head # None
  /\ slot' = slot \ {head}
  /\ prev' = [prev EXCEPT ![head] = None]
  /\ next' = [next EXCEPT ![head] = None]
  /\ head' = next[head]
  /\ cleared' = cleared + 1
  /\ UNCHANGED <<tail, size, clearing, out, order>>

\* Mutant of ClearEnd: size is not reset.
ClearEndKeepSize ==
  /\ clearing /\ head = None
  /\ tail' = None
  /\ clearing' = FALSE /\ order' = <<>> /\ cleared' = 0
  /\ UNCHANGED <<head, size, next, prev, slot, out>>

ClearEnd ==
  /\ clearing /\ head = None
  /\ tail' = None /\ size' = 0
  /\ clearing' = FALSE /\ order' = <<>> /\ cleared' = 0
  /\ UNCHANGED <<head, next, prev, slot, out>>

Next ==
  \/ \E j \in Jobs : EnqueueAgain(j) \/ EnqueueNew(j)
  \/ ShiftEmpty \/ ShiftEntry
  \/ Size
  \/ ClearBegin \/ ClearEntry \/ ClearEnd

Spec == Init /\ [][Next]_vars

-----------------------------------------------------------------------------
\* Every variable has its type.
TypeOK ==
  /\ head \in Jobs \cup {None} /\ tail \in Jobs \cup {None} /\ size \in Nat
  /\ next \in [Jobs -> Jobs \cup {None}] /\ prev \in [Jobs -> Jobs \cup {None}]
  /\ slot \in SUBSET Jobs /\ clearing \in BOOLEAN
  /\ out \in Jobs \cup Nat \cup {None}
  /\ order \in Seq(Jobs) /\ cleared \in Nat

\* The entries that clear() has not passed are linked, both ways, in the order
\* the jobs came in; a job carries a slot iff its entry is among them, so no
\* job is in the list twice, none is lost, and none that left keeps a slot
\* that would bar it from coming back.
ListMatchesOrder ==
  /\ cleared <= Len(order) /\ (~clearing => cleared = 0)
  /\ size = Len(order)
  /\ \A i, j \in 1..Len(order) : order[i] = order[j] => i = j
  /\ slot = {order[i] : i \in (cleared + 1)..Len(order)}
  /\ head = IF cleared = Len(order) THEN None ELSE order[cleared + 1]
  /\ ~clearing => tail = IF order = <<>> THEN None ELSE order[Len(order)]
  /\ \A i \in (cleared + 1)..Len(order) :
       next[order[i]] = IF i = Len(order) THEN None ELSE order[i + 1]
  /\ ~clearing => \A i \in 1..Len(order) :
       prev[order[i]] = IF i = 1 THEN None ELSE order[i - 1]

\* The linked list implements the queue its interface promises.
Abstract == INSTANCE JobQueue WITH queue <- order
ImplementsJobQueue == Abstract!Spec
=============================================================================
