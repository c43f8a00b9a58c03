------------------------------- MODULE JobQueue -------------------------------
(***************************************************************************)
(* What the interface DedupedJobQueue promises: a first-in first-out queue *)
(* that holds a job at most once.                                          *)
(***************************************************************************)
EXTENDS Naturals, SequencesExt

CONSTANTS Jobs, None

VARIABLES queue,  \* the jobs waiting, oldest first
          out     \* what the last call that returns something returned

vars == <<queue, out>>

Init == queue = <<>> /\ out = None

\* A job that is waiting already keeps its place.
Enqueue(j) ==
  /\ queue' = IF j \in Range(queue) THEN queue ELSE Append(queue, j)
  /\ UNCHANGED out

Shift ==
  \/ queue = <<>> /\ out' = None /\ UNCHANGED queue
  \/ queue # <<>> /\ out' = Head(queue) /\ queue' = Tail(queue)

Size == out' = Len(queue) /\ UNCHANGED queue

Clear == queue' = <<>> /\ UNCHANGED out

Next == (\E j \in Jobs : Enqueue(j)) \/ Shift \/ Size \/ Clear

Spec == Init /\ [][Next]_vars
=============================================================================
