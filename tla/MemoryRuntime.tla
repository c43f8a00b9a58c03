---------------------------- MODULE MemoryRuntime ----------------------------
(***************************************************************************)
(* The memory of an assistant: retainTurn() extracts candidate facts,      *)
(* plans against a snapshot of the driver and applies the plan, or restores*)
(* the snapshot when an action of it fails; the context recalls facts for  *)
(* the current message whenever the message or the memory changes; and the *)
(* model stream answers from what was recalled.                            *)
(*                                                                         *)
(* A fact is named by the candidate it comes from.  Which facts a message  *)
(* asks for, their text and what the extractor proposes are data: a recall *)
(* finds every active fact, and a plan may be any.  One scope.  A recall or*)
(* a stream that was superseded does nothing any more (FromPromise,        *)
(* StreamResource), so there is one of each.                               *)
(***************************************************************************)
EXTENDS Integers

CONSTANTS Turns,      \* the calls of retainTurn
          PlanSize,   \* bound: the actions of a plan
          Messages, NoMessage,
          MaxMessages \* bound: messages set

Seed == <<"seed", 0>>
Candidates == Turns \X (1 .. PlanSize)
Facts == Candidates \cup {Seed}
NoSnapshot == [f \in Facts |-> "absent"]
NoAnswer == [message |-> NoMessage, facts |-> {}]

VARIABLES
  memory,            \* factsByScope: absent, active, superseded, or merged into another
  turn, before,      \* how far each retainTurn is, and its snapshot
  retainStatus,      \* the status in retainState
  message,           \* currentUserMessage
  dirty,             \* the effect of the recall resource is scheduled
  recall, asked, got,\* the newest recall: how far it is, its message, what it found
  status, recalled,  \* the signals of the recall resource
  redo,              \* the effect of the stream resource is scheduled
  stream, source,    \* its newest run: how far it is, and its input
  streamStatus, text,\* what it shows: the message and the facts a text was made from
  applied,           \* history: the candidates a turn has written, when its plan went through
  overlaps,          \* history: pairs of turns that were between snapshot and outcome at once
  messages

driver == <<memory, before, applied, overlaps>>
recaller == <<recall, asked, got, status, recalled>>
streamer == <<stream, source, streamStatus, text>>
vars == <<driver, turn, retainStatus, message, messages, dirty, recaller, redo, streamer>>

\* What a recall finds: which of the active facts match the message is left out.
Active == {f \in Facts : memory[f] = "active"}
Writing == {"consolidating", "applied", "failing", "restored"}

Init ==
  /\ memory = [f \in Facts |-> IF f = Seed THEN "active" ELSE "absent"]
  /\ turn = [t \in Turns |-> "none"] /\ before = [t \in Turns |-> NoSnapshot]
  /\ applied = [t \in Turns |-> {}] /\ overlaps = {}
  /\ retainStatus = "idle"
  /\ message \in Messages /\ messages = 0
  /\ dirty = FALSE /\ recall = "sent" /\ asked = message /\ got = {}
  /\ status = "pending" /\ recalled = {}
  /\ redo = TRUE /\ stream = "none" /\ source = NoAnswer
  /\ streamStatus = "idle" /\ text = NoAnswer

-----------------------------------------------------------------------------
(* retainTurn *)

At(t, a) == turn' = [turn EXCEPT ![t] = a]

RetainTurn(t) ==
  /\ turn[t] = "none"
  /\ At(t, "extracting") /\ retainStatus' = "extracting"
  /\ UNCHANGED <<driver, message, messages, dirty, recaller, redo, streamer>>

Extracted(t) ==
  /\ turn[t] = "extracting"
  /\ At(t, "inspecting") /\ retainStatus' = "consolidating"
  /\ UNCHANGED <<driver, message, messages, dirty, recaller, redo, streamer>>

Inspected(t) ==
  /\ turn[t] = "inspecting"
  /\ At(t, "consolidating") /\ before' = [before EXCEPT ![t] = memory]
  /\ overlaps' = overlaps \cup {{t, u} : u \in {u \in Turns : turn[u] \in Writing}}
  /\ UNCHANGED <<memory, applied, retainStatus, message, messages, dirty, recaller, redo, streamer>>

\* extract() or consolidate() rejects, and so does retainTurn: the status stays.
RetainRejected(t) ==
  /\ turn[t] \in {"extracting", "consolidating"}
  /\ At(t, "rejected") /\ before' = [before EXCEPT ![t] = NoSnapshot]
  /\ UNCHANGED <<memory, applied, overlaps, retainStatus, message, messages, dirty, recaller, redo, streamer>>

\* The actions a plan may hold: what they aim at was active in the snapshot.  How
\* sure, how alike and how contrary a candidate is decides which; here any may be.
Actions(t) == [type : {"merge", "supersede"}, target : {f \in Facts : before[t][f] = "active"}]
              \cup [type : {"insert", "skip"}, target : {Seed}]

\* applyAction for the i-th candidate of a turn.
ApplyAction(m, t, i, action) ==
  CASE action.type = "insert"    -> [m EXCEPT ![<<t, i>>] = "active"]
    [] action.type = "merge"     -> [m EXCEPT ![<<t, i>>] = "merged"]
    [] action.type = "supersede" -> [m EXCEPT ![action.target] = "superseded", ![<<t, i>>] = "active"]
    [] OTHER                     -> m

\* How much of a plan is applied: as far as an injected failure, or an action
\* whose target is not there any more.
Applies(plan, k) == \A i \in 1 .. k : memory[plan[i].target] # "absent"

\* What a turn makes of a memory with the first k actions of its plan.
Applied(m, t, plan, k) ==
  LET after[i \in 0 .. k] == IF i = 0 THEN m ELSE ApplyAction(after[i - 1], t, i, plan[i])
  IN after[k]

\* applyPlan, in one go: the actions before the one that fails stay.
ApplyPlan(t) ==
  /\ turn[t] = "consolidating"
  /\ \E plan \in [1 .. PlanSize -> Actions(t)], k \in 0 .. PlanSize :
       /\ Applies(plan, k)
       /\ memory' = Applied(memory, t, plan, k)
       /\ applied' = IF k < PlanSize THEN applied
                     ELSE [applied EXCEPT ![t] = {<<t, i>> : i \in {i \in 1 .. k : plan[i].type # "skip"}}]
       /\ At(t, IF k = PlanSize THEN "applied" ELSE "failing")
  /\ retainStatus' = "retaining"
  /\ UNCHANGED <<before, overlaps, message, messages, dirty, recaller, redo, streamer>>

\* Mutant of Restore: the partial writes stay.
RestoreNothing(t) ==
  /\ turn[t] = "failing"
  /\ At(t, "restored")
  /\ UNCHANGED <<driver, retainStatus, message, messages, dirty, recaller, redo, streamer>>

\* The catch clause of retainTransaction: the snapshot takes the place of
\* whatever others have written since.
Restore(t) ==
  /\ turn[t] = "failing"
  /\ At(t, "restored")
  /\ memory' = before[t]
  /\ UNCHANGED <<before, applied, overlaps, retainStatus, message, messages, dirty, recaller, redo, streamer>>

\* Mutant of Retained: only a commit is told to the readers.
RetainedQuietly(t) ==
  /\ turn[t] \in {"applied", "restored"}
  /\ before' = [before EXCEPT ![t] = NoSnapshot]
  /\ LET outcome == IF turn[t] = "applied" THEN "committed" ELSE "rolled_back" IN
       At(t, outcome) /\ retainStatus' = outcome /\ dirty' = (dirty \/ outcome = "committed")
  /\ UNCHANGED <<memory, applied, overlaps, message, messages, recaller, redo, streamer>>

\* The outcome is published and the readers of the memory are told.
Retained(t) ==
  /\ turn[t] \in {"applied", "restored"}
  /\ before' = [before EXCEPT ![t] = NoSnapshot]
  /\ LET outcome == IF turn[t] = "applied" THEN "committed" ELSE "rolled_back" IN
       At(t, outcome) /\ retainStatus' = outcome
  /\ dirty' = TRUE
  /\ UNCHANGED <<memory, applied, overlaps, message, messages, recaller, redo, streamer>>

-----------------------------------------------------------------------------
(* The context: recall *)

\* setCurrentUserMessage: a message that is the same again notifies nobody.
SetMessage(m) ==
  /\ messages < MaxMessages /\ messages' = messages + 1
  /\ message' = m
  /\ dirty' = (dirty \/ m # message) /\ redo' = (redo \/ m # message)
  /\ UNCHANGED <<driver, turn, retainStatus, recaller, streamer>>

\* The effect of the resource, with the run it starts: no value while pending.
RecallRuns ==
  /\ dirty
  /\ dirty' = FALSE
  /\ recall' = "sent" /\ asked' = message /\ got' = {}
  /\ status' = "pending" /\ recalled' = {} /\ redo' = TRUE
  /\ UNCHANGED <<driver, turn, retainStatus, message, messages, streamer>>

RecallReads ==
  /\ recall = "sent"
  /\ recall' = "read" /\ got' = Active
  /\ UNCHANGED <<driver, turn, retainStatus, message, messages, dirty, asked, status, recalled, redo, streamer>>

RecallSettles ==
  /\ recall # "none"
  /\ recall' = "none" /\ got' = {}
  /\ \/ recall = "read" /\ status' = "success" /\ recalled' = got
     \/ status' = "error" /\ UNCHANGED recalled
  /\ redo' = TRUE
  /\ UNCHANGED <<driver, turn, retainStatus, message, messages, dirty, asked, streamer>>

CancelRecall ==
  /\ recall # "none"
  /\ recall' = "none" /\ got' = {} /\ status' = "cancelled" /\ redo' = TRUE
  /\ UNCHANGED <<driver, turn, retainStatus, message, messages, dirty, asked, recalled, streamer>>

-----------------------------------------------------------------------------
(* The model stream *)

\* input(): without a successful recall, a run that ends with no text.
StreamInput == IF status = "success" THEN [message |-> message, facts |-> recalled] ELSE NoAnswer

StreamRuns ==
  /\ redo
  /\ redo' = FALSE
  /\ source' = StreamInput
  /\ stream' = "starting" /\ streamStatus' = "pending"
  /\ UNCHANGED <<driver, turn, retainStatus, message, messages, dirty, recaller, text>>

StreamEnds ==
  /\ stream = "starting"
  /\ stream' = "none"
  /\ \/ streamStatus' = "success" /\ text' = source
     \/ streamStatus' = "error" /\ UNCHANGED text
  /\ UNCHANGED <<driver, turn, retainStatus, message, messages, dirty, recaller, redo, source>>

CancelStream ==
  /\ stream = "starting"
  /\ stream' = "none" /\ streamStatus' = "cancelled"
  /\ UNCHANGED <<driver, turn, retainStatus, message, messages, dirty, recaller, redo, source, text>>

-----------------------------------------------------------------------------
RetainGoesOn(t) == Extracted(t) \/ Inspected(t) \/ RetainRejected(t) \/ ApplyPlan(t) \/ Restore(t) \/ Retained(t)
Recalls == RecallRuns \/ RecallReads \/ RecallSettles
Streams == StreamRuns \/ StreamEnds
Users == (\E t \in Turns : RetainTurn(t)) \/ (\E m \in Messages : SetMessage(m)) \/ CancelRecall \/ CancelStream

Next == (\E t \in Turns : RetainGoesOn(t)) \/ Recalls \/ Streams \/ Users

Spec == Init /\ [][Next]_vars

-----------------------------------------------------------------------------
(* Properties *)

\* "Candidate facts must commit atomically or rollback together": of a turn
\* that has ended the memory holds every candidate its plan wrote, or none.
\* The exception: turns that overlap with one that is rolled back.
AtomicRetain ==
  \A t \in {t \in Turns : \A u \in Turns : {t, u} \in overlaps => turn[u] \in {"applied", "committed", "rejected"}} :
    /\ turn[t] = "committed" => \A f \in applied[t] : memory[f] # "absent"
    /\ turn[t] \in {"rolled_back", "rejected"} => \A i \in 1 .. PlanSize : memory[<<t, i>>] = "absent"

\* The same of every turn, as the example claims it.
CommittedStays ==
  \A t \in Turns : turn[t] = "committed" => \A f \in applied[t] : memory[f] # "absent"

AtRest == ~dirty /\ \A t \in Turns : turn[t] \notin {"applied", "failing", "restored"}

\* When no retain is writing and no recall is due, what a successful recall
\* shows is what the memory holds for the current message, and the text of a
\* stream that has ended well was made from it: neither the partial writes of a
\* plan that was undone nor an older message or prompt remain.
ContextIsCurrent ==
  AtRest /\ status = "success" =>
    /\ asked = message /\ recalled = Active
    /\ ~redo /\ streamStatus = "success" => text = [message |-> message, facts |-> Active]
=============================================================================
