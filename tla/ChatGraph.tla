----------------------------- MODULE ChatGraph -----------------------------
(***************************************************************************)
(* The signal-kernel chat: createChatGraph() behind KernelChatPanel.       *)
(*                                                                         *)
(* An answer is the value of a stream resource whose input is the request; *)
(* committing it resets the request, and that starts a run without one.    *)
(* The flush, that run and React's rendering (useSyncExternalStore) are    *)
(* microtasks, over before the next task: a click, or an arrival from the  *)
(* route.  A run that is cancelled still reads its response, for the fetch *)
(* is given no signal.  The input field is left out.                       *)
(***************************************************************************)
EXTENDS ChatMessages

VARIABLES
  messages, activeAssistant, request,  \* the signals; an exchange, or 0 for null
  scheduled,                           \* the effect of the stream waits for the flush
  run, status, text,                   \* of the stream: the request of its newest run
  read,                                \* of each response that is read, how many chunks it had
  view                                 \* what is rendered

signals == <<messages, activeAssistant, request>>
stream == <<run, status, text>>
vars == <<signals, scheduled, stream, read, view>>

NotRead == -1

Init ==
  /\ messages = <<>> /\ activeAssistant = 0 /\ request = 0
  /\ scheduled = FALSE
  /\ run = 0 /\ status = "pending" /\ text = <<>>
  /\ read = [k \in Exchanges |-> NotRead] /\ view = <<>>

Live == status \in {"pending", "streaming"}

-----------------------------------------------------------------------------
(* Microtasks *)

ToAssistantStatus ==
  CASE status = "success"   -> "done"
    [] status = "error"     -> "error"
    [] status = "cancelled" -> "aborted"
    [] OTHER                -> "streaming"

\* visibleMessages of the panel.
VisibleMessages ==
  IF activeAssistant = 0 THEN messages
  ELSE Append(messages, Assistant(activeAssistant, text, ToAssistantStatus))

\* The effect starts a run; one with a request fetches.
Flush ==
  /\ scheduled /\ scheduled' = FALSE
  /\ run' = request /\ status' = "pending" /\ text' = <<>>
  /\ read' = IF request = 0 THEN read ELSE [read EXCEPT ![request] = 0]
  /\ UNCHANGED <<signals, view>>

\* commitAssistant.
CommitAssistant(content, outcome) ==
  IF activeAssistant = 0 THEN UNCHANGED <<signals, scheduled>>
  ELSE /\ messages' = Append(messages, Assistant(activeAssistant, content, outcome))
       /\ activeAssistant' = 0 /\ request' = 0
       /\ scheduled' = (scheduled \/ request # 0)

\* A run without a request: done(""), and onSuccess.
EmptyRun == run = 0 /\ Live
EmptyRunEnds ==
  /\ ~scheduled /\ EmptyRun
  /\ status' = "success" /\ text' = <<>>
  /\ CommitAssistant(<<>>, "done")
  /\ UNCHANGED <<run, read, view>>

Render ==
  /\ ~scheduled /\ view # VisibleMessages
  /\ view' = VisibleMessages
  /\ UNCHANGED <<signals, scheduled, stream, read>>

TaskOver == ~scheduled /\ ~EmptyRun /\ view = VisibleMessages

-----------------------------------------------------------------------------
(* Clicks *)

Submit ==
  /\ TaskOver /\ activeAssistant = 0
  /\ LET k == Len(messages) \div 2 + 1 IN
       /\ k \in Exchanges
       /\ messages' = Append(messages, User(k))
       /\ activeAssistant' = k /\ request' = k
  /\ scheduled' = TRUE
  /\ UNCHANGED <<stream, read, view>>

\* Mutant of Cancel: the text is read when the request has been reset.
CancelLate ==
  /\ TaskOver /\ activeAssistant # 0
  /\ status' = IF Live THEN "cancelled" ELSE status
  /\ CommitAssistant(Kept(<<>>), "aborted")
  /\ UNCHANGED <<run, text, read, view>>

\* meta.cancel(), which keeps the partial text, and the commit.
Cancel ==
  /\ TaskOver /\ activeAssistant # 0
  /\ status' = IF Live THEN "cancelled" ELSE status
  /\ CommitAssistant(Kept(text), "aborted")
  /\ UNCHANGED <<run, text, read, view>>

-----------------------------------------------------------------------------
(* The response *)

Current(k) == run = k /\ Live
Reading(k) == TaskOver /\ read[k] # NotRead

\* emit() does nothing for a run that is not current, which then reads no more.
ReadChunk(k) ==
  /\ Reading(k) /\ read[k] < Sent(k)
  /\ IF Current(k)
     THEN /\ status' = "streaming" /\ read' = [read EXCEPT ![k] = @ + 1]
          /\ text' = Append(text, Last(Partial(k, read[k] + 1)))
     ELSE read' = [read EXCEPT ![k] = NotRead] /\ UNCHANGED <<status, text>>
  /\ UNCHANGED <<signals, scheduled, run, view>>

\* done(content) with what was read, and onSuccess.
ReadEnds(k) ==
  /\ Reading(k) /\ k \notin Interrupted /\ read[k] = Chunks
  /\ read' = [read EXCEPT ![k] = NotRead]
  /\ IF Current(k)
     THEN /\ status' = "success" /\ text' = Partial(k, read[k])
          /\ CommitAssistant(Partial(k, read[k]), "done")
     ELSE UNCHANGED <<status, text, signals, scheduled>>
  /\ UNCHANGED <<run, view>>

\* The response is not ok or breaks: keep-partial, and onErrorEffect.
ReadFails(k) ==
  /\ Reading(k)
  /\ read' = [read EXCEPT ![k] = NotRead]
  /\ IF Current(k)
     THEN status' = "error" /\ CommitAssistant(Kept(text), "error")
     ELSE UNCHANGED <<status, signals, scheduled>>
  /\ UNCHANGED <<run, text, view>>

-----------------------------------------------------------------------------
Microtask == Flush \/ EmptyRunEnds \/ Render
Responds(k) == ReadChunk(k) \/ ReadEnds(k) \/ ReadFails(k)
Next == Microtask \/ Submit \/ Cancel \/ \E k \in Exchanges : Responds(k)

Spec == Init /\ [][Next]_vars

Policy == INSTANCE ChatPolicy

-----------------------------------------------------------------------------
(* Property *)

\* What the panel shows keeps the policy: no second answer beside the first, no
\* chunk of a cancelled run in a later answer, no text lost when a run is
\* cancelled or breaks between any two chunks, and every answer ends.
KernelKeepsPolicy == Policy!Spec
=============================================================================
