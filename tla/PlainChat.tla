----------------------------- MODULE PlainChat -----------------------------
(***************************************************************************)
(* The plain React chat: PlainChatPanel keeps the messages, isStreaming    *)
(* and the controller of the fetch itself.                                 *)
(*                                                                         *)
(* Its handlers are those of the last rendering, so they see the messages  *)
(* and isStreaming of then.  React renders at the end of a submit, and     *)
(* what a response changes some time later, several changes at once.  The  *)
(* changes of one continuation are rendered together.                      *)
(***************************************************************************)
EXTENDS ChatMessages

VARIABLES
  messages, isStreaming,  \* the state, with every update that is queued
  controller,             \* abortRef: the exchange whose fetch it aborts, or 0
  aborted,                \* the exchanges whose signal is aborted
  read,                   \* of each response that is read, how many chunks it had
  view, viewStreaming     \* what is rendered

vars == <<messages, isStreaming, controller, aborted, read, view, viewStreaming>>

NotRead == -1

Init ==
  /\ messages = <<>> /\ isStreaming = FALSE
  /\ controller = 0 /\ aborted = {}
  /\ read = [k \in Exchanges |-> NotRead]
  /\ view = <<>> /\ viewStreaming = FALSE

\* Mutant of HandleSubmit: submitting while an answer streams.
HandleSubmitAlways ==
  LET k == Len(view) \div 2 + 1 IN
  /\ k \in Exchanges
  /\ messages' = view \o <<User(k), Assistant(k, <<>>, "streaming")>>
  /\ isStreaming' = TRUE
  /\ view' = messages' /\ viewStreaming' = TRUE
  /\ controller' = k
  /\ read' = [read EXCEPT ![k] = 0]
  /\ UNCHANGED aborted

\* The new messages take the place of all there are.
HandleSubmit ==
  LET k == Len(view) \div 2 + 1 IN
  /\ ~viewStreaming /\ k \in Exchanges
  /\ messages' = view \o <<User(k), Assistant(k, <<>>, "streaming")>>
  /\ isStreaming' = TRUE
  /\ view' = messages' /\ viewStreaming' = TRUE
  /\ controller' = k
  /\ read' = [read EXCEPT ![k] = 0]
  /\ UNCHANGED aborted

StopStreaming ==
  /\ viewStreaming /\ controller # 0
  /\ aborted' = aborted \cup {controller}
  /\ UNCHANGED <<messages, isStreaming, controller, read, view, viewStreaming>>

Render ==
  /\ <<view, viewStreaming>> # <<messages, isStreaming>>
  /\ view' = messages /\ viewStreaming' = isStreaming
  /\ UNCHANGED <<messages, isStreaming, controller, aborted, read>>

-----------------------------------------------------------------------------
(* The response *)

IsAnswer(m, k) == m.role = "assistant" /\ m.exchange = k

\* message.content, of the assistant message of exchange k.
Content(k) == (CHOOSE m \in ToSet(messages) : IsAnswer(m, k)).text

\* setMessages(current => ...) for that message.
Update(k, text, status) ==
  messages' = [i \in DOMAIN messages |->
                 IF IsAnswer(messages[i], k) THEN [messages[i] EXCEPT !.text = text, !.status = status]
                 ELSE messages[i]]

\* The finally clause.
Finally(k) ==
  /\ read' = [read EXCEPT ![k] = NotRead]
  /\ controller' = IF controller = k THEN 0 ELSE controller
  /\ isStreaming' = FALSE
  /\ UNCHANGED <<aborted, view, viewStreaming>>

ReadChunk(k) ==
  /\ read[k] # NotRead /\ k \notin aborted /\ read[k] < Sent(k)
  /\ read' = [read EXCEPT ![k] = @ + 1]
  /\ Update(k, Partial(k, read[k] + 1), "streaming")
  /\ UNCHANGED <<isStreaming, controller, aborted, view, viewStreaming>>

ReadEnds(k) ==
  /\ k \notin Interrupted /\ k \notin aborted /\ read[k] = Chunks
  /\ Update(k, Partial(k, read[k]), "done")
  /\ Finally(k)

\* The response is not ok, breaks, or is aborted.
ReadFails(k) ==
  /\ read[k] # NotRead
  /\ Update(k, Kept(Content(k)), IF k \in aborted THEN "aborted" ELSE "error")
  /\ Finally(k)

-----------------------------------------------------------------------------
Responds(k) == ReadChunk(k) \/ ReadEnds(k) \/ ReadFails(k)
Next == HandleSubmit \/ StopStreaming \/ Render \/ \E k \in Exchanges : Responds(k)

Spec == Init /\ [][Next]_vars

Policy == INSTANCE ChatPolicy

-----------------------------------------------------------------------------
(* Property *)

\* The same promise of the panel that keeps everything itself: handlers that
\* see an older rendering lose no message and no text, and neither does a stop
\* that comes when the answer has ended and the screen does not show it.
PlainKeepsPolicy == Policy!Spec
=============================================================================
