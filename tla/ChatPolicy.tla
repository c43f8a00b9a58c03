----------------------------- MODULE ChatPolicy -----------------------------
(***************************************************************************)
(* The policy both chat routes promise their user, over the messages that  *)
(* are on the screen and nothing else: one assistant answers at a time,    *)
(* what was shown of an answer is never taken back, and every answer ends. *)
(***************************************************************************)
EXTENDS ChatMessages

VARIABLE view \* the messages on the screen

Exchange == Len(view) \div 2
Active == view # <<>> /\ Last(view).status = "streaming"
Shown == Len(Last(view).text)

Init == view = <<>>

Submit ==
  /\ ~Active /\ Exchange < MaxPrompts
  /\ view' = view \o <<User(Exchange + 1), Assistant(Exchange + 1, <<>>, "streaming")>>

Answers(text, status) == view' = Append(Front(view), Assistant(Exchange, text, status))

Stream == Active /\ \E n \in Shown + 1 .. Sent(Exchange) : Answers(Partial(Exchange, n), "streaming")

\* Only an answer that is not interrupted is ever done.
End ==
  /\ Active
  /\ \/ Sent(Exchange) = Chunks /\ Answers(Partial(Exchange, Chunks), "done")
     \/ \E n \in Shown .. Sent(Exchange), status \in {"aborted", "error"} :
          Answers(Kept(Partial(Exchange, n)), status)

Next == Submit \/ Stream \/ End

\* The promise without the end of every answer: what no step may do.
AllowedSteps == Init /\ [][Next]_view

Spec == AllowedSteps /\ WF_view(End)
=============================================================================
