--------------------------- MODULE InputResource ---------------------------
(***************************************************************************)
(* One auto resource, createResource({input, run}), as a page uses it: the *)
(* run its effect made last, whether that run is still without an answer,  *)
(* and the value.  A superseded run is forgotten: that it commits nothing  *)
(* is what FromPromise and Resources show.                                 *)
(***************************************************************************)

CONSTANT Nothing \* undefined: the value before the first answer

\* The effect of the resource runs when it is created.
Created(input) == [input |-> input, pending |-> TRUE, value |-> Nothing]

\* The effect runs again: keepPreviousValueOnPending decides about the value.
RunAgain(r, input, keep) ==
  [input |-> input, pending |-> TRUE, value |-> IF keep THEN r.value ELSE Nothing]

Answered(r, v) == [r EXCEPT !.pending = FALSE, !.value = v]

\* meta.cancel(): the run in flight, if there is one, commits nothing.
Cancelled(r) == [r EXCEPT !.pending = FALSE]
=============================================================================
