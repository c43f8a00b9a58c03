---------------------------- MODULE ChatMessages ----------------------------
(***************************************************************************)
(* The messages of the chatbot and what POST /api/chat answers.            *)
(*                                                                         *)
(* The k-th prompt and its answer are the messages of exchange k.  A text  *)
(* is a sequence of chunks, each named by its exchange and its place; that *)
(* of a prompt is left out, and so is the welcome message.                 *)
(***************************************************************************)
EXTENDS Integers, SequencesExt

CONSTANTS Chunks,       \* the chunks of an answer: 5 in the source
          InterruptAt,  \* after how many the route interrupts a stream: 2 in the source
          Interrupted,  \* the exchanges whose prompt asks for that
          MaxPrompts    \* bound: prompts submitted

Exchanges == 1 .. MaxPrompts

\* The first n chunks of an answer.
Partial(k, n) == [i \in 1 .. n |-> [exchange |-> k, chunk |-> i]]

\* How many chunks the route sends before it closes or breaks the stream.
Sent(k) == IF k \in Interrupted THEN InterruptAt ELSE Chunks

Notice == <<[exchange |-> 0, chunk |-> 0]>> \* "Stopped." or "Something went wrong."

\* What is kept of an answer that was broken off.
Kept(text) == IF text = <<>> THEN Notice ELSE text

User(k) == [role |-> "user", exchange |-> k, text |-> <<>>, status |-> "done"]
Assistant(k, text, status) == [role |-> "assistant", exchange |-> k, text |-> text, status |-> status]
=============================================================================
