------------------------------ MODULE Resources ------------------------------
(***************************************************************************)
(* createResource() and createKeyedRevision() at work together: a manual   *)
(* resource writes to a server under a key and invalidates the revision of *)
(* that key; an auto resource fetches the key its source names, observes   *)
(* the revision of that key, and is run again by its effect.               *)
(*                                                                         *)
(* Each resource is a fromPromise(): what FromPromise says of one of them  *)
(* at every point where user code can intervene is taken up here only at   *)
(* the two points createResource.ts adds, the callback before invalidates()*)
(* and the cancel() inside the effect.  A producer never throws or answers *)
(* an AbortError of its own.  A run with the latest input is one by reload.*)
(***************************************************************************)
EXTENDS Integers, SequencesExt

CONSTANTS Keys, NoKey, \* the inputs, and none
          MaxCalls       \* bound: calls of run() and reload() and changes of the source


Writes == 1 .. MaxCalls
Fetches == 1 .. (1 + MaxCalls)

VARIABLES
  server,            \* external: how many writes it has made, by key
  \* the manual resource
  wToken, wLive,     \* the newest run, and whether its controller is in place and not aborted
  wInput, write,     \* what each run was given, and how far it is
  latestInput, wStatus,
  handler,           \* the run whose success is being announced, or 0
  \* the auto resource
  source, observed,  \* the key it is asked for, the key whose revision it has read
  dirty,             \* its effect is scheduled
  effects,           \* the runs of its effect inside cancel(), by the input they have read
  token, live, input, fetch,
  got,               \* external: what the server showed each fetch
  status, value,
  announced,         \* history: what the server held when a key was last invalidated
  derailed,          \* history: user code has run the effect inside its own cancel(), or thrown there
  mispaired,         \* history: invalidates() got the input of another run
  calls

manual == <<wToken, wLive, wInput, write, latestInput, wStatus, handler>>
effect == <<observed, dirty, effects, derailed>>
query  == <<token, live, input, fetch, got, status, value>>
ghosts == <<announced, mispaired>>
vars   == <<server, manual, source, effect, query, calls, ghosts>>

Init ==
  /\ server = [k \in Keys |-> 0] /\ announced = server
  /\ wToken = 0 /\ wLive = FALSE /\ wInput = [w \in Writes |-> NoKey]
  /\ write = [w \in Writes |-> "none"] /\ latestInput = NoKey /\ wStatus = "idle" /\ handler = 0
  /\ source \in Keys /\ observed = source /\ dirty = FALSE /\ effects = <<>>
  /\ token = 1 /\ live = TRUE /\ input = [t \in Fetches |-> IF t = 1 THEN source ELSE NoKey]
  /\ fetch = [t \in Fetches |-> IF t = 1 THEN "sent" ELSE "none"] /\ got = [t \in Fetches |-> 0]
  /\ status = "pending" /\ value = [key |-> NoKey, version |-> 0]
  /\ derailed = FALSE /\ mispaired = FALSE /\ calls = 0

-----------------------------------------------------------------------------
(* The server, external: it answers in any order, and an abort may come too *)
(* late for it, or never reach it.                                          *)

ServerWrites(w) ==
  /\ write[w] = "sent"
  /\ write' = [write EXCEPT ![w] = "written"]
  /\ server' = [server EXCEPT ![wInput[w]] = @ + 1]
  /\ UNCHANGED <<wToken, wLive, wInput, latestInput, wStatus, handler, source, effect, query, calls, ghosts>>

ServerReads(t) ==
  /\ fetch[t] = "sent"
  /\ fetch' = [fetch EXCEPT ![t] = "read"]
  /\ got' = [got EXCEPT ![t] = server[input[t]]]
  /\ UNCHANGED <<server, manual, source, effect, token, live, input, status, value, calls, ghosts>>

-----------------------------------------------------------------------------
(* The manual resource *)

\* run(input) and reload(), from anywhere, also from the callback onSuccess.
WriteRun(k) ==
  /\ calls < MaxCalls /\ calls' = calls + 1
  /\ wToken' = wToken + 1 /\ wLive' = TRUE /\ wStatus' = "pending" /\ latestInput' = k
  /\ wInput' = [wInput EXCEPT ![wToken + 1] = k]
  /\ write' = [write EXCEPT ![wToken + 1] = "sent"]
  /\ UNCHANGED <<server, handler, source, effect, query, ghosts>>

WriteCancel ==
  /\ wLive
  /\ wLive' = FALSE /\ wStatus' = "cancelled"
  /\ UNCHANGED <<server, wToken, wInput, write, latestInput, handler, source, effect, query, calls, ghosts>>

\* The answer of the server, and the handler of the promise it settles.
WriteSucceeds(w) ==
  /\ handler = 0 /\ effects = <<>> /\ write[w] = "written"
  /\ write' = [write EXCEPT ![w] = "done"]
  /\ IF w = wToken /\ wLive
     THEN wStatus' = "success" /\ handler' = w
     ELSE UNCHANGED <<wStatus, handler>>
  /\ UNCHANGED <<server, wToken, wLive, wInput, latestInput, source, effect, query, calls, ghosts>>

\* A write that was made may still be answered by an error.
WriteFails(w) ==
  /\ handler = 0 /\ effects = <<>> /\ write[w] \in {"sent", "written"}
  /\ write' = [write EXCEPT ![w] = "done"]
  /\ IF w = wToken /\ wLive
     THEN wStatus' = "error" /\ wLive' = FALSE
     ELSE UNCHANGED <<wStatus, wLive>>
  /\ UNCHANGED <<server, wToken, wInput, latestInput, handler, source, effect, query, calls, ghosts>>

\* Mutant of Invalidate: no reader is told.
InvalidateUnheard(k) == dirty' = dirty

\* target(key).invalidate(): the version is another, its readers are scheduled.
Invalidate(k) == dirty' = (dirty \/ k = observed)

\* The rest of onSuccess(): what comes after the callback of the options.
WriteAnnounced ==
  /\ handler # 0 /\ effects = <<>>
  /\ Invalidate(latestInput)
  /\ announced' = [announced EXCEPT ![latestInput] = server[latestInput]]
  /\ mispaired' = (mispaired \/ latestInput # wInput[handler])
  /\ wLive' = IF wToken = handler THEN FALSE ELSE wLive
  /\ handler' = 0
  /\ UNCHANGED <<server, wToken, wInput, write, latestInput, wStatus, source,
                 observed, effects, derailed, query, calls>>

\* The callback of the options throws: invalidates() is never called.
WriteCallbackThrows ==
  /\ handler # 0 /\ effects = <<>>
  /\ handler' = 0
  /\ UNCHANGED <<server, wToken, wLive, wInput, write, latestInput, wStatus, source, effect, query, calls, ghosts>>

-----------------------------------------------------------------------------
(* The auto resource *)

\* Mutant of QueryRun: the controller of the run before it stays.
QueryRunUnarmed(k) ==
  /\ token' = token + 1 /\ status' = "pending"
  /\ input' = [input EXCEPT ![token + 1] = k]
  /\ fetch' = [fetch EXCEPT ![token + 1] = "sent"]
  /\ UNCHANGED <<live, got, value>>

\* fromPromise's run(): the run before it is superseded.
QueryRun(k) ==
  /\ token' = token + 1 /\ live' = TRUE /\ status' = "pending"
  /\ input' = [input EXCEPT ![token + 1] = k]
  /\ fetch' = [fetch EXCEPT ![token + 1] = "sent"]
  /\ UNCHANGED <<got, value>>

SetSource(k) ==
  /\ calls < MaxCalls /\ calls' = calls + 1 /\ k # source
  /\ source' = k /\ dirty' = TRUE
  /\ UNCHANGED <<server, manual, observed, effects, derailed, query, ghosts>>

\* The effect reads its input and observes, then cancels what is in flight;
\* listeners, effects and callbacks of that cancel() have control after this.
EffectCancels ==
  /\ dirty /\ live
  /\ effects' = Append(effects, source)
  /\ observed' = source /\ dirty' = FALSE
  /\ derailed' = (derailed \/ effects # <<>>)
  /\ live' = FALSE /\ status' = "cancelled"
  /\ UNCHANGED <<server, manual, source, token, input, fetch, got, value, calls, ghosts>>

\* Nothing is in flight: cancel() does nothing and the run follows at once.
EffectRuns ==
  /\ dirty /\ ~live
  /\ observed' = source /\ dirty' = FALSE
  /\ derailed' = (derailed \/ effects # <<>>)
  /\ QueryRun(source)
  /\ UNCHANGED <<server, manual, source, effects, calls, ghosts>>

\* cancel() has returned: run() with the input read before it.
EffectGoesOn ==
  /\ effects # <<>>
  /\ effects' = Front(effects)
  /\ QueryRun(Last(effects))
  /\ UNCHANGED <<server, manual, source, observed, dirty, derailed, calls, ghosts>>

\* An effect or a callback of that cancel() throws: there is no run.
EffectThrows ==
  /\ effects # <<>>
  /\ effects' = Front(effects) /\ derailed' = TRUE
  /\ UNCHANGED <<server, manual, source, observed, dirty, query, calls, ghosts>>

QueryReload ==
  /\ calls < MaxCalls /\ calls' = calls + 1
  /\ QueryRun(input[token])
  /\ UNCHANGED <<server, manual, source, effect, ghosts>>

QueryCancel ==
  /\ live
  /\ live' = FALSE /\ status' = "cancelled"
  /\ UNCHANGED <<server, manual, source, effect, token, input, fetch, got, value, calls, ghosts>>

Accepted(t) == t = token /\ live

QuerySettles(t) ==
  /\ handler = 0 /\ effects = <<>> /\ fetch[t] \in {"sent", "read"}
  /\ fetch' = [fetch EXCEPT ![t] = "done"]
  /\ IF Accepted(t)
     THEN /\ live' = FALSE
          /\ \/ /\ fetch[t] = "read"
                /\ status' = "success" /\ value' = [key |-> input[t], version |-> got[t]]
             \/ status' = "error" /\ UNCHANGED value
     ELSE UNCHANGED <<live, status, value>>
  /\ UNCHANGED <<server, manual, source, effect, token, input, got, calls, ghosts>>

-----------------------------------------------------------------------------
Environment == \/ \E w \in Writes : ServerWrites(w)
               \/ \E t \in Fetches : ServerReads(t)
Scheduled == EffectCancels \/ EffectRuns
CallbackReturns == WriteAnnounced \/ WriteCallbackThrows
CancelReturns == EffectGoesOn \/ EffectThrows
Handlers == \/ \E w \in Writes : WriteSucceeds(w) \/ WriteFails(w)
            \/ \E t \in Fetches : QuerySettles(t)
Users == \/ \E k \in Keys : WriteRun(k) \/ SetSource(k)
         \/ WriteCancel \/ QueryReload \/ QueryCancel

Next == Environment \/ Scheduled \/ CallbackReturns \/ CancelReturns \/ Handlers \/ Users

Spec == Init /\ [][Next]_vars

\* The server answers, user code returns, the flush and the microtasks run.
FairSpec == /\ Spec /\ WF_vars(Environment) /\ WF_vars(Scheduled) /\ WF_vars(Handlers)
            /\ WF_vars(CallbackReturns) /\ WF_vars(CancelReturns)

-----------------------------------------------------------------------------
(* Properties *)

\* What a successful query shows is for the key it is asked for, and no older
\* than the last write to that key that invalidated it, in whatever order the
\* server and the promises answer.  The exceptions: an effect that ran inside
\* the cancel() of its own earlier run, which then goes on with its old input,
\* and one whose cancel() threw, after which reload() has the old input.
FreshResult ==
  status = "success" /\ ~dirty /\ effects = <<>> /\ ~derailed
    => value.key = source /\ value.version >= announced[source]

\* A change of the source and an invalidation are answered: the query is run
\* again and that run ends.
RefetchEnds == (dirty \/ status = "pending") ~> (~dirty /\ status # "pending")

\* "When input() or observe() dependencies change: cancel previous in-flight
\* task, reload with latest input".
ReloadsWithLatestInput ==
  status = "success" /\ ~dirty /\ effects = <<>> => value.key = source

\* "manual run(input), success(result), call invalidates(result, input)".
InvalidatesOwnInput == ~mispaired
=============================================================================
