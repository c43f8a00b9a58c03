----------------------------- MODULE FromPromise -----------------------------
(***************************************************************************)
(* fromPromise(): runs of a producer, their tokens and abort controllers,  *)
(* cancel(), and the handlers of their promises.                           *)
(*                                                                         *)
(* Control passes to user code in the middle of every function: in the     *)
(* listeners of an abort signal, in the effects that run at the end of a   *)
(* batch, in the callbacks of the options and in the producer.  User code  *)
(* may call run() and cancel() there, so the calls in progress are part of *)
(* the state.  A value or an error is named by the run it comes from, and  *)
(* reload(), a run with the latest input, is not distinguished from run(). *)
(***************************************************************************)
EXTENDS Integers, FiniteSets, SequencesExt

CONSTANTS MaxRuns,   \* bound: calls of run()
          MaxStack   \* bound: calls in progress

ASSUME BoundsAssumption == MaxRuns \in Nat \ {0} /\ MaxStack \in Nat

Runs == 1 .. MaxRuns
None == 0            \* no run, no controller, undefined

VARIABLES
  keepPrev,          \* the option keepPreviousValueOnPending
  currentToken,      \* the token of the newest run
  currentController, \* the run whose controller it is
  aborted,           \* the runs whose signal is aborted
  status, value, error,
  promise,           \* what a run has returned, until its handler has run
  stack,             \* the calls in progress, innermost last
  published,         \* history: the last run that committed a value or an error
  cancelled,         \* history: the newest runs when cancel() was called
  crossed,           \* history: a run has installed its controller after a newer one
  overtaken,         \* history: a run has begun inside cancel()
  spoiled            \* history: runs that ended without a status, see PendingIsLive

settings == <<keepPrev>>
signals  == <<status, value, error>>
history  == <<published, cancelled, crossed, overtaken, spoiled>>
vars == <<settings, currentToken, currentController, aborted, signals, promise, stack, history>>

Statuses == {"idle", "pending", "success", "error", "cancelled"}
Promises == {"none", "pending", "fulfilled", "rejected", "abortError", "handled"}
Unsettled == {"pending", "fulfilled", "rejected", "abortError"}

\* Where a call is, when user code has control inside it: in the listeners of
\* an abort, after the batch (its effects, then the callbacks), or in the producer.
Frames == [fn : {"run", "cancel", "handler"}, run : Runs,
           at : {"abort", "batch", "producer", "failure"}]
Frame(f, t, a) == [fn |-> f, run |-> t, at |-> a]

Idle == stack = <<>>
Top  == Last(stack)
In(f, a) == stack # <<>> /\ Top.fn = f /\ Top.at = a
Pop == stack' = Front(stack)
GoTo(a) == stack' = Append(Front(stack), [Top EXCEPT !.at = a])

Init ==
  /\ keepPrev \in BOOLEAN
  /\ currentToken = 0 /\ currentController = None /\ aborted = {}
  /\ status = "idle" /\ value = None /\ error = None
  /\ promise = [t \in Runs |-> "none"]
  /\ stack = <<>>
  /\ published = None /\ cancelled = {} /\ crossed = FALSE /\ overtaken = FALSE /\ spoiled = {}

-----------------------------------------------------------------------------
(* The signals *)

\* Mutant of Release: whatever the controller is.
ReleaseAny(t) == currentController' = None

\* if (currentController === controller) currentController = null
Release(t) == currentController' = IF currentController = t THEN None ELSE currentController

\* Mutant of SetPending: the error of an earlier run is not cleared.
SetPendingOnly ==
  /\ status' = "pending" /\ error' = error
  /\ value' = IF keepPrev THEN value ELSE None

SetPending ==
  /\ status' = "pending" /\ error' = None
  /\ value' = IF keepPrev THEN value ELSE None

SetSuccess(t) ==
  /\ status' = "success" /\ value' = t /\ UNCHANGED error
  /\ published' = t /\ UNCHANGED <<cancelled, crossed, overtaken, spoiled>>

SetError(t) ==
  /\ status' = "error" /\ error' = t /\ UNCHANGED value
  /\ published' = t /\ UNCHANGED <<cancelled, crossed, overtaken, spoiled>>

-----------------------------------------------------------------------------
(* run() *)

\* The run before this one has a controller whose listeners will be called.
ToAbort == currentController # None /\ currentController \notin aborted

\* run() when nobody listens: as far as the end of its batch.
RunBegin ==
  /\ currentToken < MaxRuns /\ Len(stack) < MaxStack /\ ~ToAbort
  /\ currentToken' = currentToken + 1
  /\ currentController' = currentToken + 1
  /\ SetPending
  /\ stack' = Append(stack, Frame("run", currentToken + 1, "batch"))
  /\ UNCHANGED <<settings, aborted, promise, history>>

\* Mutant of RunAbort: the token is taken after the listeners have been called.
RunAbortFirst ==
  /\ currentToken < MaxRuns /\ Len(stack) < MaxStack /\ ToAbort
  /\ aborted' = aborted \cup {currentController}
  /\ stack' = Append(stack, Frame("run", currentToken + 1, "abort"))
  /\ UNCHANGED <<settings, currentToken, currentController, signals, promise, history>>

\* As far as the listeners of the run it supersedes.
RunAbort ==
  /\ currentToken < MaxRuns /\ Len(stack) < MaxStack /\ ToAbort
  /\ currentToken' = currentToken + 1
  /\ aborted' = aborted \cup {currentController}
  /\ stack' = Append(stack, Frame("run", currentToken + 1, "abort"))
  /\ UNCHANGED <<settings, currentController, signals, promise, history>>

\* And on from there.
RunInstall ==
  /\ In("run", "abort")
  /\ currentController' = Top.run
  /\ crossed' = (crossed \/ Top.run # currentToken)
  /\ SetPending
  /\ GoTo("batch")
  /\ UNCHANGED <<settings, currentToken, aborted, promise, published, cancelled, overtaken, spoiled>>

RunProduce ==
  /\ In("run", "batch")
  /\ GoTo("producer")
  /\ UNCHANGED <<settings, currentToken, currentController, aborted, signals, promise, history>>

ProducerReturn ==
  /\ In("run", "producer")
  /\ promise' = [promise EXCEPT ![Top.run] = "pending"]
  /\ Pop
  /\ UNCHANGED <<settings, currentToken, currentController, aborted, signals, history>>

\* Mutant of ProducerThrow: the exception is swallowed.
ProducerThrowIgnored ==
  /\ In("run", "producer")
  /\ Pop
  /\ UNCHANGED <<settings, currentToken, currentController, aborted, signals, promise, history>>

\* The catch clause.
ProducerThrow ==
  /\ In("run", "producer")
  /\ IF Top.run = currentToken
     THEN SetError(Top.run) /\ GoTo("failure")
     ELSE Pop /\ UNCHANGED <<signals, history>>
  /\ UNCHANGED <<settings, currentToken, currentController, aborted, promise>>

RunFailed ==
  /\ In("run", "failure")
  /\ Release(Top.run) /\ Pop
  /\ UNCHANGED <<settings, currentToken, aborted, signals, promise, history>>

-----------------------------------------------------------------------------
(* The promise and its handlers *)

\* The producer's promise is settled; its handler waits in the microtask queue.
Settle(t, outcome) ==
  /\ promise[t] = "pending"
  /\ promise' = [promise EXCEPT ![t] = outcome]
  /\ UNCHANGED <<settings, currentToken, currentController, aborted, signals, stack, history>>

\* Mutants of Current: no test of the token, or of the signal.
CurrentUnlessAborted(t) == t \notin aborted
CurrentToken(t) == t = currentToken

\* The two tests before a result is committed.
Current(t) == t = currentToken /\ t \notin aborted

Fulfilled(t) ==
  /\ Idle /\ promise[t] = "fulfilled"
  /\ promise' = [promise EXCEPT ![t] = "handled"]
  /\ IF Current(t)
     THEN SetSuccess(t) /\ stack' = Append(stack, Frame("handler", t, "batch"))
     ELSE UNCHANGED <<signals, stack, history>>
  /\ UNCHANGED <<settings, currentToken, currentController, aborted>>

Rejected(t) ==
  /\ Idle /\ promise[t] = "rejected"
  /\ promise' = [promise EXCEPT ![t] = "handled"]
  /\ IF Current(t)
     THEN /\ SetError(t) /\ stack' = Append(stack, Frame("handler", t, "batch"))
          /\ UNCHANGED currentController
     ELSE /\ IF t = currentToken THEN Release(t) ELSE UNCHANGED currentController
          /\ UNCHANGED <<signals, stack, history>>
  /\ UNCHANGED <<settings, currentToken, aborted>>

\* An AbortError is taken for a cancellation, whoever has thrown it.
RejectedAbort(t) ==
  /\ Idle /\ promise[t] = "abortError"
  /\ promise' = [promise EXCEPT ![t] = "handled"]
  /\ IF t = currentToken THEN Release(t) ELSE UNCHANGED currentController
  /\ spoiled' = IF Current(t) THEN spoiled \cup {t} ELSE spoiled
  /\ UNCHANGED <<settings, currentToken, aborted, signals, stack,
                 published, cancelled, crossed, overtaken>>

HandlerReturn ==
  /\ In("handler", "batch")
  /\ Release(Top.run) /\ Pop
  /\ UNCHANGED <<settings, currentToken, aborted, signals, promise, history>>

-----------------------------------------------------------------------------
(* cancel() *)

\* Mutant of Cancel: the signal is not aborted.
CancelUnheard ==
  /\ ToAbort /\ Len(stack) < MaxStack
  /\ cancelled' = cancelled \cup {currentToken}
  /\ stack' = Append(stack, Frame("cancel", currentController, "abort"))
  /\ UNCHANGED <<settings, currentToken, currentController, aborted, signals, promise,
                 published, crossed, overtaken, spoiled>>

Cancel ==
  /\ ToAbort /\ Len(stack) < MaxStack
  /\ aborted' = aborted \cup {currentController}
  /\ cancelled' = cancelled \cup {currentToken}
  /\ stack' = Append(stack, Frame("cancel", currentController, "abort"))
  /\ UNCHANGED <<settings, currentToken, currentController, signals, promise,
                 published, crossed, overtaken, spoiled>>

\* Mutant of CancelPublish: the status stays.
CancelSilently ==
  /\ In("cancel", "abort")
  /\ overtaken' = (overtaken \/ currentToken \notin cancelled)
  /\ GoTo("batch")
  /\ UNCHANGED <<settings, currentToken, currentController, aborted, signals, promise,
                 published, cancelled, crossed, spoiled>>

CancelPublish ==
  /\ In("cancel", "abort")
  /\ status' = "cancelled"
  /\ overtaken' = (overtaken \/ currentToken \notin cancelled)
  /\ GoTo("batch")
  /\ UNCHANGED <<settings, currentToken, currentController, aborted, value, error, promise,
                 published, cancelled, crossed, spoiled>>

CancelReturn ==
  /\ In("cancel", "batch")
  /\ Release(Top.run) /\ Pop
  /\ UNCHANGED <<settings, currentToken, aborted, signals, promise, history>>

\* An effect or a callback throws: the call ends where it is.  (What an abort
\* listener throws is reported and goes no further.)
Escape ==
  /\ stack # <<>> /\ Top.at \in {"batch", "failure"}
  /\ spoiled' = IF Top.fn = "run" /\ Top.at = "batch" THEN spoiled \cup {Top.run} ELSE spoiled
  /\ Pop
  /\ UNCHANGED <<settings, currentToken, currentController, aborted, signals, promise,
                 published, cancelled, crossed, overtaken>>

-----------------------------------------------------------------------------
UserCalls == RunBegin \/ RunAbort \/ Cancel
Handlers == \E t \in Runs : Fulfilled(t) \/ Rejected(t) \/ RejectedAbort(t)
Settles == \E t \in Runs, outcome \in {"fulfilled", "rejected", "abortError"} : Settle(t, outcome)
Progress == RunInstall \/ RunProduce \/ ProducerReturn \/ ProducerThrow \/ RunFailed
            \/ HandlerReturn \/ CancelPublish \/ CancelReturn \/ Escape

Next == UserCalls \/ Handlers \/ Settles \/ Progress

Spec == Init /\ [][Next]_vars

\* User code returns, promises settle and microtasks run.
FairSpec == Spec /\ WF_vars(Progress) /\ WF_vars(Handlers) /\ WF_vars(Settles)

-----------------------------------------------------------------------------
(* Properties *)

TypeOK ==
  /\ keepPrev \in BOOLEAN /\ currentToken \in 0 .. MaxRuns
  /\ currentController \in 0 .. currentToken
  /\ aborted \in SUBSET (1 .. currentToken)
  /\ status \in Statuses /\ value \in 0 .. currentToken /\ error \in 0 .. currentToken
  /\ published \in 0 .. currentToken
  /\ promise \in [Runs -> Promises]
  /\ \A t \in Runs : promise[t] # "none" => t <= currentToken
  /\ stack \in Seq(Frames)
  /\ \A i \in DOMAIN stack : stack[i].run <= currentToken
  /\ cancelled \in SUBSET (1 .. currentToken) /\ crossed \in BOOLEAN /\ overtaken \in BOOLEAN
  /\ spoiled \in SUBSET (1 .. currentToken)

\* status, value and error tell of one outcome, however runs, cancellations
\* and callbacks are nested.
OneOutcome ==
  /\ status = "success" => value = published /\ error = None
  /\ status = "error" => error = published
  /\ status = "pending" => error = None
  /\ published # None => promise[published] \in {"none", "handled"}

\* The answer of a run is still to come, and will be looked at.
Waiting(t) == t \in Runs /\ promise[t] \in Unsettled /\ t \notin aborted

Commits(t) == (value' = t /\ value # t) \/ (error' = t /\ error # t)

\* "Latest Wins": what is committed comes from the newest run there is, once,
\* and never after the result of a newer one.
LatestWins ==
  [][\A t \in Runs : Commits(t) => t = currentToken /\ t > published]_vars

\* A run that was cancelled commits nothing afterwards, except that a
\* producer's own exception is not compared with the abort (fromPromise.ts:114)
\* and that run() inside an abort listener mixes up the controllers.
CancelledCommitsNothing ==
  [][\A t \in cancelled : Commits(t) => ProducerThrow \/ crossed]_vars

\* "pending" is shown for a run that will answer: neither a token, an abort nor
\* a nested call makes the runtime ignore the answer it is waiting for.  The
\* exceptions: a producer's own AbortError, callbacks that throw, and run()
\* inside an abort listener, whose status the older run replaces.
PendingIsLive ==
  Idle /\ status = "pending" /\ currentToken \notin spoiled /\ ~crossed
    => Waiting(currentToken)

\* cancel() can reach the run that is waiting for its answer.
CancelReaches ==
  Idle /\ Waiting(currentToken) /\ ~crossed
    => currentController = currentToken

\* "cancelled" is not shown while a run is going on, unless it was begun by
\* the very listeners that cancel() called.
CancelledIsQuiet ==
  Idle /\ status = "cancelled" /\ ~overtaken /\ ~crossed
    => ~Waiting(currentToken)

\* Every pending status ends, if promises do (same exceptions).
PendingEnds == status = "pending" ~> (status # "pending" \/ currentToken \in spoiled \/ crossed)

\* "cancel moves the status to cancelled and ignores a later" outcome.
CancelIgnoresLater == [][\A t \in cancelled : ~Commits(t)]_vars
=============================================================================
