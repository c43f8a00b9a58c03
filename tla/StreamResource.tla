---------------------------- MODULE StreamResource ----------------------------
(***************************************************************************)
(* createStreamResource(): runs of a stream producer, one after the other, *)
(* with their cleanups, interruption policies and microtasks.              *)
(*                                                                         *)
(* User code has control in the middle of every function: in the listeners *)
(* of an abort signal, in cleanups and in the effects that run at the end  *)
(* of a batch.  It may call the functions of the resource and of a run's   *)
(* context there, so the calls in progress are part of the state; what     *)
(* user code does after the last statement of a function is the same as    *)
(* what it does afterwards.  A value is named by the runs whose chunks it  *)
(* is made of, {} being initialValue, and an error by its run.             *)
(***************************************************************************)
EXTENDS Integers, FiniteSets, SequencesExt

CONSTANTS MaxCalls,  \* bound: calls of reload() and changes of the source
          MaxStack   \* bound: calls in progress

ASSUME BoundsAssumption == MaxCalls \in Nat /\ MaxStack \in Nat \ {0}

Runs == Nat \ {0}
None == 0            \* no run, no error
Policies == {"keep-partial", "rollback", "clear"}

VARIABLES
  onCancel, onError,          \* options
  activeRun, lastRun,         \* lastRun: the runs so far are 1 .. lastRun
  closed,                     \* runs that are closed
  started,                    \* runs whose producer has been called
  waiting,                    \* runs that have cleanups to run
  disposed,
  dirty,                      \* the source has changed since the effect read it
  value, stableValue, status, error,
  ticks, starts,              \* microtasks: runs with their first, their second to come
  flushing, behind,           \* a microtask to flush the graph, and the runs queued behind it
  stack,                      \* the calls in progress, innermost last
  calls,                      \* for MaxCalls
  overtaken,                  \* history: cancel() has published over the run that is active
  spoiled,                    \* history: runs in whose batch an effect threw
  doomed                      \* history: runs whose first microtask found the source changed

options == <<onCancel, onError>>
runs    == <<activeRun, lastRun, closed, started, waiting>>
signals == <<value, stableValue, status, error>>
tasks   == <<ticks, starts, flushing, behind>>
history == <<overtaken, spoiled, doomed>>
vars == <<options, runs, disposed, dirty, signals, tasks, stack, calls, history>>

Statuses == {"pending", "streaming", "success", "error", "cancelled"}

\* Where a call is, when user code has control inside it: in the effects at the
\* end of its batch, or in the listeners and cleanups of the run it closes.
Frames == [fn : {"replace", "cancel", "done", "fail"}, run : Runs, at : {"batch", "closing"}]
Frame(f, r, a) == [fn |-> f, run |-> r, at |-> a]

Idle == stack = <<>>
Top  == Last(stack)
In(f, a) == stack # <<>> /\ Top.fn = f /\ Top.at = a
Push(f, r, a) == Len(stack) < MaxStack /\ stack' = Append(stack, Frame(f, r, a))
Pop == stack' = Front(stack)
GoTo(r, a) == stack' = Append(Front(stack), Frame(Top.fn, r, a))

\* When createStreamResource() has returned: its effect has begun the first run.
Init ==
  /\ onCancel \in Policies /\ onError \in Policies
  /\ activeRun = 1 /\ lastRun = 1 /\ closed = {} /\ started = {} /\ waiting = {}
  /\ disposed = FALSE /\ dirty = FALSE
  /\ value = {} /\ stableValue = {} /\ status = "pending" /\ error = None
  /\ ticks = {1} /\ starts = {} /\ flushing = FALSE /\ behind = {}
  /\ stack = <<>> /\ calls = 0
  /\ overtaken = FALSE /\ spoiled = {} /\ doomed = {}

-----------------------------------------------------------------------------
(* Runs *)

IsActiveRun(r) == activeRun = r /\ r \notin closed

CloseRun(r) == IsActiveRun(r) /\ activeRun' = None /\ closed' = closed \cup {r}

DrainCleanups(r) == waiting' = waiting \ {r}

\* The value after a run was interrupted.
Interrupted(policy) ==
  CASE policy = "keep-partial" -> value
    [] policy = "rollback" -> stableValue
    [] policy = "clear" -> {}

\* Mutant of ResetForNewRun: the value stays.
ResetStatus ==
  /\ error' = None /\ status' = "pending"
  /\ UNCHANGED <<value, stableValue>>

ResetForNewRun ==
  /\ value' = {} /\ error' = None /\ status' = "pending"
  /\ UNCHANGED stableValue

\* Mutant of BeginRun: the run does not become the active one.
BeginRunInactive ==
  /\ UNCHANGED activeRun /\ lastRun' = lastRun + 1
  /\ ResetForNewRun
  /\ overtaken' = FALSE
  /\ UNCHANGED <<started, spoiled, doomed>>

\* run(), as far as the end of its batch.
BeginRun ==
  /\ activeRun' = lastRun + 1 /\ lastRun' = lastRun + 1
  /\ ResetForNewRun
  /\ overtaken' = FALSE
  /\ UNCHANGED <<started, spoiled, doomed>>

\* replaceRun(), when the active run has a producer and so may have listeners
\* and cleanups,
SupersedeActiveRun ==
  /\ activeRun \in started
  /\ CloseRun(activeRun) /\ Push("replace", activeRun, "closing")
  /\ UNCHANGED <<lastRun, started, waiting, signals, history>>

\* Mutant of ReplaceUnheard: the active run is left alone.
ReplaceUnclosed ==
  /\ BeginRun /\ Push("replace", lastRun + 1, "batch")
  /\ UNCHANGED <<closed, waiting>>

\* and when there is no such run, and nobody is told.
ReplaceUnheard ==
  /\ activeRun \notin started
  /\ closed' = closed \cup ({activeRun} \ {None})
  /\ BeginRun /\ Push("replace", lastRun + 1, "batch")
  /\ UNCHANGED waiting

ReplaceRun == SupersedeActiveRun \/ ReplaceUnheard

\* The second half, once the listeners and cleanups of the superseded run have
\* had their turn.
RunAfterClosing ==
  /\ In("replace", "closing")
  /\ DrainCleanups(Top.run)
  /\ BeginRun /\ GoTo(lastRun + 1, "batch")
  /\ UNCHANGED <<options, closed, disposed, dirty, tasks, calls>>

\* The end of run(): Promise.resolve().then(...).then(...)
QueueStart ==
  /\ In("replace", "batch")
  /\ ticks' = ticks \cup {Top.run} /\ UNCHANGED <<starts, flushing>>
  /\ behind' = IF flushing THEN behind \cup {Top.run} ELSE behind
  /\ Pop
  /\ UNCHANGED <<options, runs, disposed, dirty, signals, calls, history>>

-----------------------------------------------------------------------------
(* The source, its effect and the microtasks.  Other effects do not keep the *)
(* graph from running this one, and no asynchronous transaction is open.     *)

\* What input() or observe() has read changes; the scheduler queues a flush.
SourceChange ==
  /\ ~disposed /\ ~dirty /\ calls < MaxCalls
  /\ dirty' = TRUE /\ flushing' = TRUE /\ calls' = calls + 1
  /\ UNCHANGED <<options, runs, disposed, signals, ticks, starts, behind, stack, history>>

\* The effect runs in a flush at the end of a batch, anywhere in user code,
FlushSync ==
  /\ dirty
  /\ dirty' = FALSE /\ ReplaceRun
  /\ UNCHANGED <<options, disposed, tasks, calls>>

\* or in the microtask, whose turn comes after everything queued before it.
MicrotaskFlush ==
  /\ Idle /\ flushing /\ ticks \cup starts \subseteq behind
  /\ flushing' = FALSE /\ behind' = {} /\ dirty' = FALSE
  /\ IF dirty THEN ReplaceRun ELSE UNCHANGED <<runs, signals, stack, history>>
  /\ UNCHANGED <<options, disposed, ticks, starts, calls>>

\* Mutant of Tick: one microtask instead of two.
TickStarts(r) ==
  /\ Idle /\ r \in ticks \ behind
  /\ ticks' = ticks \ {r} /\ UNCHANGED <<starts, flushing, behind>>
  /\ started' = IF IsActiveRun(r) THEN started \cup {r} ELSE started
  /\ doomed' = IF dirty THEN doomed \cup {r} ELSE doomed
  /\ UNCHANGED <<options, activeRun, lastRun, closed, waiting, disposed, dirty, signals, stack,
                 calls, overtaken, spoiled>>

\* The first microtask of a run only queues the second.
Tick(r) ==
  /\ Idle /\ r \in ticks \ behind
  /\ ticks' = ticks \ {r} /\ starts' = starts \cup {r} /\ UNCHANGED flushing
  /\ behind' = IF flushing THEN behind \cup {r} ELSE behind
  /\ doomed' = IF dirty THEN doomed \cup {r} ELSE doomed
  /\ UNCHANGED <<options, runs, disposed, dirty, signals, stack, calls, overtaken, spoiled>>

\* Mutant of Start: the status is consulted too.
StartPending(r) ==
  /\ Idle /\ r \in starts \ behind
  /\ starts' = starts \ {r} /\ UNCHANGED <<ticks, flushing, behind>>
  /\ started' = IF IsActiveRun(r) /\ status = "pending" THEN started \cup {r} ELSE started
  /\ UNCHANGED <<options, activeRun, lastRun, closed, waiting, disposed, dirty, signals,
                 stack, calls, history>>

Start(r) ==
  /\ Idle /\ r \in starts \ behind
  /\ starts' = starts \ {r} /\ UNCHANGED <<ticks, flushing, behind>>
  /\ started' = IF IsActiveRun(r) THEN started \cup {r} ELSE started
  /\ UNCHANGED <<options, activeRun, lastRun, closed, waiting, disposed, dirty, signals,
                 stack, calls, history>>

-----------------------------------------------------------------------------
(* The context of a run, which its producer has *)

Write(r, newValue) ==
  /\ r \in started /\ IsActiveRun(r)
  /\ value' = newValue
  /\ status' = IF status = "pending" THEN "streaming" ELSE status
  /\ UNCHANGED <<options, runs, disposed, dirty, stableValue, error, tasks, stack, calls, history>>

Emit(r) == Write(r, value \cup {r})
Set(r)  == Write(r, {r})

\* done(), as far as the end of its batch.
Done(r, finalValue) ==
  /\ r \in started /\ CloseRun(r)
  /\ value' = finalValue /\ stableValue' = finalValue /\ status' = "success"
  /\ Push("done", r, "batch")
  /\ UNCHANGED <<options, lastRun, started, waiting, disposed, dirty, error, tasks, calls, history>>

\* fail(), and what a throw or a rejection of the producer ends in.
Fail(r) ==
  /\ r \in started /\ CloseRun(r)
  /\ error' = r /\ value' = Interrupted(onError) /\ status' = "error"
  /\ Push("fail", r, "batch")
  /\ UNCHANGED <<options, lastRun, started, waiting, disposed, dirty, stableValue, tasks, calls, history>>

\* Both go on to the cleanups, and from there to the callbacks of the options.
Drain ==
  /\ In("done", "batch") \/ In("fail", "batch")
  /\ GoTo(Top.run, "closing")
  /\ UNCHANGED <<options, runs, disposed, dirty, signals, tasks, calls, history>>

Report ==
  /\ In("done", "closing") \/ In("fail", "closing")
  /\ DrainCleanups(Top.run) /\ Pop
  /\ UNCHANGED <<options, activeRun, lastRun, closed, started, disposed, dirty, signals, tasks,
                 calls, history>>

\* Mutant of OnCleanup: a cleanup that comes late is kept.
OnCleanupKept(r) ==
  /\ r \in started
  /\ waiting' = waiting \cup {r}
  /\ UNCHANGED <<options, activeRun, lastRun, closed, started, disposed, dirty, signals, tasks,
                 stack, calls, history>>

\* A cleanup that is registered when the run is closed runs at once.
OnCleanup(r) ==
  /\ r \in started
  /\ waiting' = IF r \in closed THEN waiting ELSE waiting \cup {r}
  /\ UNCHANGED <<options, activeRun, lastRun, closed, started, disposed, dirty, signals, tasks,
                 stack, calls, history>>

-----------------------------------------------------------------------------
(* The resource *)

\* Mutant of Reload: also after dispose().
ReloadAlways ==
  /\ calls < MaxCalls
  /\ calls' = calls + 1 /\ ReplaceRun
  /\ UNCHANGED <<options, disposed, dirty, tasks>>

Reload ==
  /\ ~disposed /\ calls < MaxCalls
  /\ calls' = calls + 1 /\ ReplaceRun
  /\ UNCHANGED <<options, disposed, dirty, tasks>>

\* Mutant of PublishCancelled: without the policy.
PublishStatus ==
  /\ status' = "cancelled"
  /\ UNCHANGED <<value, stableValue, error, spoiled, doomed>>

PublishCancelled ==
  /\ value' = Interrupted(onCancel) /\ status' = "cancelled"
  /\ UNCHANGED <<stableValue, error, spoiled, doomed>>

\* cancelActiveResourceRun(): as far as the listeners and cleanups, if there can
\* be any.
CancelActiveRun ==
  \/ /\ activeRun \in started
     /\ CloseRun(activeRun) /\ Push("cancel", activeRun, "closing")
     /\ UNCHANGED <<lastRun, started, waiting, signals, history>>
  \/ /\ activeRun # None /\ activeRun \notin started
     /\ CloseRun(activeRun) /\ PublishCancelled /\ overtaken' = FALSE
     /\ UNCHANGED <<lastRun, started, waiting, stack>>

Cancel == CancelActiveRun /\ UNCHANGED <<options, disposed, dirty, tasks, calls>>

CancelPublish ==
  /\ In("cancel", "closing")
  /\ DrainCleanups(Top.run)
  /\ PublishCancelled
  /\ overtaken' = (activeRun # None)
  /\ Pop
  /\ UNCHANGED <<options, activeRun, lastRun, closed, started, disposed, dirty, tasks, calls>>

\* dispose() also disposes of the effect.
Dispose ==
  /\ ~disposed
  /\ disposed' = TRUE /\ dirty' = FALSE
  /\ IF activeRun = None THEN UNCHANGED <<runs, signals, stack, history>> ELSE CancelActiveRun
  /\ UNCHANGED <<options, tasks, calls>>

\* An effect throws at the end of a batch: the call ends there.  (What a
\* listener or a cleanup throws goes no further.)
Escape ==
  /\ stack # <<>> /\ Top.at = "batch"
  /\ spoiled' = spoiled \cup {Top.run}
  /\ Pop
  /\ UNCHANGED <<options, runs, disposed, dirty, signals, tasks, calls, overtaken, doomed>>

-----------------------------------------------------------------------------
Producer == \E r \in 1 .. lastRun :
  Emit(r) \/ Set(r) \/ Done(r, value) \/ Done(r, {r}) \/ Fail(r) \/ OnCleanup(r)
Users == SourceChange \/ FlushSync \/ Reload \/ Cancel \/ Dispose
Microtasks == MicrotaskFlush \/ \E r \in 1 .. lastRun : Tick(r) \/ Start(r)
Progress == RunAfterClosing \/ QueueStart \/ Drain \/ Report \/ CancelPublish \/ Escape

Next == Producer \/ Users \/ Microtasks \/ Progress

Spec == Init /\ [][Next]_vars

\* Calls return and microtasks run.
FairSpec == Spec /\ WF_vars(Progress) /\ WF_vars(Microtasks)

-----------------------------------------------------------------------------
(* Properties *)

TypeOK ==
  /\ onCancel \in Policies /\ onError \in Policies
  /\ lastRun \in Runs /\ activeRun \in {None, lastRun}
  /\ closed \in SUBSET (1 .. lastRun)
  /\ started \in SUBSET (1 .. lastRun) /\ waiting \in SUBSET started
  /\ disposed \in BOOLEAN /\ dirty \in BOOLEAN
  /\ value \in SUBSET (1 .. lastRun) /\ stableValue \in SUBSET (1 .. lastRun)
  /\ status \in Statuses /\ error \in 0 .. lastRun
  /\ ticks \in SUBSET (1 .. lastRun) /\ starts \in SUBSET (1 .. lastRun)
  /\ flushing \in BOOLEAN /\ behind \in SUBSET (1 .. lastRun)
  /\ stack \in Seq(Frames) /\ \A i \in DOMAIN stack : stack[i].run <= lastRun
  /\ calls \in Nat
  /\ overtaken \in BOOLEAN /\ spoiled \in SUBSET (1 .. lastRun) /\ doomed \in SUBSET (1 .. lastRun)

\* One producer can write, that of the newest run: a run is never left open when
\* another takes its place, though listeners, cleanups and effects begin runs
\* in the middle of replaceRun() and run().
OneProducer == \A r \in started : r \in closed \/ (r = activeRun /\ r = lastRun)

\* The status belongs to the value and the run: success and error to the value
\* their run left, also when it is yet to be reported to onSuccess; between calls,
\* pending and streaming to a run that is active.  The exception: a run begun by
\* the listeners and cleanups that cancel() calls, whose status cancel() replaces.
StatusTellsTruth ==
  /\ status = "success" => value = stableValue
  /\ \A i \in DOMAIN stack :
       stack[i].fn = "done" /\ stack[i].run = lastRun => status = "success"
  /\ (status = "error") = (error # None)
  /\ status = "error" => value = Interrupted(onError)
  /\ status = "cancelled" /\ ~overtaken => value = Interrupted(onCancel) /\ activeRun = None
  /\ activeRun # None /\ ~overtaken => status \in {"pending", "streaming"}
  /\ Idle /\ status \in {"pending", "streaming"} => activeRun # None

\* "Run cleanup: yes, once", however a run ends and whenever its cleanups are
\* registered; but an effect that throws in the batch of done() or fail() keeps
\* them from being run.
CleanupsRun == Idle => \A r \in waiting : r = activeRun \/ r \in spoiled

\* After dispose() no run begins, but for a replaceRun() that has called the
\* listeners and cleanups in which dispose() was called.
DisposeStops == [][disposed /\ lastRun' # lastRun => In("replace", "closing")]_vars

\* A value is committed as stable only by the active run, and is made of its own
\* chunks and no other run's (same exception as above).
CommitsOwn ==
  [][stableValue' # stableValue /\ ~overtaken => stableValue' \subseteq {activeRun}]_vars

\* "Let queued graph invalidations close superseded runs before producers start":
\* the producer of a run is not called when the source had changed at its first
\* microtask.
NoOutdatedStart == started \cap doomed = {}

\* A run's producer is called, or the run makes way for another or is ended;
\* unless an effect threw when it began.
RunStarts ==
  \A r \in 1 .. MaxCalls + 1 :
    activeRun = r ~> (r \in started \/ activeRun # r \/ r \in spoiled)

\* "dispose() is permanent ... and reload() after disposal does not restart the
\* resource": no run is active afterwards.
DisposeIsPermanent == disposed => activeRun = None
=============================================================================
