---------------------------- MODULE ReactiveGraph ----------------------------
(***************************************************************************)
(* The core runtime of packages/core: signals, lazily evaluated computeds, *)
(* effects, the dependency graph between them, batch() and the microtask   *)
(* flush of pending effects.  User code is whatever runs on top of the     *)
(* call stack: it may read, write, batch, create and dispose effects,      *)
(* throw and catch, in any order the API allows.                           *)
(*                                                                         *)
(* JavaScript runs one stack at a time, so the stack of the calls the      *)
(* runtime itself makes is part of the state, and an action is what        *)
(* happens between two points where user code gets control.                *)
(*                                                                         *)
(* Abstractions.  The function of a computed is pure: it reads sources and *)
(* returns some value or throws.  Equality is identity of values.  The     *)
(* cleanup callbacks themselves do not call back into the graph.  The      *)
(* order in which a flush runs the effects of one batch is arbitrary       *)
(* (effects carry no priority, and the insertion order is not kept).       *)
(***************************************************************************)
EXTENDS Integers, FiniteSets, SequencesExt

CONSTANTS Signals, Computeds, Effects, Values,
          MayRead,     \* the sources the function of an observer may read
          MayWrite,    \* the signals the function of an effect may set
          MayThrow,    \* whose user code may throw (None: the main program)
          None

CONSTANTS MaxStack,    \* bound: nested calls of the runtime
          MaxLoops,    \* the guard of flushJobsTwoPhase (10000 in the code)
          MaxTicks,    \* bound: flushes waiting in the microtask queue
          MaxCleanups  \* bound: callbacks an effect holds at a time

Sources   == Signals \cup Computeds
Observers == Computeds \cup Effects

ASSUME KindsAssumption ==
  /\ Signals \cap Computeds = {} /\ Signals \cap Effects = {}
  /\ Computeds \cap Effects = {}
  /\ None \notin Signals \cup Computeds \cup Effects \cup Values
ASSUME ProgramAssumption ==
  /\ MayRead \in [Observers -> SUBSET Sources]
  /\ MayWrite \in [Effects -> SUBSET Signals]
  /\ MayThrow \subseteq Observers \cup {None}
ASSUME BoundsAssumption ==
  {MaxStack, MaxTicks, MaxCleanups} \subseteq Nat /\ MaxLoops \in Nat \ {0}

VARIABLES
  val,             \* node.value of every source
  deps, subs,      \* node.deps of observers, node.subs of sources
  stale, hasValue, computing,   \* the flags of a computed
  status,          \* "absent", "live" (in the registry) or "disposed"
  cleanups,        \* how many cleanup callbacks an effect holds
  currentObserver, \* graph.ts: who track() links
  activeEffect,    \* effect.ts: who onCleanup() registers with
  effectQ,         \* scheduler.ts: the effects waiting for a flush
  scheduled,       \* scheduler.ts: a flush is expected to be on its way
  ticks,           \* flushes queued with queueMicrotask
  batchDepth,
  stack,           \* the calls in progress, innermost last
  raised,          \* the exception in flight
  seen,            \* history: the value an observer last read of a source
  cut,             \* history: what it read and was unlinked from by a dispose()
  dropped          \* history: effects a flush took and never ran

nodeVars  == <<val, deps, subs, stale, hasValue, computing, seen, cut>>
queueVars == <<effectQ, scheduled, ticks>>
vars == <<nodeVars, status, cleanups, currentObserver, activeEffect,
          queueVars, batchDepth, stack, raised, dropped>>

-----------------------------------------------------------------------------
(* The call stack *)

Errors == {"none", "error", "cycle"}
FrameKinds == {"computed", "effect", "batch", "flush"}
Frames == [kind : FrameKinds, node : Observers \cup {None},
           prev : Observers \cup {None}, todo : SUBSET Effects,
           loops : Nat, rethrow : Errors]

\* A call of user code; prev is what withObserver restores at its end.
Call(k, n) == [kind |-> k, node |-> n, prev |-> currentObserver,
               todo |-> {}, loops |-> 0, rethrow |-> "none"]

\* A call of flushJobsTwoPhase; r is the exception it was entered with.
FlushCall(r) == [kind |-> "flush", node |-> None, prev |-> None,
                 todo |-> {}, loops |-> 0, rethrow |-> r]

Idle == stack = <<>>
Top  == Last(stack)
TopIs(kinds) == stack # <<>> /\ Top.kind \in kinds
Push(f) == stack' = Append(stack, f)
Pop     == stack' = Front(stack)
ReplaceTop(f) == stack' = Append(Front(stack), f)

OnStack(k, n) == \E i \in DOMAIN stack : stack[i].kind = k /\ stack[i].node = n

\* User code has control; Imperative, and it is not a computed's function.
UserCode   == raised = "none" /\ (Idle \/ TopIs({"computed", "effect", "batch"}))
Imperative == raised = "none" /\ (Idle \/ TopIs({"effect", "batch"}))

-----------------------------------------------------------------------------
(* The graph: link, unlink and markStale *)

NoReads == [s \in Sources |-> None]

\* Mutant of LinkSubs: track() without the check that somebody is observing.
LinkSubsUnchecked(o, d) == [subs EXCEPT ![d] = @ \cup {o}]

\* The graph after link(o, d); nothing happens when nobody (o = None) observes.
LinkDeps(o, d) == IF o = None THEN deps ELSE [deps EXCEPT ![o] = @ \cup {d}]
LinkSubs(o, d) == IF o = None THEN subs ELSE [subs EXCEPT ![d] = @ \cup {o}]

\* track(d) while o is observing.
Track(o, d) == deps' = LinkDeps(o, d) /\ subs' = LinkSubs(o, d)

\* Mutant of UnlinkSubs: unlink() forgets the subscriber's side.
UnlinkSubsForgotten(o, D, S) == S

\* The graph D, S after for (d of [...o.deps]) unlink(o, d).
UnlinkDeps(o, D)    == [D EXCEPT ![o] = {}]
UnlinkSubs(o, D, S) == [s \in Sources |-> IF s \in D[o] THEN S[s] \ {o} ELSE S[s]]

\* Mutant of MarkClosed: only the direct subscribers are marked.
MarkClosedDirect(M, s) == \A c \in Computeds : (~stale[c] /\ c \in subs[s]) => c \in M

\* The computeds that set(s) marks stale: markStale follows the subscribers
\* that are computeds and stops at those that are stale already.
MarkClosed(M, s) ==
  \A c \in Computeds :
    (~stale[c] /\ (c \in subs[s] \/ \E b \in M : c \in subs[b])) => c \in M
Marked(s) == {c \in Computeds : \A M \in SUBSET Computeds : MarkClosed(M, s) => c \in M}

\* Mutant of Notified: markStale does not schedule the effects it meets.
NotifiedDirect(s) == {e \in Effects : status[e] = "live" /\ e \in subs[s]}

\* The effects that set(s) schedules, on the way.
Notified(s) ==
  {e \in Effects : /\ status[e] = "live"
                   /\ e \in subs[s] \/ \E c \in Marked(s) : e \in subs[c]}

\* Mutant of Enqueue: nothing is added when a flush is expected already.
EnqueueUnlessScheduled(E) ==
  IF scheduled \/ E = {} THEN UNCHANGED queueVars
  ELSE /\ effectQ' = effectQ \cup E
       /\ IF batchDepth = 0
          THEN ticks < MaxTicks /\ scheduled' = TRUE /\ ticks' = ticks + 1
          ELSE UNCHANGED <<scheduled, ticks>>

\* scheduleJob for every effect of E.
Enqueue(E) ==
  /\ effectQ' = effectQ \cup E
  /\ IF E # {} /\ ~scheduled /\ batchDepth = 0
     THEN ticks < MaxTicks /\ scheduled' = TRUE /\ ticks' = ticks + 1
     ELSE UNCHANGED <<scheduled, ticks>>

-----------------------------------------------------------------------------
Init ==
  /\ val \in {f \in [Sources -> Values \cup {None}] :
                \A s \in Sources : f[s] = None <=> s \in Computeds}
  /\ deps = [o \in Observers |-> {}] /\ subs = [s \in Sources |-> {}]
  /\ stale = [c \in Computeds |-> TRUE]
  /\ hasValue = [c \in Computeds |-> FALSE]
  /\ computing = [c \in Computeds |-> FALSE]
  /\ status = [e \in Effects |-> "absent"] /\ cleanups = [e \in Effects |-> 0]
  /\ currentObserver = None /\ activeEffect = None
  /\ effectQ = {} /\ scheduled = FALSE /\ ticks = 0 /\ batchDepth = 0
  /\ stack = <<>> /\ raised = "none"
  /\ seen = [o \in Observers |-> NoReads] /\ cut = [o \in Observers |-> {}]
  /\ dropped = {}

-----------------------------------------------------------------------------
(* Signals and computeds *)

MayReadNow(d) == currentObserver # None => d \in MayRead[currentObserver]
Fresh(d) == d \in Computeds => (~stale[d] /\ hasValue[d])

Remember(o, d, v) ==
  /\ seen' = IF o = None THEN seen ELSE [seen EXCEPT ![o][d] = v]
  /\ cut' = IF o = None THEN cut ELSE [cut EXCEPT ![o] = @ \ {d}]

\* What o has read is forgotten: it is about to run again, or never will.
Forget(o) == seen' = [seen EXCEPT ![o] = NoReads] /\ cut' = [cut EXCEPT ![o] = {}]

\* get() of a signal, or of a computed whose value is still good.
ReadFresh(d) ==
  /\ UserCode /\ MayReadNow(d)
  /\ Fresh(d)
  /\ Track(currentObserver, d) /\ Remember(currentObserver, d, val[d])
  /\ UNCHANGED <<val, stale, hasValue, computing, status, cleanups, currentObserver,
                 activeEffect, queueVars, batchDepth, stack, raised, dropped>>

\* get() of a stale computed: recompute() drops the old dependencies and calls
\* the function, with the computed as the observer.
Recompute(c) ==
  /\ UserCode /\ MayReadNow(c) /\ Len(stack) < MaxStack
  /\ ~Fresh(c)
  /\ ~computing[c]
  /\ computing' = [computing EXCEPT ![c] = TRUE]
  /\ LET D == LinkDeps(currentObserver, c)
         S == LinkSubs(currentObserver, c)
     IN  deps' = UnlinkDeps(c, D) /\ subs' = UnlinkSubs(c, D, S)
  /\ Forget(c)
  /\ Push(Call("computed", c)) /\ currentObserver' = c
  /\ UNCHANGED <<val, stale, hasValue, status, cleanups, activeEffect, queueVars,
                 batchDepth, raised, dropped>>

\* get() of a stale computed whose computing flag is set: recompute() throws.
ReadCycle(c) ==
  /\ UserCode /\ MayReadNow(c)
  /\ ~Fresh(c)
  /\ computing[c]
  /\ raised' = "cycle"
  /\ Track(currentObserver, c)
  /\ UNCHANGED <<val, stale, hasValue, computing, seen, cut, status, cleanups, currentObserver,
                 activeEffect, queueVars, batchDepth, stack, dropped>>

\* The function of the innermost computed returns v.
ComputedReturn(v) ==
  /\ raised = "none" /\ TopIs({"computed"})
  /\ val' = [val EXCEPT ![Top.node] = v]
  /\ hasValue' = [hasValue EXCEPT ![Top.node] = TRUE]
  /\ stale' = [stale EXCEPT ![Top.node] = FALSE]
  /\ computing' = [computing EXCEPT ![Top.node] = FALSE]
  /\ Remember(Top.prev, Top.node, v)
  /\ currentObserver' = Top.prev /\ Pop
  /\ UNCHANGED <<deps, subs, status, cleanups, activeEffect, queueVars, batchDepth,
                 raised, dropped>>

\* dispose() of a computed: it lets go of both sides of the graph.  The
\* computeds that have read it are not marked stale.
DisposeComputed(c) ==
  /\ Imperative
  /\ deps' = [o \in Observers |-> IF o = c THEN {} ELSE
                                  IF o \in subs[c] THEN deps[o] \ {c} ELSE deps[o]]
  /\ subs' = [UnlinkSubs(c, deps, subs) EXCEPT ![c] = {}]
  /\ stale' = [stale EXCEPT ![c] = TRUE]
  /\ hasValue' = [hasValue EXCEPT ![c] = FALSE]
  /\ seen' = [seen EXCEPT ![c] = NoReads]
  /\ cut' = [o \in Observers |-> IF o = c THEN {} ELSE
                                 IF o \in subs[c] THEN cut[o] \cup {c} ELSE cut[o]]
  /\ UNCHANGED <<val, computing, status, cleanups, currentObserver, activeEffect,
                 queueVars, batchDepth, stack, raised, dropped>>

\* set() of a signal to another value; setting the same value does nothing.
SetSignal(s, v) ==
  /\ Imperative
  /\ currentObserver # None => s \in MayWrite[currentObserver]
  /\ val[s] # v
  /\ val' = [val EXCEPT ![s] = v]
  /\ stale' = [c \in Computeds |-> stale[c] \/ c \in Marked(s)]
  /\ Enqueue(Notified(s))
  /\ UNCHANGED <<deps, subs, hasValue, computing, seen, cut, status, cleanups, currentObserver,
                 activeEffect, batchDepth, stack, raised, dropped>>

-----------------------------------------------------------------------------
(* Effects *)

\* EffectInstance.run() up to the call of the user's function.
StartRun(e, base) ==
  /\ cleanups' = [cleanups EXCEPT ![e] = 0]
  /\ deps' = UnlinkDeps(e, deps) /\ subs' = UnlinkSubs(e, deps, subs)
  /\ Forget(e)
  /\ activeEffect' = e /\ currentObserver' = e
  /\ stack' = Append(base, Call("effect", e))
  /\ dropped' = dropped \ {e}

\* createEffect(): registers the effect and runs it at once.
CreateEffect(e) ==
  /\ Imperative /\ Len(stack) < MaxStack
  /\ status[e] = "absent"
  /\ status' = [status EXCEPT ![e] = "live"]
  /\ StartRun(e, stack)
  /\ UNCHANGED <<val, stale, hasValue, computing, queueVars, batchDepth, raised>>

\* onCleanup() from user code: registers with whatever effect is active.
OnCleanup ==
  /\ Imperative
  /\ activeEffect # None
  /\ cleanups[activeEffect] < MaxCleanups
  /\ cleanups' = [cleanups EXCEPT ![activeEffect] = @ + 1]
  /\ UNCHANGED <<nodeVars, status, currentObserver, activeEffect, queueVars, batchDepth,
                 stack, raised, dropped>>

\* Mutant of LeaveEffect: activeEffect is not reset.
LeaveEffectActive == UNCHANGED activeEffect /\ currentObserver' = Top.prev /\ Pop

\* What the end of run() does, by return or by exception.
LeaveEffect == activeEffect' = None /\ currentObserver' = Top.prev /\ Pop

\* The effect's function returns, with or without a cleanup callback.
EffectReturn ==
  /\ raised = "none" /\ TopIs({"effect"})
  /\ \E extra \in {0, 1} :
       /\ cleanups[Top.node] + extra <= MaxCleanups
       /\ cleanups' = [cleanups EXCEPT ![Top.node] = @ + extra]
  /\ LeaveEffect
  /\ UNCHANGED <<nodeVars, status, queueVars, batchDepth, raised, dropped>>

\* dispose() of an effect, by anyone, at any time (also by its own function).
DisposeEffect(e) ==
  /\ Imperative
  /\ status[e] = "live"
  /\ status' = [status EXCEPT ![e] = "disposed"]
  /\ cleanups' = [cleanups EXCEPT ![e] = 0]
  /\ deps' = UnlinkDeps(e, deps) /\ subs' = UnlinkSubs(e, deps, subs)
  /\ Forget(e)
  /\ dropped' = dropped \ {e}
  /\ UNCHANGED <<val, stale, hasValue, computing, currentObserver, activeEffect, queueVars,
                 batchDepth, stack, raised>>

-----------------------------------------------------------------------------
(* batch() and the flush *)

\* Room is kept for the flush at the end of the batch and the effects it runs.
BatchBegin ==
  /\ Imperative /\ Len(stack) + 1 < MaxStack
  /\ batchDepth' = batchDepth + 1
  /\ Push(Call("batch", None))
  /\ UNCHANGED <<nodeVars, status, cleanups, currentObserver, activeEffect, queueVars,
                 raised, dropped>>

\* Mutant of LeaveBatch: every batch flushes, nested ones too.
LeaveBatchAlwaysFlush(r) ==
  /\ batchDepth' = batchDepth - 1
  /\ ReplaceTop(FlushCall(r)) /\ scheduled' = FALSE /\ raised' = "none"
  /\ UNCHANGED <<nodeVars, status, cleanups, currentObserver, activeEffect, effectQ, ticks,
                 dropped>>

\* The finally clause of batch(): the outermost batch flushes, even when its
\* function threw; the exception r then waits for the end of the flush.
LeaveBatch(r) ==
  /\ batchDepth' = batchDepth - 1
  /\ IF batchDepth = 1
     THEN ReplaceTop(FlushCall(r)) /\ scheduled' = FALSE /\ raised' = "none"
     ELSE Pop /\ raised' = r /\ UNCHANGED scheduled
  /\ UNCHANGED <<nodeVars, status, cleanups, currentObserver, activeEffect, effectQ, ticks,
                 dropped>>

BatchEnd == raised = "none" /\ TopIs({"batch"}) /\ LeaveBatch("none")

\* The microtask queued by scheduleJob runs.
MicrotaskFlush ==
  /\ Idle /\ raised = "none" /\ ticks > 0
  /\ ticks' = ticks - 1 /\ scheduled' = FALSE
  /\ Push(FlushCall("none"))
  /\ UNCHANGED <<nodeVars, status, cleanups, currentObserver, activeEffect, effectQ,
                 batchDepth, raised, dropped>>

Flushing == raised = "none" /\ TopIs({"flush"})

\* One round of the flush loop takes the whole queue.
FlushTakeBatch ==
  /\ Flushing /\ Top.todo = {} /\ effectQ # {}
  /\ Top.loops < MaxLoops
  /\ ReplaceTop([Top EXCEPT !.todo = effectQ, !.loops = @ + 1])
  /\ effectQ' = {}
  /\ UNCHANGED <<nodeVars, status, cleanups, currentObserver, activeEffect, scheduled,
                 ticks, batchDepth, raised, dropped>>

\* The guard of the loop: "Infinite update loop".
FlushGiveUp ==
  /\ Flushing /\ Top.todo = {} /\ effectQ # {}
  /\ Top.loops >= MaxLoops
  /\ raised' = "error"
  /\ UNCHANGED <<nodeVars, status, cleanups, currentObserver, activeEffect, queueVars,
                 batchDepth, stack, dropped>>

\* job.run() for an effect of the batch that was disposed meanwhile.
FlushSkip(e) ==
  /\ Flushing /\ e \in Top.todo /\ status[e] = "disposed"
  /\ ReplaceTop([Top EXCEPT !.todo = @ \ {e}])
  /\ UNCHANGED <<nodeVars, status, cleanups, currentObserver, activeEffect, queueVars,
                 batchDepth, raised, dropped>>

\* Mutant of FlushRun: run() does not look at the disposed flag.
FlushRunDisposed(e) ==
  /\ Flushing /\ e \in Top.todo
  /\ Len(stack) < MaxStack
  /\ StartRun(e, Append(Front(stack), [Top EXCEPT !.todo = @ \ {e}]))
  /\ UNCHANGED <<val, stale, hasValue, computing, status, queueVars, batchDepth, raised>>

\* job.run() for the others.
FlushRun(e) ==
  /\ Flushing /\ e \in Top.todo /\ status[e] # "disposed"
  /\ Len(stack) < MaxStack
  /\ StartRun(e, Append(Front(stack), [Top EXCEPT !.todo = @ \ {e}]))
  /\ UNCHANGED <<val, stale, hasValue, computing, status, queueVars, batchDepth, raised>>

\* Both queues are empty; an exception that entered the flush goes on.
FlushDone ==
  /\ Flushing /\ Top.todo = {} /\ effectQ = {}
  /\ raised' = Top.rethrow /\ Pop
  /\ UNCHANGED <<nodeVars, status, cleanups, currentObserver, activeEffect, queueVars,
                 batchDepth, dropped>>

-----------------------------------------------------------------------------
(* Exceptions *)

Throw ==
  /\ UserCode /\ currentObserver \in MayThrow /\ ~Idle
  /\ raised' = "error"
  /\ UNCHANGED <<nodeVars, status, cleanups, currentObserver, activeEffect, queueVars,
                 batchDepth, stack, dropped>>

\* A try/catch in an effect, in a batch or in the main program, or the host
\* reporting an exception nobody caught.
Catch ==
  /\ raised # "none"
  /\ Idle \/ TopIs({"effect", "batch"})
  /\ raised' = "none"
  /\ UNCHANGED <<nodeVars, status, cleanups, currentObserver, activeEffect, queueVars,
                 batchDepth, stack, dropped>>

\* recompute() has no finally clause: only withObserver's restores its state.
UnwindComputed ==
  /\ raised # "none" /\ TopIs({"computed"})
  /\ currentObserver' = Top.prev /\ Pop
  /\ UNCHANGED <<nodeVars, status, cleanups, activeEffect, queueVars, batchDepth, raised,
                 dropped>>

UnwindEffect ==
  /\ raised # "none" /\ TopIs({"effect"})
  /\ LeaveEffect
  /\ UNCHANGED <<nodeVars, status, cleanups, queueVars, batchDepth, raised, dropped>>

\* Mutant of UnwindBatch: batch() without its finally clause.
UnwindBatchNoFinally ==
  /\ raised # "none" /\ TopIs({"batch"})
  /\ Pop
  /\ UNCHANGED <<nodeVars, status, cleanups, currentObserver, activeEffect, queueVars,
                 batchDepth, raised, dropped>>

UnwindBatch == raised # "none" /\ TopIs({"batch"}) /\ LeaveBatch(raised)

\* The rest of the batch a flush has taken is lost; a new exception replaces
\* the one the flush was entered with.
UnwindFlush ==
  /\ raised # "none" /\ TopIs({"flush"})
  /\ dropped' = dropped \cup {e \in Top.todo : status[e] = "live"}
  /\ Pop
  /\ UNCHANGED <<nodeVars, status, cleanups, currentObserver, activeEffect, queueVars,
                 batchDepth, raised>>

-----------------------------------------------------------------------------
Next ==
  \/ \E d \in Sources : ReadFresh(d)
  \/ \E c \in Computeds : Recompute(c) \/ ReadCycle(c) \/ DisposeComputed(c)
  \/ \E v \in Values : ComputedReturn(v)
  \/ \E s \in Signals, v \in Values : SetSignal(s, v)
  \/ \E e \in Effects : \/ CreateEffect(e) \/ DisposeEffect(e)
                        \/ FlushSkip(e) \/ FlushRun(e)
  \/ OnCleanup \/ EffectReturn
  \/ BatchBegin \/ BatchEnd
  \/ MicrotaskFlush \/ FlushTakeBatch \/ FlushGiveUp \/ FlushDone
  \/ Throw \/ Catch
  \/ UnwindComputed \/ UnwindEffect \/ UnwindBatch \/ UnwindFlush

Spec == Init /\ [][Next]_vars
-----------------------------------------------------------------------------
(* Properties *)

\* Every variable has its type.
TypeOK ==
  /\ val \in [Sources -> Values \cup {None}]
  /\ deps \in [Observers -> SUBSET Sources] /\ subs \in [Sources -> SUBSET Observers]
  /\ stale \in [Computeds -> BOOLEAN] /\ hasValue \in [Computeds -> BOOLEAN]
  /\ computing \in [Computeds -> BOOLEAN]
  /\ status \in [Effects -> {"absent", "live", "disposed"}]
  /\ cleanups \in [Effects -> Nat]
  /\ currentObserver \in Observers \cup {None} /\ activeEffect \in Effects \cup {None}
  /\ effectQ \in SUBSET Effects /\ scheduled \in BOOLEAN
  /\ ticks \in Nat /\ batchDepth \in Int
  /\ stack \in Seq(Frames) /\ raised \in Errors
  /\ seen \in [Observers -> [Sources -> Values \cup {None}]]
  /\ cut \in [Observers -> SUBSET Computeds]
  /\ dropped \in SUBSET Effects

\* The two directions of the graph agree at all times: whoever depends on a
\* source is notified by it, and nobody else is.
LinksSymmetric ==
  \A o \in Observers, s \in Sources : s \in deps[o] <=> o \in subs[s]

\* What o last read of d is what d is now.
Current(o, d) == seen[o][d] = val[d] /\ (d \in Computeds => ~stale[d])

\* What the last evaluation of o read, linked to o or not.
Reads(o) == {d \in Sources : seen[o][d] # None}

\* The cached value a computed hands out without recomputing was made from
\* the present values of all it read, and those that are computeds are good
\* themselves: no glitch, however writes, batches and exceptions interleave
\* with the evaluation.  One thing it read is set apart: a computed that has
\* been disposed of since (see FreshThroughDisposal).
ComputedFresh ==
  \A c \in Computeds : ~stale[c] => \A d \in Reads(c) \ cut[c] : Current(c, d)

\* Not so, and checked by no run: dispose() of a computed unlinks those that
\* have read it without marking them stale (computed.ts:68-75).  They go on
\* handing out the value they made of it when a signal it read is set, and
\* also when it is evaluated again and has another value.
FreshThroughDisposal ==
  \A c \in Computeds : ~stale[c] => \A d \in Reads(c) : seen[c][d] = val[d]

\* An effect will be run by a flush that has started or is yet to start.
Pending(e) == e \in effectQ \/ \E i \in DOMAIN stack : e \in stack[i].todo

\* A live effect that depends on something that has changed since it read it,
\* even during its own run, is waiting for a flush.  What it depends on is what
\* it is linked to: dispose() of a computed unlinks the effects that read it,
\* and schedules none of them.  Two causes are set apart:
\* a flush that an exception ended early, and a computed that is being
\* evaluated or whose function threw.
NoLostUpdate ==
  \A e \in Effects : status[e] = "live" =>
    \/ Pending(e) \/ e \in dropped
    \/ \A d \in deps[e] : Current(e, d) \/ (d \in Computeds /\ computing[d])

\* Effects are never left waiting with no flush on its way, whatever batches
\* and exceptions did to batchDepth and to the scheduled flag.
NoStrandedQueue == (Idle /\ effectQ # {}) => ticks > 0

\* "Batch-safe updates": no flush runs effects while a batch is open, so no
\* effect but one created inside the batch observes its intermediate writes.
NoFlushInsideBatch ==
  \A i, j \in DOMAIN stack :
    (i < j /\ stack[i].kind = "batch") => stack[j].kind # "flush"

\* A cleanup is registered with the effect whose function is running, never
\* with one that has returned or with an outer one.
CleanupGoesToRunningEffect ==
  activeEffect # None =>
    \E i \in DOMAIN stack :
      /\ stack[i].kind = "effect" /\ stack[i].node = activeEffect
      /\ \A j \in (i + 1)..Len(stack) : stack[j].kind # "effect"

\* Once an effect is disposed and its function has returned it never runs
\* again, reads nothing more and holds no further cleanups, though it may
\* still be queued, or be part of the batch a flush is running.
DisposedIsInert ==
  [][\A e \in Effects :
       status[e] = "disposed" /\ ~OnStack("effect", e) =>
         /\ ~OnStack("effect", e)'
         /\ deps'[e] \subseteq deps[e]
         /\ cleanups'[e] = cleanups[e]]_vars

\* Claimed by docs/architecture.md ("Cycle detection") and by the message of
\* the error; the code violates it: recompute() throws "Cycle detected" only
\* when some computed is being evaluated.
CycleErrorIsReal ==
  [][(raised = "none" /\ raised' = "cycle" /\ UNCHANGED stack) =>
       \E c \in Computeds : OnStack("computed", c)]_vars

\* Claimed by docs/rfc-core-runtime.md ("cleanup tied to the current graph
\* effect execution"); the code violates it: wherever the code of an effect
\* has control, onCleanup() registers with that effect.
CleanupTiedToExecution ==
  (Imperative /\ currentObserver # None) => activeEffect = currentObserver
=============================================================================
