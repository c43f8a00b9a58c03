------------------------------ MODULE Scheduler ------------------------------
(***************************************************************************)
(* scheduler.ts on its own: both job queues, batch(), flushSync(), the     *)
(* two-phase flush, and the transactions, synchronous and asynchronous     *)
(* ones, with the part of a signal's set() they rely on.  Computed jobs    *)
(* and transactions are internal: index.ts exports only batch(), whose use *)
(* by the graph is the subject of ReactiveGraph.                           *)
(*                                                                         *)
(* As there, the calls in progress are part of the state, and user code    *)
(* (the main program, the functions of batches and transactions, and the   *)
(* jobs) makes any calls in any order.  Abstractions: jobs are not         *)
(* disposed; a signal notifies a fixed set of effect jobs; the computeds   *)
(* a rollback marks stale are left out (with notifications muted, marking  *)
(* schedules nothing).                                                     *)
(***************************************************************************)
EXTENDS Integers, FiniteSets, SequencesExt

CONSTANTS Signals, Values, Transactions,
          EffectJobs, ComputedJobs,
          Notifies,    \* the effect jobs that depend on a signal
          Priority,    \* job.priority of an effect job
          None

CONSTANTS MaxStack,    \* bound: nested calls of the runtime
          MaxLoops,    \* the guard of flushJobsTwoPhase (10000 in the code)
          MaxTicks     \* bound: flushes waiting in the microtask queue

ASSUME KindsAssumption == None \notin Values /\ None \notin Transactions
ASSUME ProgramAssumption ==
  Notifies \in [Signals -> SUBSET EffectJobs] /\ Priority \in [EffectJobs -> Int]
ASSUME BoundsAssumption == {MaxStack, MaxTicks} \subseteq Nat /\ MaxLoops \in Nat \ {0}

VARIABLES
  val,          \* node.value of every signal
  computeQ,     \* the computed jobs waiting, oldest first
  effectQ,      \* the effect jobs waiting
  scheduled, batchDepth, atomicDepth,
  logs,         \* atomicLogs: the previous value of what was written, or None
  ticks,        \* flushes queued with queueMicrotask
  stack,        \* the calls in progress, innermost last
  raised,       \* an exception is in flight
  tx,           \* "closed", "running" (on the stack) or "waiting" (for its promise)
  begun,        \* history: the values when a transaction began
  foreign,      \* history: what was written while it waited for its promise
  owners,       \* history: the transaction that each log was made for
  crossed,      \* history: a transaction has ended with the log of another
  owed,         \* history: effect jobs scheduled since they last ran
  lost,         \* history: those a rollback or a flush cut short left behind
  botched       \* history: the flush at the end of a commit has thrown

queueVars == <<computeQ, effectQ, scheduled, ticks>>
txVars    == <<atomicDepth, logs, tx, begun, foreign, owners, crossed>>
vars == <<val, queueVars, batchDepth, txVars, stack, raised, owed, lost, botched>>

-----------------------------------------------------------------------------
(* Calls *)

\* What follows a flush: batch() and microtasks pass its exception on, and
\* the finally clause of batch() its own; a commit rolls back.
Frames ==
  [kind : {"batch", "atomic", "job"}, tx : Transactions \cup {None}] \cup
  [kind : {"flush"}, after : {"return", "rethrow", "commit", "sync"},
   phase : {"compute", "effects"}, todo : SUBSET EffectJobs, loops : 0 .. MaxLoops]

Call(k, t)   == [kind |-> k, tx |-> t]
FlushCall(a) == [kind |-> "flush", after |-> a, phase |-> "effects", todo |-> {}, loops |-> 0]

Idle == stack = <<>>
Top  == Last(stack)
TopIs(kind) == stack # <<>> /\ Top.kind = kind
Push(f) == stack' = Append(stack, f)
Pop     == stack' = Front(stack)
ReplaceTop(f) == stack' = Append(Front(stack), f)

UserCode == ~raised /\ ~TopIs("flush")

\* The jobs some flush has taken and not yet run.
Taken == UNION {stack[i].todo : i \in {j \in DOMAIN stack : stack[j].kind = "flush"}}

-----------------------------------------------------------------------------
NoLog == [s \in Signals |-> None]

Init ==
  /\ val \in [Signals -> Values]
  /\ computeQ = <<>> /\ effectQ = {} /\ scheduled = FALSE /\ ticks = 0
  /\ batchDepth = 0 /\ atomicDepth = 0 /\ logs = <<>>
  /\ stack = <<>> /\ raised = FALSE
  /\ tx = [t \in Transactions |-> "closed"]
  /\ begun = [t \in Transactions |-> NoLog] /\ foreign = [t \in Transactions |-> {}]
  /\ owners = <<>> /\ crossed = FALSE
  /\ owed = {} /\ lost = {} /\ botched = FALSE

-----------------------------------------------------------------------------
(* scheduleJob() and set() *)

\* The end of scheduleJob(): a flush is asked for.
Wake == IF ~scheduled /\ batchDepth = 0
        THEN ticks < MaxTicks /\ scheduled' = TRUE /\ ticks' = ticks + 1
        ELSE UNCHANGED <<scheduled, ticks>>

\* Mutant of ScheduleEffects: a job that is running does not schedule itself.
ScheduleEffectsButTop(E) ==
  /\ effectQ' = effectQ \cup (IF TopIs("job") THEN {} ELSE E)
  /\ owed' = owed \cup E /\ lost' = lost \ E
  /\ UNCHANGED computeQ
  /\ IF E # {} THEN Wake ELSE UNCHANGED <<scheduled, ticks>>

ScheduleEffects(E) ==
  /\ effectQ' = effectQ \cup E
  /\ owed' = owed \cup E /\ lost' = lost \ E
  /\ UNCHANGED computeQ
  /\ IF E # {} THEN Wake ELSE UNCHANGED <<scheduled, ticks>>

ScheduleEffect(e) ==
  /\ UserCode
  /\ ScheduleEffects({e})
  /\ UNCHANGED <<val, batchDepth, txVars, stack, raised, botched>>

\* Mutant of ScheduleComputed: a job can be queued twice.
ScheduleComputedTwice(c) ==
  /\ UserCode
  /\ computeQ' = Append(computeQ, c)
  /\ Wake
  /\ UNCHANGED <<val, effectQ, batchDepth, txVars, stack, raised, owed, lost, botched>>

ScheduleComputed(c) ==
  /\ UserCode
  /\ computeQ' = IF c \in Range(computeQ) THEN computeQ ELSE Append(computeQ, c)
  /\ Wake
  /\ UNCHANGED <<val, effectQ, batchDepth, txVars, stack, raised, owed, lost, botched>>

\* Mutant of Record: a later write replaces the value that was logged.
RecordLast(s) ==
  IF atomicDepth > 0 /\ logs # <<>>
  THEN [logs EXCEPT ![Len(logs)][s] = val[s]] ELSE logs

\* recordAtomicWrite(): the newest log keeps the value of before the first write.
Record(s) ==
  IF atomicDepth > 0 /\ logs # <<>> /\ Last(logs)[s] = None
  THEN [logs EXCEPT ![Len(logs)][s] = val[s]] ELSE logs

SetSignal(s, v) ==
  /\ UserCode
  /\ val[s] # v
  /\ logs' = Record(s)
  /\ val' = [val EXCEPT ![s] = v]
  /\ ScheduleEffects(Notifies[s])
  /\ foreign' = [t \in Transactions |->
       IF tx[t] = "waiting" THEN foreign[t] \cup {s} ELSE foreign[t]]
  /\ UNCHANGED <<batchDepth, atomicDepth, tx, begun, owners, crossed, stack, raised, botched>>

-----------------------------------------------------------------------------
(* batch() *)

\* Room is kept for the flush at its end and for the jobs of that flush.
BatchBegin ==
  /\ UserCode /\ Len(stack) + 1 < MaxStack
  /\ batchDepth' = batchDepth + 1
  /\ Push(Call("batch", None))
  /\ UNCHANGED <<val, queueVars, txVars, raised, owed, lost, botched>>

\* Mutant of OutermostFlush: every batch flushes.
OutermostFlushAlways(base, after) ==
  stack' = Append(base, FlushCall(after)) /\ scheduled' = FALSE

\* Mutant of OutermostFlush: only when a flush has been asked for.
OutermostFlushScheduled(base, after) ==
  IF batchDepth = 1 /\ scheduled
  THEN stack' = Append(base, FlushCall(after)) /\ scheduled' = FALSE
  ELSE stack' = base /\ UNCHANGED scheduled

\* if (batchDepth === 0) flushJobsTwoPhase(), after the decrement.
OutermostFlush(base, after) ==
  IF batchDepth = 1
  THEN stack' = Append(base, FlushCall(after)) /\ scheduled' = FALSE
  ELSE stack' = base /\ UNCHANGED scheduled

\* Its finally clause, after a return or an exception.
BatchEnd ==
  /\ TopIs("batch")
  /\ batchDepth' = batchDepth - 1
  /\ OutermostFlush(Front(stack), IF raised THEN "rethrow" ELSE "return")
  /\ raised' = (raised /\ batchDepth # 1)
  /\ UNCHANGED <<val, computeQ, effectQ, ticks, txVars, owed, lost, botched>>

-----------------------------------------------------------------------------
(* Transactions *)

\* Mutant of Merged: the outer log takes over the values of the inner one.
MergedInnerFirst ==
  [s \in Signals |-> LET inner == Last(logs)[s] outer == Last(Front(logs))[s]
                     IN  IF inner = None THEN outer ELSE inner]

\* mergeChildIntoParent(): what the outer log has already stays.
Merged ==
  [s \in Signals |-> LET inner == Last(logs)[s] outer == Last(Front(logs))[s]
                     IN  IF outer = None THEN inner ELSE outer]

AtomicBegin(t) ==
  /\ UserCode /\ Len(stack) + 1 < MaxStack /\ ~botched
  /\ tx[t] = "closed" /\ tx' = [tx EXCEPT ![t] = "running"]
  /\ batchDepth' = batchDepth + 1 /\ atomicDepth' = atomicDepth + 1
  /\ logs' = Append(logs, NoLog)
  /\ begun' = [begun EXCEPT ![t] = val] /\ UNCHANGED foreign
  /\ owners' = Append(owners, t) /\ UNCHANGED crossed
  /\ Push(Call("atomic", t))
  /\ UNCHANGED <<val, queueVars, raised, owed, lost, botched>>

\* Once the flush of a commit has thrown, which leaves the depths wrong, no
\* transaction begins or ends: what the code does then is the subject of
\* UnwindCommit.
Close(t) ==
  /\ ~botched
  /\ tx' = [tx EXCEPT ![t] = "closed"]
  /\ owners' = Front(owners)
  /\ crossed' = (crossed \/ t # Last(owners))
  /\ begun' = [begun EXCEPT ![t] = NoLog] /\ foreign' = [foreign EXCEPT ![t] = {}]

\* exitCommit() up to the flush, and what follows that flush.
Commit(t, base, after) ==
  /\ Close(t)
  /\ logs' = IF atomicDepth > 1 THEN Append(Front(Front(logs)), Merged) ELSE Front(logs)
  /\ atomicDepth' = atomicDepth - 1 /\ batchDepth' = batchDepth - 1
  /\ OutermostFlush(base, after)
  /\ UNCHANGED <<val, computeQ, effectQ, ticks, raised, owed, lost, botched>>

\* Mutant of Undo: batchDepth is not decremented.
UndoKeepsBatch ==
  /\ val' = [s \in Signals |-> IF Last(logs)[s] = None THEN val[s] ELSE Last(logs)[s]]
  /\ logs' = Front(logs)
  /\ computeQ' = <<>> /\ effectQ' = {} /\ scheduled' = FALSE
  /\ UNCHANGED batchDepth

\* exitRollback() with a log: it pops the newest one, whosever that is.
Undo ==
  /\ val' = [s \in Signals |-> IF Last(logs)[s] = None THEN val[s] ELSE Last(logs)[s]]
  /\ logs' = Front(logs)
  /\ computeQ' = <<>> /\ effectQ' = {} /\ scheduled' = FALSE
  /\ batchDepth' = batchDepth - 1

\* Every open transaction has a log (the exception is UnwindCommit).
Rollback ==
  /\ atomicDepth' = atomicDepth - 1
  /\ Undo
  /\ lost' = lost \cup effectQ
  /\ UNCHANGED <<ticks, owed>>

\* The function returns a value.
AtomicReturn ==
  /\ ~raised /\ TopIs("atomic")
  /\ Commit(Top.tx, Front(stack), "commit")

\* It returns a promise: the transaction stays open when the call has ended.
AtomicReturnPromise ==
  /\ ~raised /\ TopIs("atomic")
  /\ tx' = [tx EXCEPT ![Top.tx] = "waiting"]
  /\ Pop
  /\ UNCHANGED <<val, queueVars, batchDepth, atomicDepth, logs, begun, foreign, owners, crossed,
                 raised, owed, lost, botched>>

\* It throws.
AtomicThrow ==
  /\ raised /\ TopIs("atomic")
  /\ Close(Top.tx) /\ Rollback /\ Pop
  /\ UNCHANGED <<raised, botched>>

\* The microtasks of its promise.
AtomicResolved(t) ==
  /\ Idle /\ ~raised /\ tx[t] = "waiting"
  /\ Commit(t, stack, "return")

AtomicRejected(t) ==
  /\ Idle /\ ~raised /\ tx[t] = "waiting"
  /\ Close(t) /\ Rollback
  /\ UNCHANGED <<stack, raised, botched>>

-----------------------------------------------------------------------------
(* The flush *)

MicrotaskFlush ==
  /\ Idle /\ ~raised /\ ticks > 0
  /\ ticks' = ticks - 1 /\ scheduled' = FALSE
  /\ Push(FlushCall("return"))
  /\ UNCHANGED <<val, computeQ, effectQ, batchDepth, txVars, raised, owed, lost, botched>>

\* flushSync() when there is something to do.
FlushSync ==
  /\ UserCode /\ Len(stack) + 1 < MaxStack
  /\ scheduled \/ computeQ # <<>> \/ effectQ # {}
  /\ scheduled' = FALSE
  /\ Push(FlushCall("sync"))
  /\ UNCHANGED <<val, computeQ, effectQ, ticks, batchDepth, txVars, raised, owed, lost, botched>>

Flushing(phase) == ~raised /\ TopIs("flush") /\ Top.phase = phase
RoundOver == Flushing("effects") /\ Top.todo = {}

\* Another round, while there are jobs.
FlushRound ==
  /\ RoundOver /\ (computeQ # <<>> \/ effectQ # {})
  /\ Top.loops < MaxLoops
  /\ ReplaceTop([Top EXCEPT !.phase = "compute", !.loops = @ + 1])
  /\ UNCHANGED <<val, queueVars, batchDepth, txVars, raised, owed, lost, botched>>

\* "Infinite update loop".
FlushGiveUp ==
  /\ RoundOver /\ (computeQ # <<>> \/ effectQ # {})
  /\ Top.loops >= MaxLoops
  /\ raised' = TRUE
  /\ UNCHANGED <<val, queueVars, batchDepth, txVars, stack, owed, lost, botched>>

FlushRunComputed ==
  /\ Flushing("compute") /\ computeQ # <<>> /\ Len(stack) < MaxStack
  /\ computeQ' = Tail(computeQ)
  /\ Push(Call("job", None))
  /\ UNCHANGED <<val, effectQ, scheduled, ticks, batchDepth, txVars, raised, owed, lost, botched>>

FlushTakeEffects ==
  /\ Flushing("compute") /\ computeQ = <<>>
  /\ ReplaceTop([Top EXCEPT !.phase = "effects", !.todo = effectQ])
  /\ effectQ' = {}
  /\ UNCHANGED <<val, computeQ, scheduled, ticks, batchDepth, txVars, raised, owed, lost, botched>>

FlushRunEffect(e) ==
  /\ Flushing("effects") /\ e \in Top.todo /\ Len(stack) < MaxStack
  /\ \A f \in Top.todo : Priority[e] <= Priority[f]
  /\ stack' = Append(Append(Front(stack), [Top EXCEPT !.todo = @ \ {e}]), Call("job", None))
  /\ owed' = owed \ {e} /\ lost' = lost \ ({e} \ effectQ)
  /\ UNCHANGED <<val, queueVars, batchDepth, txVars, raised, botched>>

FlushDone ==
  /\ RoundOver /\ computeQ = <<>> /\ effectQ = {}
  /\ raised' = (Top.after = "rethrow") /\ Pop
  /\ UNCHANGED <<val, queueVars, batchDepth, txVars, owed, lost, botched>>

\* What is left behind when an exception ends a flush: the effects it had
\* taken, or those it had not come to because a computed job threw.
LeftBehind == Top.todo \cup (IF Top.phase = "compute" THEN effectQ ELSE {})

UnwindFlush ==
  /\ raised /\ TopIs("flush") /\ Top.after # "commit"
  /\ lost' = lost \cup LeftBehind
  /\ Pop
  /\ UNCHANGED <<val, queueVars, batchDepth, txVars, raised, owed, botched>>

\* The flush of a commit is inside the try of atomic(): its exception rolls
\* back a transaction that has been closed already.
UnwindCommit ==
  /\ raised /\ TopIs("flush") /\ Top.after = "commit"
  /\ botched' = TRUE
  /\ atomicDepth' = atomicDepth - 1
  /\ IF logs = <<>>
     THEN /\ lost' = lost \cup LeftBehind
          /\ UNCHANGED <<val, logs, computeQ, effectQ, scheduled, batchDepth>>
     ELSE /\ lost' = lost \cup Top.todo \cup effectQ
          /\ Undo
  /\ Pop
  /\ UNCHANGED <<ticks, tx, begun, foreign, owners, crossed, raised, owed>>

-----------------------------------------------------------------------------
(* Jobs and exceptions *)

JobReturn ==
  /\ ~raised /\ TopIs("job")
  /\ Pop
  /\ UNCHANGED <<val, queueVars, batchDepth, txVars, raised, owed, lost, botched>>

Throw ==
  /\ UserCode /\ ~Idle
  /\ raised' = TRUE
  /\ UNCHANGED <<val, queueVars, batchDepth, txVars, stack, owed, lost, botched>>

Catch ==
  /\ raised /\ ~TopIs("flush")
  /\ raised' = FALSE
  /\ UNCHANGED <<val, queueVars, batchDepth, txVars, stack, owed, lost, botched>>

UnwindJob ==
  /\ raised /\ TopIs("job")
  /\ Pop
  /\ UNCHANGED <<val, queueVars, batchDepth, txVars, raised, owed, lost, botched>>

-----------------------------------------------------------------------------
UserStep ==
  \/ \E e \in EffectJobs : ScheduleEffect(e)
  \/ \E c \in ComputedJobs : ScheduleComputed(c)
  \/ \E s \in Signals, v \in Values : SetSignal(s, v)
  \/ BatchBegin \/ BatchEnd \/ FlushSync
  \/ \E t \in Transactions : AtomicBegin(t)
  \/ AtomicReturn \/ AtomicReturnPromise
  \/ JobReturn \/ Throw \/ Catch

RuntimeStep ==
  \/ AtomicThrow \/ UnwindCommit \/ UnwindFlush \/ UnwindJob
  \/ \E t \in Transactions : AtomicResolved(t) \/ AtomicRejected(t)
  \/ MicrotaskFlush \/ FlushRound \/ FlushGiveUp
  \/ FlushRunComputed \/ FlushTakeEffects \/ FlushDone
  \/ \E e \in EffectJobs : FlushRunEffect(e)

Next == UserStep \/ RuntimeStep

Spec == Init /\ [][Next]_vars

-----------------------------------------------------------------------------
(* Properties *)

TypeOK ==
  /\ val \in [Signals -> Values]
  /\ computeQ \in Seq(ComputedJobs) /\ IsInjective(computeQ)
  /\ effectQ \in SUBSET EffectJobs /\ owed \in SUBSET EffectJobs /\ lost \in SUBSET EffectJobs
  /\ scheduled \in BOOLEAN /\ raised \in BOOLEAN /\ botched \in BOOLEAN /\ crossed \in BOOLEAN
  /\ ticks \in Nat /\ batchDepth \in Int /\ atomicDepth \in Int
  /\ logs \in Seq([Signals -> Values \cup {None}])
  /\ stack \in Seq(Frames)
  /\ tx \in [Transactions -> {"closed", "running", "waiting"}]
  /\ begun \in [Transactions -> [Signals -> Values \cup {None}]]
  /\ foreign \in [Transactions -> SUBSET Signals]
  /\ owners \in Seq(Transactions)

Open == {t \in Transactions : tx[t] # "closed"}
OpenBatches == {i \in DOMAIN stack : stack[i].kind = "batch"}

\* Whatever returns, throws or settles in whatever order, there is one log for
\* each open transaction, and batchDepth counts the open batches and
\* transactions: no flush is put off for ever and none runs too early.
DepthsAgree ==
  ~botched => /\ atomicDepth = Cardinality(Open) /\ Len(logs) = atomicDepth
              /\ batchDepth = Cardinality(OpenBatches) + atomicDepth

\* scheduleJob(): an effect job that was scheduled, by another job, by itself
\* or in a nested flush, is waiting or taken by a flush until it runs, unless
\* a rollback or an exception threw it away.
NoLostJob == owed \subseteq effectQ \cup Taken \cup lost

\* When the program is idle with nothing open, some flush is still to come
\* for every effect that waits (batch() flushes what it put off).
NoStrandedJobs ==
  Idle /\ ~raised /\ ~botched /\ Open = {} /\ effectQ \ lost # {} => ticks > 0

\* "batch() defers flushing until the outermost batch exits": inside an open
\* batch or transaction only flushSync() begins a flush.
NoFlushInsideCalls ==
  ~botched => \A i \in DOMAIN stack :
    stack[i].kind = "flush" /\ stack[i].after # "sync"
      => \A j \in 1 .. (i - 1) : stack[j].kind \notin {"batch", "atomic"}

RolledBack(t) == t \in Open /\ tx'[t] = "closed" /\ (AtomicThrow \/ AtomicRejected(t))

\* atomic(): as long as every transaction ends with its own log, a rollback
\* restores every value there was at the beginning, through several writes of
\* a signal, nested commits, and writes after an await.
RollbackRestores ==
  [][\A t \in Transactions :
       RolledBack(t) /\ ~botched /\ ~crossed' => val' = begun[t]]_vars

\* "rollback restores values": the values that only the transaction itself
\* may have changed are those of its beginning, whatever else is open.
RollbackRestoresOwn ==
  [][\A t \in Transactions : RolledBack(t) /\ ~botched
       => \A s \in Signals \ foreign[t] : val'[s] = begun[t][s]]_vars

\* "inAtomic() reflects current atomic depth".
InAtomicReflectsDepth == atomicDepth = Cardinality(Open)
=============================================================================
