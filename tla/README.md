# A verification of signal-kernel

signal-kernel is a small reactive runtime (signals, lazily evaluated computeds,
effects, batches) with packages built on it (promise and stream resources,
snapshots of the graph, adapters for React and Vue) and applications that show
how they are meant to be used. This directory holds TLA+ models of them, the TLC
runs that check them, and proofs, checked by TLAPS, of the properties that matter
most. Paths below are relative to `src/packages` unless they start with `docs`
or `examples`.

## 1. The system

### Components, their state and their operations

| component | state | operations |
|---|---|---|
| graph (`core/src/graph.ts`, `registry.ts`) | `deps`/`subs` of every node, `currentObserver`, the effect attached to an effect node | `link`, `unlink`, `track`, `withObserver`, registry `get`/`set`/`delete` |
| signals (`core/src/signal.ts`) | `value` | `get`, `set`, `peek` (`subscribe` needs a node, and no public function returns one) |
| computeds (`core/src/computed.ts`) | `value`, `stale`, `hasValue`, `computing` | `get` with `recompute`, `markStale`, `peek`, `dispose` |
| effects (`core/src/effect.ts`) | `cleanups`, `disposed`, `activeEffect` | `createEffect`, `run`, `schedule`, `onCleanup`, `dispose` |
| scheduler (`core/src/scheduler.ts`) | `computeQ`, `effectQ`, `scheduled`, `batchDepth`, the microtask queue | `scheduleJob`, `batch`, `flushSync`, `flushJobsTwoPhase` |
| transactions (`core/src/scheduler.ts`) | `atomicDepth`, `atomicLogs`, `muted` | `atomic`/`transaction`, `recordAtomicWrite`, commit, rollback (internal: not exported by `core/src/index.ts`) |
| job queue (`core/src/dedupedJobQueue.ts`) | `head`, `tail`, `size`, the slot property of a job | `enqueue`, `shift`, `size`, `clear` |
| promise sources (`async-runtime/src/fromPromise.ts`) | run token, abort controller, status/value/error signals | `run`, `reload`, `cancel` |
| async signals, resources (`asyncSignal.ts`, `createResource.ts`, `revision.ts`) | a source effect, revisions | automatic and manual runs, `reload`, `dispose` |
| stream resources (`createStreamResource.ts`) | the active run, its cleanups, `disposed`, value/stable/status/error signals, the effect that follows the source | a run's `emit`, `set`, `done`, `fail`, `onCleanup`; `reload`, `cancel`, `dispose` |
| snapshots (`snapshot/src`) | a scope of registrations | capture, restore, diff, JSON |
| adapters (`react/src`, `vue/src`) | a version or a ref bumped by an effect | subscribe, read, unsubscribe |
| job runtime (`examples/hono-reactive-job-runtime`) | a registry of jobs; of a job its attempt, its stream, the clients' chains of writes | create, start, cancel, retry, delete, a stream of events |
| job monitor (`examples/nuxt-job-monitor`) | the store of the server, the list of the browser, the subscription | first load and refetch, events, retry, cancel, start, stop, reset |
| AI memory (`examples/ai-memory-correctness`) | the facts of a scope, turns that retain, the recalled context, a stream | retain with rollback, recall, answer, cancel |
| devops runtime (`examples/devops-runtime`) | the selected commit, its CI, artifact, rollout and health, an approval | select, deploy, approve, cancel |
| commerce (`examples/micro-frontend-runtime`) | account, region, cart, a quote, a stock check | select, edit the cart |
| reactive proxy (`examples/reactive-proxy`) | routes, pools, health, cursors, servers and timers | start, close, probe, forward, reconfigure |
| AI chatbot (`examples/next-ai-chatbot`) | messages, a request, the stream that answers it, what is rendered; twice, with the kernel and without | submit, stop |
| graph transfer (`examples/server-graph-transfer`) | a document, the graph it is restored into, the views of it | render, load, restore, mount |
| the other examples, docs, build | none of the runtime's | a race shown on purpose, prose, tooling |

### How they interact

A read (`get`) links the node to `currentObserver`; a write (`set`) follows
`subs` through the computeds (`markStale`) and puts the effects it meets in
`effectQ` (`scheduleJob`), which asks for a microtask unless one is expected or
a batch is open. A flush, by the microtask or at the end of the outermost batch,
runs the queued effects, whose functions read, write, batch, create and dispose
again. Everything above the core (resources, adapters) is made of signals,
effects and `onCleanup`, plus promises whose handlers run later. The applications
call the packages only, and what is theirs are the policies between several
resources, a server and its users.

### What is hard

* Re-entrancy. JavaScript has one thread, but every call of user code may call
  back: a write inside an effect, a batch whose end flushes inside an effect that
  a flush is running, an effect that creates or disposes effects (itself too).
* Exceptions. Any user function may throw; some of the runtime's state is
  restored in `finally` clauses (`currentObserver`, `activeEffect`,
  `batchDepth`) and some is not (`computing`, the batch a flush has taken).
* Caching. `stale` cuts the propagation short, so it must be right for every
  interleaving of reads, writes, exceptions and disposals.
* Asynchrony. Flushes are queued as microtasks; promises and streams answer
  after they were cancelled, replaced or disposed of; asynchronous transactions
  hold a global depth across an `await`.
* Several sources of one fact. In the applications answers, events, timers and
  clicks write what one page shows, and overtake one another; old values stay in
  sight while new ones are fetched.

The hazards, each at its line, are listed in `PROJECT.json` with the properties
that cover them.

### What makes each component correct

* Graph: both directions agree. Computeds: no stale value is ever handed out.
* Effects: no update is lost; a disposed effect is inert; a cleanup belongs to
  the effect that is running.
* Scheduler: nothing waits without a flush on its way; a flush never runs inside
  a batch; the flush loop ends.
* Job queue: a first-in first-out queue without duplicates.
* Transactions: a rollback restores the values and only those.
* Promise and stream sources: only the newest run may publish; a cancelled or
  disposed run never does; status, value and error agree.
* Snapshots: restore after capture gives back the captured values.
* Async resources: what a query shows is for its input, and no older than the last
  invalidation.
* Adapters: a view shows what the graph has once no effect is queued.
* Applications: a decision (to promote, to check out, to forward, to answer) is
  made from what belongs together, and what is under way comes to an end.

## 2. The modules

In the order they were written, the core first. `MC...` modules hold instances for
TLC, `...Proofs` modules proofs. "All" stands for all safety properties; liveness is
never proved (section 15).

| module | models | abstract specification | checked by | proved |
|---|---|---|---|---|
| `ReactiveGraph` | graph, signals, computeds, effects, batch, flush | -- | `graph_chain`, `graph_pair`, `cycle_error` | all |
| `DedupedJobQueue` | the linked list | `JobQueue`, refined | `queue` | all, and the refinement |
| `Scheduler` | both queues, `batch`, `flushSync`, the flush, `atomic` with its logs | -- | `scheduler`, `rollback_overlap` | all |
| `FromPromise` | runs, tokens, abort, cancel, reload | -- | `promise`, `cancel_ignored` | all |
| `StreamResource` | stream runs, cleanups, interruption policies, microtasks | -- | `stream` | all |
| `Resources` | a manual resource that invalidates what an automatic one observes | -- | `parts`, `parts_live` | all |
| `Snapshot` | capture, restore, diff as functions | -- | in `GraphTransfer` | in `GraphTransfer` |
| `GraphTransfer` | pages, restores and the React and Vue adapters over `Snapshot` | -- | `transfer` | all |
| `JobRuntime` | a job, its routes, its clients' event streams | -- | `parts`, `parts_live` | all |
| `JobMonitor` | store, events, list and requests of the monitor | -- | `parts`, `parts_live` | all |
| `MemoryRuntime` | turns that retain, recall, the answer | -- | `parts` | all |
| `InputResource` | one automatic resource, for the next two | -- | in these | in these |
| `DevopsGraph`, `CommerceGraph` | two graphs of resources and decisions | -- | `parts`, `parts_live` | all |
| `ProxyDecision`, `ReactiveProxy` | routing and selection as functions; the proxy | -- | `parts`, `parts_live` | all |
| `ChatMessages`, `ChatGraph`, `PlainChat` | the two chats | `ChatPolicy`, refined by both | `parts_live` | its steps, of both |
| `Applications` | nothing: the instances of the parts from `Resources` on, but for `JobRuntime` | -- | `parts`, `parts_live` | -- |

The proofs about each of the first five are in a module of its own name with `Proofs`
after it, those about `GraphTransfer` with `Snapshot` in `GraphTransferProofs`, and all
others in `ApplicationProofs`. `Induction` has the two lemmas on loops that both use.

The runs cover the graph's effects and the scheduler with safety only; liveness
there (a notified effect runs) would need fairness of user code at every point it
has control, and is left open.

### One run, several parts

`Applications` instantiates `Resources` and the application modules, each with its
constants, the assumptions on them, and its safety properties under one name each.
`ApplicationProofs` proves about each instance by itself. `MCParts` extends it (and
`JobRuntime`, whose definitions keep their names) and lets exactly one part run
in a behaviour: `part` is chosen in `Init` and never changes, and every other part
keeps its variables. The parts share nothing, so the states of the run are the
disjoint union of those of the parts, each checked as if it had a run of its own;
a property of one part is trivially kept by the others. In `parts` they are checked
for safety, in `parts_live` for liveness and for the refinement of the chats'
policy, with smaller bounds; `RouteIsLongest`, which speaks of the table alone, is checked
there too, since each table is in force in some of its states. The fairness of the parts is grouped
(`First` ... `Seventh`, `Reader`): a group is the disjunction of one action of each
part, and since only one part runs, weak fairness of the group is weak fairness of
that part's action. `running` is the tuple of the running part's variables, so that
a step counts only when it changes them. `retain` and `memory` are two instances of
`MemoryRuntime`: two turns that retain at once with nobody reading, and one turn
beside the readers. Deadlock is not checked: each of these systems may rest.

## 3. `ReactiveGraph`: the core

One module holds graph, signals, computeds, effects and scheduler, because they
share their state: `currentObserver`, `activeEffect`, `batchDepth` and the queue
are module variables that every call passes through.

*The call stack is state.* A JavaScript call of the runtime that calls user code
is a frame of `stack`: `computed` (inside `recompute`), `effect` (inside
`run`), `batch` (inside `batch`) and `flush` (inside `flushJobsTwoPhase`,
between two jobs). A frame keeps the locals its function needs later: the
observer `withObserver` restores, the rest of the batch a flush has taken
(`todo`), its loop counter, and the exception that entered a `finally` clause.
User code is the nondeterministic choice of the next call whenever the top of
the stack is its own; each action is the code between two such points. So every
program over the given nodes is a behaviour, as is every exception at every
point where user code has control (`MayThrow` bounds who throws).

| code | actions |
|---|---|
| `get` of a signal or a fresh computed | `ReadFresh` |
| `get` of a stale computed | `Recompute`, then the function, then `ComputedReturn` or `UnwindComputed`; `ReadCycle` when `computing` is set |
| `computed.dispose` | `DisposeComputed` |
| `set`, `markStale`, `scheduleJob` | `SetSignal` with `Marked`, `Notified`, `Enqueue` |
| `createEffect`, `run` | `CreateEffect`, `StartRun`, `EffectReturn`, `UnwindEffect` |
| `onCleanup`, `dispose` | `OnCleanup`, `DisposeEffect` |
| `batch` | `BatchBegin`, `BatchEnd`, `UnwindBatch` |
| the microtask, `flushJobsTwoPhase` | `MicrotaskFlush`, `FlushTakeBatch`, `FlushSkip`, `FlushRun`, `FlushGiveUp`, `FlushDone`, `UnwindFlush` |
| `throw`, `try`/`catch` | `Throw`, `Catch` |

`markStale` is recursive in the code and a least fixed point in the model
(`Marked`): the smallest set of computeds closed under one step of the
recursion. Three history variables serve the properties: `seen` (what an observer
last read), `cut` (of that, the computeds that have been disposed of since) and
`dropped` (effects a flush took and lost to an exception).

*Abstractions.* The function of a computed reads sources and returns any value,
or throws; it does not write, create effects or catch (the model has `try`
only in effects, batches and the main program: a computed that survives the
exception of another is outside it). Equality is identity. Cleanup
callbacks do not call back. The effects of one batch of a flush run in any order
(they carry no priority). `peek` changes nothing and is left out. The number of
rounds after which a flush gives up, 10000 in the code, is the constant
`MaxLoops`. Programs are bounded by `MayRead` and `MayWrite`; `MaxStack`,
`MaxTicks` and `MaxCleanups` bound the stack, the queued microtasks and the
callbacks of an effect.

### Runs

* `graph_chain`: `s1`, `c1`, `c2`, `e1`; the computeds may read each other, so
  chains of length two and cycles both happen; `c1` is the only
  function that throws. Checks `ComputedFresh`: a value handed out was made of the
  present values of all it read, but for the computeds among it that have been
  disposed of since. `dispose()` of a computed unlinks its readers without marking
  them stale, so such a value may be outdated for good (`FreshThroughDisposal`,
  section 15). Stack depth 4 allows an effect inside a batch that evaluates
  both computeds, and a flush that runs an effect that does.
* `graph_pair`: `s1`, `c1` and two effects that read `c1`, one of which writes
  `s1` and which, like `c1`, may throw; stack depth 5, two rounds per flush. Nested effects, nested batches,
  flushes inside effects inside flushes, effects disposed while queued, effects
  lost to exceptions, and the guard of the loop all occur. Checks
  `NoLostUpdate`, `NoStrandedQueue` and the action property `DisposedIsInert`. What an
  effect depends on is what it is linked to: one that `dispose()` of a computed has
  unlinked is not scheduled. No effect registers a callback here (`MaxCleanups` is
  0); of callbacks `DisposedIsInert` is a theorem only.
* `cycle_error` shows a disagreement between the code and what its documents say,
  below.

`TypeOK`, `LinksSymmetric`, `NoFlushInsideBatch` and `CleanupGoesToRunningEffect`
are theorems (section 14), and may be added to either configuration.

Two values and one signal are enough for freshness and loss: the properties
compare a value read with the present one. The proofs remove the bounds.
Values are symmetric (`ValueSymmetry`); no run with symmetry checks liveness.

The models may stop only where the bounds stop them, and `Init` onwards some
action (a read, a set) is always possible, so deadlock checking stays on.

### Finding

* `cycle_error`: `recompute` sets `computing` and resets it only on a normal
  return. A computed whose function threw once answers every later read with
  "Cycle detected in computed", though nothing is being evaluated.
`NoLostUpdate` is stated with two exemptions that the code needs: effects of a
batch that an exception ended early (`dropped`), and dependencies on a computed
that threw or is being evaluated.

## 4. `DedupedJobQueue`: the linked list

`JobQueue` is the interface's promise, a sequence without duplicates.
`DedupedJobQueue` is the code: `head`, `tail`, `size`, links, and the slot
property that makes `enqueue` idempotent; the loop of `clear` is one action per
iteration. An entry is named by its job, which is sound because a slot holds one
entry at a time. Run `queue` (four jobs) checks the refinement `ImplementsJobQueue`, under which
the steps of the loop are stutters and its end is the abstract `Clear`.

## 5. `Scheduler`: both queues and the transactions

`scheduler.ts` has more than the graph uses through `index.ts`: a queue of
computed jobs that a flush empties before it runs effects, priorities,
`flushSync`, and `atomic`/`transaction`. The repository tests them on jobs made
by hand, so here jobs are bare names, any user code schedules any job, and the
frames of the stack are `batch`, `atomic`, `flush` and `job`.

| code | actions |
|---|---|
| `scheduleJob` | `ScheduleEffect`, `ScheduleComputed`, with `Wake` for the microtask |
| `set` with `recordAtomicWrite` | `SetSignal` with `Record` and `ScheduleEffects` |
| `batch` | `BatchBegin`, `BatchEnd` with `OutermostFlush` |
| `atomic` up to the call of its function | `AtomicBegin` |
| its four ends: value, promise, promise settled, exception | `AtomicReturn`, `AtomicReturnPromise`, `AtomicResolved`/`AtomicRejected`, `AtomicThrow` |
| `exitCommit`, `mergeChildIntoParent`, `exitRollback` | `Commit` with `Merged`, `Rollback` with `Undo`; `Close` keeps the histories |
| the flush of a commit throws inside the `try` of `atomic` | `UnwindCommit` |
| `flushSync`, the microtask | `FlushSync`, `MicrotaskFlush` |
| `flushJobsTwoPhase` | `FlushRound`, `FlushGiveUp`, `FlushRunComputed`, `FlushTakeEffects`, `FlushRunEffect`, `FlushDone`, `UnwindFlush` |

A transaction that returned a promise is `waiting` and has left the stack, but
`batchDepth`, `atomicDepth` and its log remain: other code runs in its middle,
other transactions begin and end there.

*Abstractions.* Jobs are not disposed (that is `ReactiveGraph`'s subject). The
waiting effects are a set, so those of equal priority run in any order. A signal
notifies a fixed set of effect jobs; the computeds a rollback marks stale are
left out. `MaxStack`, `MaxLoops` and `MaxTicks` bound calls, rounds and
microtasks.

*Histories*, which no action reads except where said: `begun` and `foreign` (the
values when a transaction began, and what was written while it waited), `owners`
and `crossed` (which transaction a log was made for, and whether one has ended
with the log of another), `owed` and `lost` (effects scheduled and not run, and
those a rollback or an exception threw away), `botched` (the flush of a commit
has thrown). `botched` stops transactions from beginning and ending, since the
depths are then wrong for good; what happens at that moment is modelled by
`UnwindCommit`, and is among the disagreements of section 15.

### Runs

* `scheduler`: one signal, two values, two transactions, two effect jobs of
  different priority of which one follows the signal, one computed job; stack
  depth 4, one round per flush, one microtask. Two transactions nest, overlap in
  either order, and merge; depth 4 has a flush with a job whose transaction or
  batch flushes again; one round is enough for a job that reschedules itself to
  trip the guard. Checks `NoLostJob`, `NoStrandedJobs` and the action property
  `RollbackRestores`; `DepthsAgree` and `NoFlushInsideCalls` are theorems. Values and
  transactions are symmetric.
* `rollback_overlap` shows the finding.

### Finding

* `rollback_overlap`: commit and rollback pop the newest log, whosever it is.
  When an older transaction ends first, each ends with the log of the other: the
  rejection of the second undoes what the first committed, and its own writes
  stay. `RollbackRestores` is therefore stated for histories where no transaction
  has ended with another's log (`~crossed'`).

A rollback clears both queues, whoever put the jobs there; `NoLostJob` therefore
exempts the effects a rollback threw away (`lost`).

## 6. `FromPromise`: runs of a producer

`fromPromise()` keeps a token, the abort controller of a run and three signals.
What makes it hard is that every function of it hands control to user code in its
middle, and that user code may call `run()`, `reload()` and `cancel()` there. So
the calls in progress are the state: a frame says which call it is, of which run,
and where it is.

| where | user code that has control | leaves by |
|---|---|---|
| `run` at `abort` | listeners of the superseded run's signal | `RunInstall` |
| `run` at `batch` | effects that follow the signals, then `onEvent` | `RunProduce`, `Escape` |
| `run` at `producer` | the producer | `ProducerReturn`, `ProducerThrow` |
| `run` at `failure` | effects, `onEvent`, `onError` after the producer threw | `RunFailed`, `Escape` |
| `cancel` at `abort` | listeners of the cancelled run's signal | `CancelPublish` |
| `cancel` at `batch` | effects, `onEvent`, `onCancel` | `CancelReturn`, `Escape` |
| `handler` at `batch` | effects, `onEvent`, `onSuccess` or `onError` | `HandlerReturn`, `Escape` |

`RunBegin` and `RunAbort` are `run()` up to its first frame, without and with a
run to supersede; `Cancel` is `cancel()` up to its own; its early returns change
nothing. `Settle` settles the producer's promise (external) at any time;
`Fulfilled`, `Rejected` and `RejectedAbort` are the two handlers, which run as
microtasks and therefore on an empty stack.

*Abstractions.* A value or an error is named by the run it comes from. A run
begun by `reload()` differs from one of `run()` only in its input, which no
property tells apart. What a listener of an abort signal throws is reported by
the host and goes no further. A token is never reused, so the object identity of
controllers is the run's number. `MaxRuns` and `MaxStack` bound runs and nesting.

*Histories*, which no action reads: `published` (the last run that committed),
`cancelled` (the newest run at each call of `cancel()`), `crossed` (an older call
of `run()` has put its controller over a newer one's), `overtaken` (a run has
begun inside `cancel()`), `spoiled` (runs that ended without a status: their
producer rejected with an AbortError of its own, or a callback threw before the
producer was called).

### Run

`promise`: three runs, three calls in progress, under `FairSpec`. Three runs are
the fewest in which a superseded run comes back between two others; depth three
has a `run()` in a listener of a `cancel()` in an effect. Deadlock is not checked:
a program that makes no further call rests.

* `OneOutcome`: status, value and error tell of one outcome.
* `LatestWins`: a commit is the newest run's and is newer than all before it.
* `CancelledCommitsNothing`: nothing is committed by a cancelled run, but for a
  producer that throws (the finding) and for crossed controllers.
* `CancelReaches`: the run whose answer is awaited is the one `cancel()` aborts.
* `PendingEnds`: every pending status ends.

Theorems beside these: `PendingIsLive` and `CancelledIsQuiet`: between calls,
"pending" is shown only for a run whose answer is awaited and will be looked at,
"cancelled" only when none is. A run begun inside `cancel()` is exempt from the
second (see below).

`crossed` excludes one situation from several of these: a listener of a
superseded run's signal calls `run()` itself. The older call of `run()` then goes
on, makes its controller the current one and sets "pending" again, so `cancel()`
no longer reaches the newest run. `LatestWins` and `OneOutcome` hold even then.

*Fairness.* `FairSpec` assumes that user code returns (`Progress`), that promises
settle (`Settles`) and that microtasks run (`Handlers`); the event loop gives the
last, and without the first two no status could be promised to end. Calls of
`run()` and `cancel()` have no fairness.

### Finding

* `cancel_ignored`: the `catch` around the producer compares the token but not the
  signal, as the handlers of the promise do, so a run cancelled during the call of
  its producer can still go from "cancelled" to "error".

`cancel()` sets the status after its listeners, without a look at the token, so
"cancelled" can be shown while the run those listeners have begun is waiting for
its answer: the exemption (`overtaken`) of `CancelledIsQuiet`.

## 7. `StreamResource`: runs of a stream

`createStreamResource()` starts its producer two microtasks after a run begins and
gives it a context through which it writes until its run is closed. A run closes
once: by `done`, `fail`, `cancel`, `dispose`, or because another takes its place.

As in `FromPromise`, functions hand control to user code in their middle, and the
calls in progress are the state. Only the places from which a function goes on to
do something are frames; what user code does after the last statement of a
function is the same as what it does afterwards.

| where | user code that has control | leaves by |
|---|---|---|
| `replace` at `closing` | listeners and cleanups of the superseded run | `RunAfterClosing` |
| `replace` at `batch` | effects that follow the signals the new run has reset | `QueueStart`, `Escape` |
| `cancel` at `closing` | listeners and cleanups of the cancelled run | `CancelPublish` |
| `done`, `fail` at `batch` | effects that follow the outcome | `Drain`, `Escape` |
| `done`, `fail` at `closing` | cleanups of the run | `Report` |

| code | actions |
|---|---|
| the effect over `input` and `observe` | `SourceChange`, then `FlushSync` or `MicrotaskFlush` |
| `reload`, `cancel`, `dispose` | `Reload`, `Cancel`, `Dispose` |
| `replaceRun`, `cancelRun`, `run` | `ReplaceRun`: `SupersedeActiveRun` with `RunAfterClosing`, or `ReplaceUnheard`; then `QueueStart` |
| the promise chain of `run` | `Tick`, `Start` |
| `emit`, `set`, `done`, `fail`, `onCleanup` | `Emit`, `Set`, `Done`, `Fail`, `OnCleanup` |

A run whose producer has not been called has given its context to nobody, so it
has no listeners and no cleanups: closing it calls no user code, and `replaceRun`
and `cancel` are then one step (`ReplaceUnheard`, the second half of
`CancelActiveRun`).

*Abstractions.* A value is the set of runs whose chunks it is made of: `emit` adds
a run (with `reduce`), `set` and a final value are the run's own, `{}` is
`initialValue`. The queue of microtasks is kept as far as its order matters: which
runs have their first (`ticks`) or second (`starts`) microtask to come, and which
of them stand behind a queued flush of the graph (`behind`). `FlushSync` is a flush
at the end of a batch in any user code. A stream never
finishes by returning, so its promise matters only when it rejects: that is
`Fail`, as is a throw. Both policies are chosen in `Init`. `MaxCalls` bounds
`reload()` and changes of the source together, `MaxStack` the calls in progress.
Other effects are assumed not to keep the graph from running this one, and no
asynchronous transaction to be open.

*Histories*, which no action reads: `overtaken` (`cancel()` has published over the
run that its listeners began), `spoiled` (runs in whose batch an effect threw),
`doomed` (runs whose first microtask found the source changed).

### Runs

`stream`: three runs (the first, and two by reload or by the source), three calls
in progress, under `FairSpec`. Two superseded runs and a third in their place are
enough for a run to be begun inside the replacement of another and for both to be
compared with a third; three calls have a `reload()` in an effect of a run that is
begun in a cleanup of `done()`, `cancel()` or another `reload()`. Deadlock is not
checked: a stream may rest.

* `StatusTellsTruth`: status, value, stable value and error agree with each other
  and with the active run; a `done()` still in progress has its value in place
  unless a newer run has begun.
* `CleanupsRun`: no closed run has cleanups left, whenever they were registered.
* `DisposeStops`: after `dispose()` no run begins, but for the `replaceRun()` in
  whose middle it was called (section 15).
* `CommitsOwn`: the stable value never holds a chunk of another run.
* `NoOutdatedStart`: what the comment at line 291 wants of the two microtasks. A
  source that had changed when the first runs is always seen before the producer
  is called; a change after it may be too late.
* `RunStarts`: a run reaches its producer, or makes way.

That the only run that can write is the newest (`OneProducer`) is a theorem.

Three exemptions are in the properties because the code needs them, and are worth
a look. An effect that throws at the end of the batch of `done()` or `fail()`
keeps the cleanups of the run from being called, then and later. An effect that
throws when a run resets the signals leaves it active and "pending" with no
producer queued. And `cancel()` applies its policy and status after its
listeners and cleanups, over a run they have begun. Besides, `done()` reads the
value again for `onSuccess` after the cleanups (line 265): when one of them has
begun another run, that is no longer the value committed.

*Fairness.* Calls in progress return (`Progress`) and microtasks run
(`Microtasks`), which the event loop gives as long as user code returns. Nothing
is assumed of producers, of users or of the source.

## 8. `Resources`: a query and what invalidates it

`createResource()` in its two forms: a manual resource whose success invalidates the
revision of the key it wrote to, and an automatic one whose effect reads a key and
the revision of that key, cancels what is in flight, and runs again.

| code | actions |
|---|---|
| `run`, `reload`, `cancel` of the manual resource | `WriteRun`, `WriteCancel` |
| its handlers; `onSuccess` up to the callback of the options, and after it | `WriteSucceeds`, `WriteFails`; `WriteAnnounced` with `Invalidate`, `WriteCallbackThrows` |
| the effect of the automatic resource: read, `cancel()`, `run()` | `EffectCancels`, then `EffectGoesOn` or `EffectThrows`; `EffectRuns` when nothing is in flight |
| `reload`, `cancel`, the handlers of the query | `QueryReload`, `QueryCancel`, `QuerySettles` |
| the server, external | `ServerWrites`, `ServerReads` |

Each resource is a `fromPromise()`; what section 6 says of one of them at every
point is taken up only at the two points `createResource.ts` adds: the callback that
comes before `invalidates()`, and the `cancel()` inside the effect. `MaxCalls`
bounds calls and changes of the source together: three (two with liveness) let a
write, a change of the key and a reload overtake one another.

* `FreshResult` (`parts`): with its effect settled, a successful query shows its own
  key, and a version no older than the last announced write to that key.
* `RefetchEnds` (`parts_live`): a change of the source and an invalidation are
  answered by a run that ends. Fairness: the server answers, user code returns, the
  flush and the microtasks run.

The exemption (`derailed`) is a real weakness of the code: an effect that runs
inside the `cancel()` of its own earlier run starts the new run first, and the
earlier one then goes on with the old input (section 15).

## 9. `Snapshot` and `GraphTransfer`

`Snapshot` is `capture`, `restore` and `diff` as functions of a scope, the
registrations of a graph in their order. A value is a model value; redaction,
serializers and JSON are what they do to it: a value may be replaced by `Hidden`, a
computed of some value cannot be encoded (`Unencodable`), and the restoring graph
may reject one (`Undecodable`). The loops of `captureNodes` and `restoreSnapshot` are
recursive functions of the number of nodes done; an exception ends the one of the
restore, which keeps what was set.

`GraphTransfer` is the system: a server answers a request with a page of a graph
made for it (`RenderHtml`, the set of all pages it can produce, so that a page may
be old and of another build), a browser loads it (`LoadPage`), writes
(`Write`), restores again (`Restore`), and has React and Vue views:

| code | actions |
|---|---|
| `react/src/useReactive.ts`: render, the same with another source, commit, unmount | `Render`, `RenderOther`, `Subscribe`, `Unmount` |
| `vue/src/useReactive.ts`: setup, end of the scope | `Setup`, `ScopeDispose` |
| the effects of both | `Flush` with `Refreshed` |

Run `transfer`: two signals and a computed of both, two values, four builds (equal,
redacting and omitting, reordered, of a later version with another kind of node) and
a view of each adapter.

* `ViewsAgree`: with no effect queued a mounted view shows the graph, except a React
  view that was subscribed to another value than it had rendered (`missed`): the
  effect that subscribes does not look again (section 15).
* `RestoreTakesAPrefix`: a restore writes exactly what a beginning of the document
  says, all of it unless the next node offends.
* `RecaptureIsClean`: after a restore, capturing again differs from the document in no
  node that both capture with its value, computeds excepted that the document itself
  redacted or that depend on values it withheld. (The first exception was found by the
  proof: the property said nothing of it and could not be proved. Build `Reordered`,
  which redacts its computed, shows TLC the case.)

Nothing is left out of scope, capture, restore and diff but the values of
resource and stream nodes, which are captured for inspection and never restored.

## 10. `JobRuntime`: a job and the streams of its clients

The job is a stream resource whose source holds the attempt and whether it is
enabled. Its first run is of a disabled source and answers `done()` with the initial
value, unless `start()`, in the same task, has come first: the order of the microtasks
(`tasks`) decides, and is kept. `Tick`, `Start`, `Flush` are the microtasks; `Emit`,
`Done`, `Fail`, `Abandon` the analysis; `PostCancel`, `PostRetry`, `Delete`, `Open`,
`Abort` the requests; `WriteState`, `WriteDone`, `Unsubscribe`, `Return` the chain of
writes of a client and the end of its handler. A value is an attempt and a number
of chunks. `MaxRetries` and `Steps` are bounds; one of each has a retry beside
the run it supersedes, and states between the first and the last.

* `StatesAreEarned`: no state, of the job or written to a client, claims a success
  that was not reached or shows an earlier attempt's chunks for the present one's.
* `LastEventIsCurrent`: a client with an open stream and nothing left to be written
  has the state of the job.
* `EventsEnd` (`parts_live`): every event stream ends. Fairness: microtasks, the waits
  of an analysis, the writes to a client. The routes wait for a terminal state or
  for the client to go; a job that is deleted is cancelled first, and says so.

One job is modelled: jobs share nothing but the registry.

## 11. `JobMonitor`: a list written from four sides

The store of the server ticks, and emits an event to whoever is subscribed; the
browser's list takes the answer of `fetchJobs`, events, the retry that is shown
before it is confirmed and the cancel that is shown when it is. Requests and events
travel on connections of their own; an event stream keeps its order, and is
interrupted, reconnected, stopped and reset; the list is reloaded at any time. `MaxWire`, `MaxCalls` and `MaxDrops`
are bounds; two jobs, two events under way, two calls and one interruption have
each of the four overtake each other one.

* `Converged`: with nothing under way, the list shows each job as the store has it.
* `RetryingEnds` (`parts_live`): a retry shown early does not stay. Fairness: timers,
  flushes, deliveries and answers.

What both exempt (`outdated`) is what the code does not repair until the next event
of the job or the next fetch: an event lost with its connection, an event applied
before the answer to an older fetch, a fetch that failed, a failed retry of a job
that is not failed any more, and a retry that another has superseded, which is shown
as retrying for good. Times, logs, selection, filter and the health panel are left out,
and so is the page's snapshot: its Restore button writes a list captured earlier over the
present one and starts the stream (`pages/kernel-owned.vue:64-73`), after which the list
is outdated until a fetch or the next events. Its Capture button throws while a job holds
an `undefined` field, as each has that an event has shown as succeeded or retrying since
the last fetch (`createJobKernel.ts:105-140`, `snapshot/src/json.ts:4-28`).

## 12. `MemoryRuntime`: retaining and recalling

`retainTurn` extracts, inspects, consolidates and applies; `retainTransaction` writes
the snapshot back when an action fails. `RetainTurn`, `Extracted`, `Inspected`,
`RetainRejected`, `ApplyPlan`, `Restore`, `Retained` are its parts between two
`await`s. `RecallRuns`, `RecallReads`, `RecallSettles`, `CancelRecall` are the recall
resource, `StreamRuns`, `StreamEnds`, `CancelStream` the model stream, `SetMessage` the
user. Which plan the extractor and the consolidation make of a text is data: a plan
may be any that aims at facts active in the snapshot, and may fail after any action.

* `AtomicRetain`: of a turn that has ended the memory holds all of its candidates or
  none, unless it overlapped with one that was rolled back (section 15).
* `ContextIsCurrent`: a recall that has succeeded holds what the memory holds for the
  current message, and a text that is finished was made from that.

The event log and the snapshots kept for inspection are left out.

## 13. The other applications

`InputResource` is one automatic resource as a page uses it: its input, whether it is
pending, and its value, with or without `keepPreviousValueOnPending`. What
`FromPromise` and `Resources` show (a superseded run commits nothing) is used here.

* `DevopsGraph`: `SelectCommit`, `StartDeployment`, `ApprovePromotion`,
  `CancelDeployment`; the flush; the answers of CI, registry, rollout and health
  stream, each at any time. `PromotesOnOwnVerdicts`: once nothing is pending, a commit
  is offered for promotion on verdicts and an approval of its own; four commits, one
  of each kind of fixture. `RolloutEnds`: a rollout shown as under way ends, though
  every gate that answers starts it again. Fairness: microtasks and timers.
* `CommerceGraph`: every edit of account, region and cart, the flush, the two answers.
  `CheckoutIsForThisCart`: a checkout is allowed only for the account, region and
  cart shown, also between an action and its flush. Quantities go to 2 instead of 9.
* `ReactiveProxy` over `ProxyDecision`: startup with failures at each place, probes
  that overlap, requests, changes of routes, upstreams and policy, and close.
  Paths and prefixes are sequences of slashes and names. `RouteIsLongest` (`parts_live`) compares the
  one pass of `matchRoute` with its meaning: the normalised prefix of the route that it
  finds continues those of all others that match, and is the first of its kind. It is
  the normalised prefix that counts: `api/` keeps its slash, matches `/api/` and `/api//x`
  only, and there wins over `/api`, while `//` is empty and loses to `/`
  (`routes.ts:7-10`); the tables of the run have both. Each table of pools lists every
  server, so that a probe always has its upstream in one. A probe under way at the close
  keeps the timer that aborts it (`health-check.ts:25`); the timer of `NothingIsHeld` is
  the interval alone.
  `RotationIsFair` says that no available upstream is two requests ahead while the
  candidates stay the same; `NothingIsHeld`: a proxy that is closed or failed to start
  holds no port, no interval and no request; `HealthSettles` (`parts_live`): the health
  ends up true, once upstreams change no more. Fairness: the interval, probes,
  requests and the start.
* `ChatGraph` and `PlainChat`: the chat with the kernel (a stream resource whose
  input is the request) and the one in plain React (a reader loop, handlers that
  see the last rendering). Both are checked to implement `ChatPolicy`, over what is on
  the screen: one answer at a time, nothing shown is taken back, no chunk of another
  answer, every answer ends (`KernelKeepsPolicy`, `PlainKeepsPolicy`; all but the last is
  `AllowedSteps`, and proved). Three prompts, one of
  which the route interrupts. Fairness: microtasks or rendering, and a response that
  arrives or fails.

## 14. What is proved

All proofs are for arbitrary sets and bounds, from the named assumptions of the
modules, which TLC evaluates in every run: `KindsAssumption` and `ProgramAssumption` of
the graph, `BoundsAssumption`, `JobsAssumption`, `ScopesAssumption` (a build registers a
node once, and each is of a kind and a redaction there is), `ValuesAssumption` (the
initial value is one, what stands for a hidden one is none) and those of `Applications`:
a bound is a number, a fixture has the fields a fixture has, a pool lists an upstream
once, the store begins with some jobs.

* `ReactiveGraphProofs`: `GraphTypeCorrect` and `GraphLinksSymmetric`, and the
  shape of the call stack (`StackInv`): frames of computeds form the top of the
  stack, each computed is evaluated at most once at a time, the observer a frame
  restores is the function just below it, and a computed on the stack is stale
  and marked as computing.
  `GraphComputedFresh` and `GraphNoLostUpdate` follow in the same module, and from the
  first `GraphFreshThroughout`: a computed that no `dispose()` has cut off from anything
  that its value was made of, through any number of computeds, agrees with all of it.
  None is inductive. What a computed or an effect has read it is linked to, or has been
  cut off from (`ReadsLinked`, `EvaluationLinked`). While a computed is evaluated its dependencies are
  half read, so `EvaluationFresh` says that each dependency it has so far is
  current or is being evaluated for it; this is what makes the value fresh when
  the function returns. `Settled` says the same of effects: a dependency that is
  not current is a computed that threw, or that is being evaluated for this very
  effect. `StackInv` supplies that nothing is written while a computed is
  evaluated (user code is then a computed's function), and `LinksSymmetric` that
  a write reaches everyone who depends on it. `IInv` is their conjunction.
  In the same module, `NextStack` sums up what a step can do to the
  stack; from it follow `GraphCleanupGoesToRunningEffect` (the active effect is
  the innermost on the stack), `GraphNoFlushInsideBatch` (`batchDepth` is the
  number of batch frames, so the flush at depth zero has none below it) and
  `GraphNoStrandedQueue` (effects wait only while a flush is expected, a batch is
  open, or a flush is about to take them; the guard of the loop trips only after
  it has taken the queue once). `GraphDisposedIsInert` combines the first with
  the shape of the stack.
* `SchedulerProofs`: `SchedulerTypeCorrect`, `SchedulerDepthsAgree` and
  `SchedulerNoFlushInsideCalls`. The counters are right because every open
  transaction is either waiting or on the stack exactly once (`FramesOpen`) and
  each has one log (`Balance`); this also shows that no `exitCommit` or
  `exitRollback` pops an empty array before the first failed flush of a commit.
  `Nested` says that a flush which did not come from `flushSync` has no batch or
  transaction below it.
  In the same module, `SchedulerNoLostJob` (what a flush has taken stays in its
  frame, and a flush busy with computed jobs has taken nothing), and
  `SchedulerNoStrandedJobs`: while an effect waits there is a microtask, an open
  call, or a flush on the stack that has yet to take the queue (`WaitInv`); a
  flush in its first round is always on top, so no exception passes through it.
  `SchedulerRollbackRestores`: the logs form a chain (`Chained`): from the present
  values the newest log leads to those at the beginning of the newest
  transaction, and so on down. A write, a merge and a rollback each keep it.
* `FromPromiseProofs`: `PromiseTypeCorrect` and all six safety properties of
  section 6. `CallsInv` says what holds of each call in progress: a run that is on
  the stack is there once and has returned no promise, and before it has installed
  its controller nothing can have aborted it. From it: `PromiseOneOutcome`, by
  `OutcomeInv` (an error that is shown is the newest run's, unless that run has yet
  to clear it), and `PromiseLatestWins`. `ControllerInv` (the controller that can be
  aborted is the newest run's, so what is cancelled is aborted) gives
  `PromiseCancelledCommitsNothing`; `ReachInv` follows the controller from its
  installation to the answer and gives `PromiseCancelReaches`; `LiveInv` and
  `QuietInv` say, for the moments inside calls, which call will put the status
  right, and give `PromisePendingIsLive` and `PromiseCancelledIsQuiet`.
* `StreamResourceProofs`: `StreamTypeCorrect` and the six other safety properties
  of section 7. Producers are called by microtasks, so while calls are in progress
  the active run is one nobody has heard of, and every run that has started is
  closed or active (`RunsInv`): this gives `StreamOneProducer`. A call made inside
  another therefore closes such a run or none, and the only frames above the lowest
  are runs being begun (`ShapeInv`), which leave the lowest call's own work alone.
  `CleanupInv` and `StatusInv` name, for the moments inside calls, the call that
  will run the cleanups or put the status right; `OwnInv` says what the value may
  be made of while a run is active; `OrderInv` and `TaskInv`
  give the order of the microtasks and `DoomInv` that a flush is queued before the
  second microtask of a run whose source has changed. `StreamDisposeStops` needs
  that a disposed resource has no effect left to run.
* `DedupedJobQueueProofs`: `QueueTypeCorrect`, `QueueListShape` and
  `QueueImplementsJobQueue`; the shape of the list is the inductive invariant.
* `GraphTransferProofs`, for any builds, documents, values and views.
  `ViewsAgreeAlways`: `ViewInv` says that a mounted view's effect tracks what the view
  reads, and that a view which is neither queued nor `missed` shows it; the lemma is
  that a change of signals which does not queue a view leaves what it reads as it was
  (`UnnotifiedReads`). `RestoreTakesAPrefixAlways` and `RecaptureIsCleanAlways` are
  about two loops: what `captureNodes` has after k nodes, and what `restoreSnapshot`
  has set after k, said for every k and proved by induction (below). `RestoredInv` then
  says that until something is written the graph has what its document set and, of
  the rest, what it had.
* `ApplicationProofs`, a section for each part:
  * *Job runtime*: `StatesAreEarnedAlways` and `LastEventIsCurrentAlways`, for any
    clients, steps and retries. Once `start()` has reached the effect of the source, the
    active run has the present attempt, and every write goes through it; the value is
    made of its chunks and of no others. A client with an open stream is a listener,
    and whatever changes the state appends it to the chains of all listeners, so the
    last entry of a chain, or what was last written, is the state.
  * *Commerce* (`ShopCheckoutIsForThisCart`) and *devops* (`OpsPromotesOnOwnVerdicts`),
    with their types. A resource whose effect is not scheduled was asked for what is
    selected, and one that is not pending was answered as it was asked (`ShopInv`,
    `OpsInv`); a cart belongs to its account, an approval to its commit.
  * *Proxy*: `ProxyNothingIsHeld` (`ProxyHolds`: what may be open, listening or under
    way in each stage). `ProxyRouteIsLongest`: after k routes the loop of `matchRoute` has
    the one with the longest normalised prefix of those that match, the first of them
    (`OneMoreRoute`); both begin the same path, so the shorter begins the longer
    (`MatchBegins`, `Beginnings`).
    `ProxyRotationIsFair`: the picks since the candidates last changed are complete
    rotations and a part of one that ends at the cursor (`RotationInv`); the filter of
    the available upstreams lists each once.
  * *Resources* (`QueriesFreshResult`): unless `derailed`, the run in progress, or the one
    that the `cancel()` under way will start, is for the key that is asked for, or the
    effect is scheduled (`Follows`); and what it has read is no older than what was
    announced (`NoOlder`), for an announcement schedules the effect. `RunsAreCalled`
    counts that every run is due to a call.
  * *AI memory*: `MemoryAtomicRetain`, for any turns and plans (`RetainInv`): unless a turn
    overlapped with one that was undone, the memory has all that it applied, or none
    once it was undone, and no snapshot that may still be restored says otherwise. What a
    plan does to the memory is a loop (`AppliedEffect`). `MemoryContextIsCurrent` by
    `ReadersInv`: what a page shows was asked for the present message, and found in
    the memory as it is while no turn is writing.
  * *Job monitor* (`MonitorConverges`): the last event of a job under way is what the
    store has (`LastEventIsTrue`); what a fetch has read holds of the jobs that did not
    change since (`AnswerIsTrue`); without one, the list is true of a job, or an event or
    an answer that mends it is under way (`ListIsTrue`), or the job is `outdated`.
  * *Chats*: `KernelKeepsSteps` and `PlainKeepsSteps`, the safety part of the refinement of
    `ChatPolicy`: the first screen is the policy's, and every step is one of the policy's or
    shows nothing new. The kernel's panel is at most one step of the policy behind
    its graph (`KernelInv`), because clicks and arrivals wait for the microtasks; the plain
    panel may be any number of chunks behind, but of the one answer that is read, whose
    message is the last (`PlainInv`). That every answer ends is left to TLC.
* `Induction`: `InductiveSet` (a set of numbers with 0 and every successor has them all,
  from the library's `WFMin`) and `RecursionExists` (a recursive function over 0 .. n
  exists, so that the function a definition `CHOOSE`s by its recursion satisfies it).
  A loop is proved by giving it as a recursive function and applying the first to the
  numbers of which its invariant holds.

## 15. What is not

*Only model-checked.* The three findings, which are counterexamples; and the properties
under fairness (`PendingEnds`, `RunStarts` and those of `parts_live`), since liveness and
`ENABLED` are out of the prover's reach. Of the refinement of `ChatPolicy` that is its
fairness alone, of the others all. Every safety property that a passing run checks has a
theorem.

*Known disagreements that no run shows.* These definitions state what a document, a
comment or a test says, or what a user of the function would expect, and the code does otherwise. To see a counterexample, put the
definition as an `INVARIANT` (those of the parts by an abbreviation, as in `Applications`) into the
configuration named.

| definition | module | with | what the code does |
|---|---|---|---|
| `CleanupTiedToExecution` | `ReactiveGraph` | `graph_pair`, one `MaxCleanups` | `run` ends with `activeEffect = null` (`core/src/effect.ts:47`): after an effect created or flushed inside an effect has returned, the outer one's `onCleanup` is dropped; `docs/rfc-core-runtime.md:84` ties it to "the current graph effect execution" |
| `FreshThroughDisposal` | `ReactiveGraph` | `graph_chain` | `dispose` of a computed unlinks those that have read it without marking them stale (`core/src/computed.ts:68-75`): they go on handing out the value made of it when a signal below is set, also when the disposed one is evaluated again; no document speaks of it |
| `InAtomicReflectsDepth` | `Scheduler` | `scheduler` | `atomic` commits inside its `try` (`core/src/scheduler.ts:131`), so a job that throws in the flush of a commit rolls back a transaction that is over and takes `atomicDepth` to -1; `core/src/__tests__/scheduler.test.ts:286` |
| `DisposeIsPermanent` | `StreamResource` | `stream` | `replaceRun` does not look at `disposed` again after its listeners (`async-runtime/src/createStreamResource.ts:305`), so a `dispose()` there is followed by a run; `docs/rfc-async-runtime.md:428` |
| `ReloadsWithLatestInput`, `InvalidatesOwnInput` | `Resources` | `parts` | an effect that runs inside the `cancel()` of its own run goes on with the old input; a callback that calls `run()` makes `invalidates()` see the new input with the old result (`async-runtime/src/createResource.ts:117`) |
| `ReactReadsLatest` | `GraphTransfer` | `transfer` | what is written between render and subscription, or with a change of source, is missed until the next change (`react/src/useReactive.ts:18`); `docs/rfc-react-adapter.md:410` |
| `PromotesOnlyAfterAllPass` | `DevopsGraph` | `parts` | while the verdicts of a new commit are pending those of the old one count (`keepPreviousValueOnPending`); `examples/devops-runtime/src/graph/devopsGraph.test.ts:50` |
| `CommittedStays` | `MemoryRuntime` | `parts` | a rollback writes the whole snapshot back, and what another turn has committed meanwhile is lost; `examples/ai-memory-correctness/src/app/mockData.ts:27` |

*Not modelled.*

* Liveness of the graph and the scheduler; their specifications assume no fairness.
* The search race (`examples/search-race-condition`): one automatic resource over a
  signal, which is the query of `Resources`, beside a panel written to be wrong.
* Of the AI memory its event log and its snapshots for inspection; of the job monitor
  logs, selection, filter, health and the snapshot of the page; of the proxy bodies, headers and its log; of every
  application its panels and styles.
* Documents, package and build files: prose and tooling.
