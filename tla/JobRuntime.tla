------------------------------- MODULE JobRuntime -------------------------------
(***************************************************************************)
(* The job service: a job that POST /jobs/analyze has created and started, *)
(* its routes, and the event streams (server-sent events) of its clients.  *)
(*                                                                         *)
(* The job is a stream resource whose source is the attempt, and whether   *)
(* the job is enabled.  The first run, begun before start(), is one of a   *)
(* disabled source.  Requests come between any two microtasks.  A value is *)
(* the attempt whose chunks it is made of and their number.                *)
(***************************************************************************)
EXTENDS Integers, SequencesExt

CONSTANTS Clients,
          Steps,        \* chunks of an analysis before its last
          MaxRetries    \* bound: retries of the job

ASSUME BoundsAssumption == Steps \in Nat \ {0} /\ MaxRetries \in Nat

None    == 0                               \* no run
Initial == [attempt |-> 0, chunks |-> 0]   \* initialExecutionState
Final(n) == [attempt |-> n, chunks |-> Steps + 1]

VARIABLES
  registered,      \* the job is in the registry
  attempt,         \* the signal, counted from 1
  dirty,           \* start() has enabled the source and its effect has not run
  source,          \* of each run, the attempt its source had, 0 when disabled
  activeRun,
  cancelled,       \* runs whose isCancelled() is true
  analyses,        \* runs whose analysis goes on
  signals,         \* of the resource: [status, value, stable]
  tasks,           \* microtasks: <<"tick", run>>, <<"start", run>> and <<"flush", None>>
  listeners,
  phase,           \* of a client: "off", "open", "ending", "draining", "closed", "aborted"
  writes,          \* the states in its chain of writes
  half,            \* the state at the head is written and its done event is not
  got              \* the last state written to it

resource == <<source, activeRun, cancelled, signals>>
clients  == <<phase, half, got>>
vars == <<registered, attempt, dirty, resource, analyses, tasks, listeners, clients, writes>>

Runs == DOMAIN source

\* toJobStatus(), for a job that is enabled.
JobStatus(streamStatus) == IF streamStatus = "streaming" THEN "running" ELSE streamStatus

\* getState(), with the attempt it was read in.
View(s, n) == [status |-> JobStatus(s.status), value |-> s.value, stable |-> s.stable, of |-> n]
State == View(signals, attempt)

IsTerminal(state) == state.status \in {"success", "error", "cancelled"}

Nobody == [status |-> "idle", value |-> Initial, stable |-> Initial, of |-> 0]

\* createJobRuntime(): a run of the disabled source has its first microtask to come.
Created ==
  /\ attempt = 1 /\ source = <<0>> /\ activeRun = 1 /\ cancelled = {} /\ analyses = {}
  /\ signals = [status |-> "pending", value |-> Initial, stable |-> Initial]

\* POST /jobs/analyze: createJob() and start() in one go, with the flush of start()
\* behind that microtask.
Init ==
  /\ Created /\ registered = TRUE
  /\ dirty = TRUE /\ tasks = <<<<"tick", 1>>, <<"flush", None>>>>
  /\ listeners = {} /\ phase = [c \in Clients |-> "off"]
  /\ writes = [c \in Clients |-> <<>>] /\ half = [c \in Clients |-> FALSE]
  /\ got = [c \in Clients |-> Nobody]

-----------------------------------------------------------------------------
(* The graph *)

\* Mutant of Notify: the state is read before the signals have changed.
NotifyOld(new, n) ==
  writes' = [c \in Clients |-> IF c \in listeners THEN Append(writes[c], State) ELSE writes[c]]

\* The notifying effect gives every listener the state.
Notify(new, n) ==
  writes' = [c \in Clients |-> IF c \in listeners THEN Append(writes[c], View(new, n)) ELSE writes[c]]

\* Mutant of Fresh: the value stays.
FreshStatus(stable) == [signals EXCEPT !.status = "pending"]

\* resetForNewRun().
Fresh(stable) == [status |-> "pending", value |-> Initial, stable |-> stable]

\* The source's effect: replaceRun() with the attempt n, and the states it notifies.
BeginRun(n, stable, rest) ==
  /\ source' = Append(source, n) /\ activeRun' = Len(source) + 1
  /\ cancelled' = cancelled \cup ({activeRun} \ {None})
  /\ signals' = Fresh(stable) /\ Notify(Fresh(stable), n)
  /\ tasks' = Append(rest, <<"tick", Len(source) + 1>>)

\* The active run ends or writes, in a batch.  The flush at the batch's end runs the
\* source's effect too, when start() has queued it.
Publish(new, ended, rest) ==
  IF dirty
  THEN /\ source' = Append(source, attempt) /\ activeRun' = Len(source) + 1
       /\ cancelled' = cancelled \cup ended
       /\ signals' = Fresh(new.stable) /\ Notify(Fresh(new.stable), attempt)
       /\ tasks' = Append(rest, <<"tick", Len(source) + 1>>)
       /\ dirty' = FALSE
  ELSE /\ activeRun' = IF new.status = "streaming" THEN activeRun ELSE None
       /\ cancelled' = cancelled \cup ended
       /\ signals' = new /\ Notify(new, attempt)
       /\ tasks' = rest
       /\ UNCHANGED <<source, dirty>>

-----------------------------------------------------------------------------
(* Microtasks *)

Rest == Tail(tasks)

Tick ==
  /\ tasks # <<>> /\ Head(tasks)[1] = "tick"
  /\ tasks' = Append(Rest, <<"start", Head(tasks)[2]>>)
  /\ UNCHANGED <<registered, attempt, dirty, resource, analyses, listeners, clients, writes>>

\* The producer of a run that is still active is called: a disabled source is done
\* at once, with the initial value.
Start ==
  /\ tasks # <<>> /\ Head(tasks)[1] = "start"
  /\ LET r == Head(tasks)[2] IN
       IF r = activeRun /\ source[r] = 0
       THEN /\ Publish([status |-> "success", value |-> Initial, stable |-> Initial], {}, Rest)
            /\ UNCHANGED analyses
       ELSE /\ analyses' = IF r = activeRun THEN analyses \cup {r} ELSE analyses
            /\ tasks' = Rest
            /\ UNCHANGED <<dirty, resource, writes>>
  /\ UNCHANGED <<registered, attempt, listeners, clients>>

Flush ==
  /\ tasks # <<>> /\ Head(tasks)[1] = "flush"
  /\ IF dirty
     THEN BeginRun(attempt, signals.stable, Rest) /\ dirty' = FALSE
     ELSE tasks' = Rest /\ UNCHANGED <<dirty, resource, writes>>
  /\ UNCHANGED <<registered, attempt, analyses, listeners, clients>>

-----------------------------------------------------------------------------
(* analyzeDocument() *)

\* After each wait it looks whether its run is cancelled.
Abandon(r) ==
  /\ r \in analyses /\ r \in cancelled
  /\ analyses' = analyses \ {r}
  /\ UNCHANGED <<registered, attempt, dirty, resource, tasks, listeners, clients, writes>>

\* reduceExecutionState(): a chunk on top of those the value has.
Reduced(r) == [attempt |-> source[r], chunks |-> signals.value.chunks + 1]

Emit(r) ==
  /\ r \in analyses /\ r = activeRun /\ signals.value.chunks < Steps
  /\ Publish([status |-> "streaming", stable |-> signals.stable, value |-> Reduced(r)], {}, tasks)
  /\ UNCHANGED <<registered, attempt, analyses, listeners, clients>>

Done(r) ==
  /\ r \in analyses /\ r = activeRun /\ signals.value.chunks = Steps
  /\ Publish([status |-> "success", value |-> Final(source[r]), stable |-> Final(source[r])],
             {}, tasks)
  /\ analyses' = analyses \ {r}
  /\ UNCHANGED <<registered, attempt, listeners, clients>>

\* An analysis given as an option may throw.  onError is keep-partial.
Fail(r) ==
  /\ r \in analyses /\ r = activeRun
  /\ Publish([signals EXCEPT !.status = "error"], {}, tasks)
  /\ analyses' = analyses \ {r}
  /\ UNCHANGED <<registered, attempt, listeners, clients>>

-----------------------------------------------------------------------------
(* Requests *)

CanCancel == signals.status \in {"pending", "streaming"}
CanRetry  == signals.status \in {"error", "cancelled"}

\* onCancel is keep-partial.
CancelRun == Publish([signals EXCEPT !.status = "cancelled"], {activeRun}, tasks)

PostCancel ==
  /\ registered /\ CanCancel
  /\ CancelRun
  /\ UNCHANGED <<registered, attempt, analyses, listeners, clients>>

\* A batch enables the source, which start() may have done, and counts the attempt.
Retry ==
  /\ attempt' = attempt + 1
  /\ BeginRun(attempt + 1, signals.stable, tasks)
  /\ dirty' = FALSE

PostRetry ==
  /\ registered /\ CanRetry /\ attempt <= MaxRetries
  /\ Retry
  /\ UNCHANGED <<registered, analyses, listeners, clients>>

\* Mutant of Dispose: the listeners go first.
DisposeUnheard ==
  /\ dirty' = FALSE /\ listeners' = {}
  /\ IF activeRun # None
     THEN /\ activeRun' = None /\ cancelled' = cancelled \cup {activeRun}
          /\ signals' = [signals EXCEPT !.status = "cancelled"]
          /\ UNCHANGED <<source, tasks>>
     ELSE UNCHANGED <<resource, tasks>>
  /\ UNCHANGED writes

\* dispose() stops the source's effect, cancels, and then lets the listeners go.
Dispose ==
  /\ dirty' = FALSE /\ listeners' = {}
  /\ IF activeRun # None
     THEN LET new == [signals EXCEPT !.status = "cancelled"] IN
            /\ activeRun' = None /\ cancelled' = cancelled \cup {activeRun}
            /\ signals' = new /\ Notify(new, attempt)
            /\ UNCHANGED <<source, tasks>>
     ELSE UNCHANGED <<resource, tasks, writes>>

\* deleteJob().
Delete ==
  /\ registered /\ registered' = FALSE
  /\ Dispose
  /\ UNCHANGED <<attempt, analyses, clients>>

\* subscribe(): the listener is called at once.
Subscribe(c) ==
  /\ listeners' = listeners \cup {c}
  /\ writes' = [writes EXCEPT ![c] = <<State>>]

\* GET /jobs/:id/events: the first state is that of the moment.
Open(c) ==
  /\ registered /\ phase[c] = "off"
  /\ phase' = [phase EXCEPT ![c] = "open"]
  /\ Subscribe(c)
  /\ UNCHANGED <<registered, attempt, dirty, resource, analyses, tasks, half, got>>

-----------------------------------------------------------------------------
(* A client's chain of writes *)

Unwritten == <<registered, attempt, dirty, resource, analyses, tasks>>

WriteState(c) ==
  /\ phase[c] \in {"open", "ending", "draining"} /\ writes[c] # <<>> /\ ~half[c]
  /\ got' = [got EXCEPT ![c] = Head(writes[c])]
  /\ IF IsTerminal(Head(writes[c]))
     THEN half' = [half EXCEPT ![c] = TRUE] /\ UNCHANGED writes
     ELSE writes' = [writes EXCEPT ![c] = Tail(@)] /\ UNCHANGED half
  /\ UNCHANGED <<Unwritten, listeners, phase>>

\* closeEvents() follows the done event.
WriteDone(c) ==
  /\ half[c] /\ half' = [half EXCEPT ![c] = FALSE]
  /\ writes' = [writes EXCEPT ![c] = Tail(@)]
  /\ phase' = [phase EXCEPT ![c] = IF @ = "open" THEN "ending" ELSE @]
  /\ UNCHANGED <<Unwritten, listeners, got>>

\* The handler unsubscribes, then waits for the writes there are, and returns.
Unsubscribe(c) ==
  /\ phase[c] = "ending"
  /\ phase' = [phase EXCEPT ![c] = "draining"]
  /\ listeners' = listeners \ {c}
  /\ UNCHANGED <<Unwritten, half, got, writes>>

Return(c) ==
  /\ phase[c] = "draining" /\ writes[c] = <<>>
  /\ phase' = [phase EXCEPT ![c] = "closed"]
  /\ UNCHANGED <<Unwritten, listeners, half, got, writes>>

\* The client goes away: the rest of the chain writes nothing.
Abort(c) ==
  /\ phase[c] \in {"open", "ending", "draining"}
  /\ phase' = [phase EXCEPT ![c] = "aborted"]
  /\ listeners' = listeners \ {c}
  /\ half' = [half EXCEPT ![c] = FALSE] /\ writes' = [writes EXCEPT ![c] = <<>>]
  /\ UNCHANGED <<Unwritten, got>>

-----------------------------------------------------------------------------
Microtask  == Tick \/ Start \/ Flush
Analyze(r) == Abandon(r) \/ Emit(r) \/ Done(r)
Respond(c) == WriteState(c) \/ WriteDone(c) \/ Unsubscribe(c) \/ Return(c)

Next ==
  \/ Tick \/ Start \/ Flush
  \/ \E r \in Runs : Abandon(r) \/ Emit(r) \/ Done(r) \/ Fail(r)
  \/ PostCancel \/ PostRetry \/ Delete
  \/ \E c \in Clients : \/ Open(c) \/ Abort(c) \/ WriteState(c) \/ WriteDone(c)
                        \/ Unsubscribe(c) \/ Return(c)

\* Microtasks run, the waits of an analysis end, and a client takes what is written
\* to it (or goes away).
Fairness ==
  /\ WF_vars(Microtask)
  /\ \A r \in 1 .. MaxRetries + 3 : WF_vars(r \in Runs /\ Analyze(r))
  /\ \A c \in Clients : WF_vars(Respond(c))

Spec     == Init /\ [][Next]_vars
FairSpec == Spec /\ Fairness

-----------------------------------------------------------------------------
(* Properties *)

\* What a state may say: a success has the last chunk of the attempt it was read in,
\* and a running job a chunk of it.
Earned(state) ==
  /\ state.status = "success" => state.stable = Final(state.of) /\ state.value = Final(state.of)
  /\ state.status = "running" => state.value.attempt = state.of
  /\ state.status = "pending" => state.value = Initial

\* No request and no client is told of a success that was not reached, or shown the
\* chunks of an earlier attempt for those of the one that runs: not by the run of
\* the disabled source, nor by one that a retry has superseded
\* (createStreamResource.ts:291, createJobRuntime.ts:73-98).
StatesAreEarned ==
  /\ Earned(State)
  /\ \A c \in Clients : Earned(got[c]) /\ \A i \in DOMAIN writes[c] : Earned(writes[c][i])

\* A client whose stream is open and has been written everything was last sent the
\* state the job is in, be it deleted (routes/jobs.ts:80-110,
\* createJobRuntime.ts:137-143).
LastEventIsCurrent ==
  \A c \in Clients : phase[c] = "open" /\ writes[c] = <<>> => got[c] = State

\* Every stream of events ends: by the done event of a terminal state, also that of
\* a job that is deleted, or because the client goes away (routes/jobs.ts:56-112).
EventsEnd ==
  \A c \in Clients : phase[c] = "open" ~> phase[c] \in {"closed", "aborted"}
=============================================================================
