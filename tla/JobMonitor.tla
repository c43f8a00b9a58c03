----------------------------- MODULE JobMonitor -----------------------------
(***************************************************************************)
(* The job monitor: createJobKernel() in the browser against the job store *)
(* of the server.  The list of the browser is written by four hands: the   *)
(* answers of fetchJobs, the events of the server, the retry that is shown *)
(* before it is confirmed and the cancel that is shown when it is.         *)
(*                                                                         *)
(* Requests and events travel on connections of their own, so they overtake*)
(* one another.  A job is its status and its progress; times, logs, the    *)
(* selection and the filter are left out, and so are the page's buttons    *)
(* that capture the list and restore it, a list of an earlier time over    *)
(* the present one (kernel-owned.vue:46-73).  A request superseded by      *)
(* another is aborted: its promise rejects at once and nothing follows,    *)
(* but the server may have it already.  Resources are those of Resources,  *)
(* with the flush that follows an invalidation at once.                    *)
(***************************************************************************)
EXTENDS Integers, SequencesExt

CONSTANTS Initial,   \* the jobs of the store, in their order: a sequence of statuses
          Steps,     \* how many ticks a job needs
          MaxCalls,  \* bound: calls of retryJob() and cancelJob()
          MaxWire,   \* bound: events under way
          MaxDrops   \* bound: interruptions of the connection, restarts and reloads

Jobs == DOMAIN Initial
Ops == {"retry", "cancel"}
Calls == 1 .. MaxCalls
NoCall == 0

VARIABLES
  store, progress,   \* createMockJobStore: jobs
  wire,              \* events under way to the browser: <<job, status>>
  view,              \* jobs, as the browser has them: a status, or "absent" from the list
  enabled, scheduled,\* eventStreamEnabled, and the stream's effect waiting for the flush
  sub,               \* the subscription, by the connection status it reports
  fetch, answer,     \* the newest fetchJobs: how far it is, what it will show
  calls, call,       \* how many calls there were; of each its operation, job and place
  waiting,           \* the newest call of an operation, until it is answered
  outdated, since,   \* history: see Converged
  drops

server == <<store, progress>>
stream == <<enabled, scheduled, sub>>
requests == <<calls, call, waiting>>
vars == <<server, wire, view, stream, fetch, answer, requests, outdated, since, drops>>

Active == {"running", "retrying"}
NewCall(op, j) == [op |-> op, job |-> j, at |-> "sent"]
NoRequest == [op |-> "retry", job |-> 1, at |-> "none"]

Init ==
  /\ store = Initial /\ progress = [j \in Jobs |-> 0] /\ wire = <<>>
  /\ view = [j \in Jobs |-> "absent"]
  /\ enabled = FALSE /\ scheduled = FALSE /\ sub = "closed"
  /\ fetch = "sent" /\ answer = Initial
  /\ calls = 0 /\ call = [c \in Calls |-> NoRequest]
  /\ waiting = [op \in Ops |-> NoCall]
  /\ outdated = {} /\ since = {} /\ drops = 0

OnWire == {wire[i][1] : i \in DOMAIN wire}

-----------------------------------------------------------------------------
(* The store *)

\* The route has subscribed for the browser, and writes it what the store emits.
Subscribed == sub = "open"
Send(j, s) == wire' = Append(wire, <<j, s>>)

\* replaceJob and emit: whoever is not connected never hears of it.
Change(j, s) ==
  /\ store' = [store EXCEPT ![j] = s]
  /\ IF Subscribed
     THEN Send(j, s) /\ UNCHANGED outdated
     ELSE outdated' = outdated \cup {j} /\ UNCHANGED wire
  /\ since' = IF fetch = "read" THEN since \cup {j} ELSE since

\* The first of the jobs with one of these statuses.
First(S) == {j \in Jobs : store[j] \in S /\ \A i \in 1 .. (j - 1) : store[i] \notin S}

\* tick(): somebody listens, perhaps another browser.
Tick ==
  /\ Len(wire) < MaxWire
  /\ \/ \E j \in First(Active) :
          /\ progress' = [progress EXCEPT ![j] = @ + 1]
          /\ Change(j, IF progress[j] + 1 >= Steps THEN "succeeded" ELSE "running")
     \/ /\ First(Active) = {} /\ UNCHANGED progress
        /\ \E j \in First({"queued"}) : Change(j, "running")
  /\ UNCHANGED <<view, stream, fetch, answer, requests, drops>>

\* retryJob and cancelJob of the store ask nothing of the job they change.
ServerHandles(c) ==
  /\ call[c].at = "sent" /\ Len(wire) < MaxWire
  /\ call' = [call EXCEPT ![c].at = "handled"]
  /\ IF call[c].op = "retry"
     THEN Change(call[c].job, "retrying") /\ progress' = [progress EXCEPT ![call[c].job] = 0]
     ELSE Change(call[c].job, "cancelled") /\ UNCHANGED progress
  /\ UNCHANGED <<view, stream, fetch, answer, calls, waiting, drops>>

-----------------------------------------------------------------------------
(* The list of the browser *)

\* updateJob: a job that is not in the list stays out of it.
Show(j, s) == view' = [view EXCEPT ![j] = IF @ = "absent" THEN @ ELSE s]

\* Mutant of Deliver: the last event under way overtakes the others.
DeliverLast ==
  /\ wire # <<>>
  /\ LET e == Last(wire) IN Show(e[1], e[2]) /\ outdated' = outdated \ {e[1]}
  /\ wire' = Front(wire)
  /\ UNCHANGED <<server, stream, fetch, answer, requests, since, drops>>

\* An event arrives, in the order of the server: dispatchJobEvent.
Deliver ==
  /\ wire # <<>>
  /\ LET e == Head(wire) IN Show(e[1], e[2]) /\ outdated' = outdated \ {e[1]}
  /\ wire' = Tail(wire)
  /\ UNCHANGED <<server, stream, fetch, answer, requests, since, drops>>

\* The jobs resource is run again; the run before it is superseded.
Refetch == fetch' = "sent" /\ answer' = Initial /\ since' = {}

FetchRead ==
  /\ fetch = "sent"
  /\ fetch' = "read" /\ answer' = store /\ since' = {}
  /\ UNCHANGED <<server, wire, view, stream, requests, outdated, drops>>

\* onSuccess of the jobs resource: an event that was quicker is forgotten.
FetchAnswered ==
  /\ fetch = "read"
  /\ fetch' = "none" /\ view' = answer /\ answer' = Initial
  /\ outdated' = since \ OnWire /\ since' = {}
  /\ UNCHANGED <<server, wire, stream, requests, drops>>

FetchFails ==
  /\ fetch # "none"
  /\ fetch' = "none" /\ answer' = Initial
  /\ outdated' = Jobs /\ since' = {}
  /\ UNCHANGED <<server, wire, view, stream, requests, drops>>

-----------------------------------------------------------------------------
(* retryJob() and cancelJob() *)

\* run() of the manual resource.
Request(op, j) ==
  /\ calls < MaxCalls /\ calls' = calls + 1
  /\ call' = [call EXCEPT ![calls + 1] = NewCall(op, j)]
  /\ waiting' = [waiting EXCEPT ![op] = calls + 1]

CanRetry(s)  == s = "failed"
CanCancel(s) == s \in Active \cup {"queued"}

\* filteredJobListItems, without a filter: the jobs in the list, with their buttons.
JobListItems == [j \in {j \in Jobs : view[j] # "absent"} |-> [canRetry |-> CanRetry(view[j]), canCancel |-> CanCancel(view[j])]]

\* The button of a failed job.  A retry that this one supersedes may never be
\* heard of again, and is shown for ever.
RetryJob(j) ==
  /\ j \in DOMAIN JobListItems /\ JobListItems[j].canRetry
  /\ Show(j, "retrying")
  /\ Request("retry", j)
  /\ outdated' = outdated \cup {call[c].job : c \in {waiting["retry"]} \ {NoCall}}
  /\ UNCHANGED <<server, wire, stream, fetch, answer, since, drops>>

CancelJob(j) ==
  /\ j \in DOMAIN JobListItems /\ JobListItems[j].canCancel
  /\ Request("cancel", j)
  /\ UNCHANGED <<server, wire, view, stream, fetch, answer, outdated, since, drops>>

Answered(op) ==
  /\ waiting' = [waiting EXCEPT ![op] = NoCall]
  /\ call' = [call EXCEPT ![waiting[op]] = NoRequest]
  /\ UNCHANGED <<server, wire, stream, calls, drops>>

RetryConfirmed ==
  /\ waiting["retry"] # NoCall /\ call[waiting["retry"]].at = "handled"
  /\ Answered("retry") /\ Refetch
  /\ UNCHANGED <<view, outdated>>

\* Mutant of RetryFails: the list is left as it is.
RetryFailsSilently ==
  /\ waiting["retry"] # NoCall
  /\ LET c == call[waiting["retry"]] IN
       outdated' = IF store[c.job] # "failed" THEN outdated \cup {c.job} ELSE outdated
  /\ Answered("retry")
  /\ UNCHANGED <<view, fetch, answer, since>>

\* The server cannot be reached, or its answer is lost.
RetryFails ==
  /\ waiting["retry"] # NoCall
  /\ LET c == call[waiting["retry"]] IN
       /\ Show(c.job, "failed")
       /\ outdated' = IF store[c.job] # "failed" THEN outdated \cup {c.job} ELSE outdated
  /\ Answered("retry")
  /\ UNCHANGED <<fetch, answer, since>>

CancelConfirmed ==
  /\ waiting["cancel"] # NoCall /\ call[waiting["cancel"]].at = "handled"
  /\ Show(call[waiting["cancel"]].job, "cancelled")
  /\ Answered("cancel") /\ Refetch
  /\ UNCHANGED outdated

CancelFails ==
  /\ waiting["cancel"] # NoCall
  /\ Answered("cancel")
  /\ UNCHANGED <<view, outdated, fetch, answer, since>>

-----------------------------------------------------------------------------
(* start(), stop() and the connection *)

Start ==
  /\ ~enabled
  /\ enabled' = TRUE /\ scheduled' = TRUE
  /\ UNCHANGED <<server, wire, view, sub, fetch, answer, requests, outdated, since, drops>>

\* What was under way is lost.
Lose ==
  /\ wire' = <<>>
  /\ outdated' = outdated \cup OnWire
  /\ since' = IF fetch = "read" THEN since \cup OnWire ELSE since

\* stop(): the stream is cancelled and its cleanup closes the connection.
Stop ==
  /\ drops < MaxDrops /\ drops' = drops + 1
  /\ enabled
  /\ enabled' = FALSE /\ scheduled' = TRUE /\ sub' = "closed"
  /\ Lose
  /\ UNCHANGED <<server, view, fetch, answer, requests>>

\* The page's button.
Reload ==
  /\ drops < MaxDrops /\ drops' = drops + 1
  /\ Refetch
  /\ UNCHANGED <<server, wire, view, stream, requests, outdated>>

\* The page's reset: stop() and resetGraphState().
Reset ==
  /\ drops < MaxDrops /\ drops' = drops + 1
  /\ enabled' = FALSE /\ scheduled' = (scheduled \/ enabled) /\ sub' = "closed"
  /\ view' = [j \in Jobs |-> "absent"]
  /\ Lose
  /\ UNCHANGED <<server, fetch, answer, requests>>

\* The effect of the stream resource: a new run, which subscribes if enabled.
StreamEffect ==
  /\ scheduled
  /\ scheduled' = FALSE
  /\ sub' = IF enabled THEN "connecting" ELSE "closed"
  /\ Lose
  /\ UNCHANGED <<server, view, enabled, fetch, answer, requests, drops>>

\* The EventSource, external: it reconnects by itself.
Open ==
  /\ sub \in {"connecting", "reconnecting"}
  /\ sub' = "open"
  /\ UNCHANGED <<server, wire, view, enabled, scheduled, fetch, answer, requests, outdated, since, drops>>

Interrupt ==
  /\ drops < MaxDrops /\ drops' = drops + 1
  /\ sub = "open"
  /\ sub' = "reconnecting"
  /\ Lose
  /\ UNCHANGED <<server, view, enabled, scheduled, fetch, answer, requests>>

-----------------------------------------------------------------------------
CallsHandled == \E c \in Calls : ServerHandles(c)
RetryEnds == RetryConfirmed \/ RetryFails
CancelEnds == CancelConfirmed \/ CancelFails
FetchEnds == FetchRead \/ FetchAnswered \/ FetchFails
Users == (\E j \in Jobs : RetryJob(j) \/ CancelJob(j)) \/ Start \/ Stop \/ Reload \/ Reset

Next == Tick \/ CallsHandled \/ Deliver \/ FetchEnds \/ RetryEnds \/ CancelEnds
        \/ Users \/ StreamEffect \/ Open \/ Interrupt

Spec == Init /\ [][Next]_vars

\* Timers and flushes run, connections open, requests are answered in the end.
Fairness == /\ WF_vars(Tick) /\ WF_vars(Deliver) /\ WF_vars(StreamEffect) /\ WF_vars(Open)
            /\ WF_vars(FetchEnds) /\ WF_vars(RetryEnds) /\ WF_vars(CancelEnds)

-----------------------------------------------------------------------------
(* Properties *)

Quiescent == wire = <<>> /\ fetch = "none" /\ \A op \in Ops : waiting[op] = NoCall

\* When nothing is under way, the list shows each job as the store has it,
\* whatever order the events, the answers, the retry shown early and the
\* cancel shown late were applied in.  The exceptions, which outdated names:
\* an event that was lost, or was applied before the answer to an older fetch;
\* a fetch that failed; a retry that failed though the job is not failed any
\* more, or was superseded; until the next event of the job or the next fetch.
Converged ==
  Quiescent => \A j \in Jobs \ outdated : view[j] \in {"absent", store[j]}

\* A retry shown early does not stay on the screen (same exceptions, as long
\* as the browser is connected).
RetryingEnds ==
  \A j \in Jobs : view[j] = "retrying" ~> (view[j] # "retrying" \/ j \in outdated \/ sub # "open")
=============================================================================
