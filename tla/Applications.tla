---------------------------- MODULE Applications ----------------------------
(***************************************************************************)
(* Resources and the example applications, side by side: each with its     *)
(* constants and with variables of its own, for what several of them call  *)
(* by one name.  They share nothing but the count of actions, which is a   *)
(* bound.  MCParts gives the constants values and lets one part run at a   *)
(* time; ApplicationProofs proves about each part, for every value.        *)
(***************************************************************************)
EXTENDS Integers, Sequences

CONSTANTS
  Nothing, MaxActions,
  \* Resources
  Keys, NoKey, MaxRuns,
  \* DevopsGraph
  Commits, FirstCommit, Fixture,
  \* CommerceGraph
  Accounts, Entitled, Regions, Items, Stock, MaxQuantity, FirstAccount, FirstRegion,
  \* ReactiveProxy
  RouteTables, Routes, PoolTables, Upstreams, Paths, Demo, Requests, MaxProbes, MaxChanges,
  \* JobMonitor
  MonitorJobs, MonitorSteps, MonitorCalls, MaxWire, MaxDrops,
  \* MemoryRuntime
  Turns, PlanSize, Messages, NoMessage, MaxMessages,
  \* ChatGraph and PlainChat
  Chunks, InterruptAt, Interrupted, MaxPrompts

VARIABLES
  actions,
  \* Resources
  server, wToken, wLive, wInput, write, latestInput, wStatus, handler, key, observed, stale, effects,
  token, live, input, query, answered, queryStatus, value, announced, derailed, mispaired, runs,
  \* DevopsGraph
  selected, approved, intent, ci, artifact, deployment, release, queued, approvedCommit,
  \* CommerceGraph
  account, region, cart, pricing, inventory, scheduled, cartOwner,
  \* ReactiveProxy
  routes, upstreams, strategy, cursor, health, healthy, probes, requests, stage, open, listening, interval, picks,
  \* JobMonitor
  store, progress, wire, list, enabled, effect, sub, fetch, answer, calls, call, waiting,
  outdated, since, drops,
  \* MemoryRuntime
  memory, turn, before, retainStatus, message, recallDue, recall, asked, found, status, recalled,
  redo, run, prompt, streamStatus, text, applied, overlaps, messages,
  \* ChatGraph
  chatMessages, activeAssistant, request, chatEffect, chatRun, chatStatus, chatText, chatRead, chatView,
  \* PlainChat
  plainMessages, isStreaming, controller, aborted, plainRead, plainView, viewStreaming

\* A cart has a limit, and the graph begins with an account and a region that exist.
ASSUME CommerceAssumption == FirstAccount \in Accounts /\ FirstRegion \in Regions /\ MaxQuantity \in Nat

\* Every commit has a fixture: what CI, the registry, the rollout and the health stream say of it.
ASSUME DevopsAssumption ==
  /\ FirstCommit \in Commits
  /\ Fixture \in [Commits -> [ci : {"success", "failed"}, artifact : {"ready", "missing"},
                             deployment : {"success", "failed"}, health : Seq({"healthy", "degraded"})]]

-----------------------------------------------------------------------------
(* The parts *)

Queries == INSTANCE Resources
  WITH source <- key, dirty <- stale, fetch <- query, got <- answered,
       status <- queryStatus, calls <- runs, MaxCalls <- MaxRuns

Ops == INSTANCE DevopsGraph WITH health <- release, scheduled <- queued

Shop == INSTANCE CommerceGraph

Proxy == INSTANCE ReactiveProxy
  WITH MaxActions <- MaxChanges, request <- requests, phase <- stage

Monitor == INSTANCE JobMonitor
  WITH Initial <- MonitorJobs, Steps <- MonitorSteps, MaxCalls <- MonitorCalls,
       view <- list, scheduled <- effect

Memory == INSTANCE MemoryRuntime
  WITH dirty <- recallDue, got <- found, stream <- run, source <- prompt

Kernel == INSTANCE ChatGraph
  WITH messages <- chatMessages, scheduled <- chatEffect, run <- chatRun, status <- chatStatus,
       text <- chatText, read <- chatRead, view <- chatView

Plain == INSTANCE PlainChat
  WITH messages <- plainMessages, read <- plainRead, view <- plainView

-----------------------------------------------------------------------------
(* What is assumed of the constants of the others *)

\* There is a bound on the runs of a resource, and one on the actions of a plan.
ASSUME ResourcesAssumption == MaxRuns \in Nat
ASSUME MemoryAssumption == PlanSize \in Nat

\* The chunks of an answer and those before an interruption are counted, and so are the prompts.
ASSUME ChatAssumption == Chunks \in Nat /\ InterruptAt \in Nat /\ MaxPrompts \in Nat

\* The store begins with some jobs.
ASSUME MonitorAssumption ==
  /\ MonitorJobs \in Seq({"queued", "running", "retrying", "succeeded", "failed", "cancelled"}) \ {<<>>}
  /\ MonitorCalls \in Nat

\* A path is a sequence, a route is not the lack of one, and a pool lists each of its upstreams once.
ASSUME ProxyAssumption ==
  /\ Paths \subseteq Seq(STRING)
  /\ \A table \in RouteTables \cup {Routes} :
       /\ table \in Seq([prefix : Seq(STRING), pool : STRING])
       /\ \A i \in DOMAIN table : table[i] # Proxy!NoRoute
  /\ \A table \in PoolTables \cup {Upstreams} :
       /\ table \in [Proxy!Pools -> Seq(Proxy!Servers)]
       /\ \A p \in Proxy!Pools : \A i, j \in DOMAIN table[p] : table[p][i] = table[p][j] => i = j

-----------------------------------------------------------------------------
(* Their safety properties, which the modules explain *)

\* A successful query is for its key, and no older than the last invalidation.
FreshResult == Queries!FreshResult

\* Once nothing is pending, a commit is offered for promotion only on its own verdicts.
PromotesOnOwnVerdicts == Ops!PromotesOnOwnVerdicts

\* A checkout is allowed only for the account, region and cart that are shown.
CheckoutIsForThisCart == Shop!CheckoutIsForThisCart

\* Round-robin is fair as long as the available upstreams stay the same.
RotationIsFair == Proxy!RotationIsFair

\* A path takes the longest route that matches it.
RouteIsLongest == Proxy!RouteIsLongest

\* A proxy that is closed or did not start holds nothing.
NothingIsHeld == Proxy!NothingIsHeld

\* The job list converges to the jobs of the server.
Converged == Monitor!Converged

\* Facts are retained together or not at all.
AtomicRetain == Memory!AtomicRetain

\* An answer is made from what the memory holds for the current message.
ContextIsCurrent == Memory!ContextIsCurrent
=============================================================================
