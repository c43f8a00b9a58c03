------------------------------ MODULE MCParts ------------------------------
(***************************************************************************)
(* Resources and the example applications for TLC, several to a run: a     *)
(* behaviour is one of the part that Parts offers, and the others stay as  *)
(* they began.  Of JobRuntime, which is extended, the definitions go by    *)
(* their own names, and so do its properties.                              *)
(***************************************************************************)
EXTENDS JobRuntime, Applications

CONSTANTS Parts,            \* the parts that may run
          a, b, t1, t2, r1  \* model values

VARIABLE part \* the part that runs

\* The variables of each part.
resourceVars == <<server, wToken, wLive, wInput, write, latestInput, wStatus, handler, key, observed, stale,
                  effects, token, live, input, query, answered, queryStatus, value, announced, derailed,
                  mispaired, runs>>
opsVars == <<selected, approved, intent, ci, artifact, deployment, release, queued, approvedCommit>>
shopVars == <<account, region, cart, pricing, inventory, scheduled, cartOwner>>
proxyVars == <<routes, upstreams, strategy, cursor, health, healthy, probes, requests, stage, open,
               listening, interval, picks>>
monitorVars == <<store, progress, wire, list, enabled, effect, sub, fetch, answer, calls, call,
                 waiting, outdated, since, drops>>
memoryVars == <<memory, turn, before, retainStatus, message, recallDue, recall, asked, found, status,
                recalled, redo, run, prompt, streamStatus, text, applied, overlaps, messages>>
chatVars == <<chatMessages, activeAssistant, request, chatEffect, chatRun, chatStatus, chatText,
              chatRead, chatView>>
plainVars == <<plainMessages, isStreaming, controller, aborted, plainRead, plainView, viewStreaming>>

-----------------------------------------------------------------------------
(* The values of the constants of the parts *)

MCFixture == [c \in Commits |->
  [ci         |-> IF c = "rejected" THEN "failed" ELSE "success",
   artifact   |-> IF c = "rejected" THEN "missing" ELSE "ready",
   deployment |-> IF c = "failing" THEN "failed" ELSE "success",
   health     |-> IF c = "degrading" THEN <<"healthy", "degraded">> ELSE <<"healthy">>]]

MCStock == [r \in Regions |-> [i \in Items |-> IF r = "us" THEN 2 ELSE IF i = "x" THEN 1 ELSE 0]]

Api == <<"/", "api">>
Admin == <<"/", "api", "/", "admin">>
Route(prefix, pool) == [prefix |-> prefix, pool |-> pool]
MCRoutes == <<Route(Api, "api"), Route(Admin, "admin")>>

\* A longer prefix before a shorter, one twice, and the slashes: "api/", "//" and "/".
MCRouteTables ==
  {MCRoutes,
   <<Route(Admin \o <<"/">>, "admin"), Route(Api, "api"), Route(Api \o <<"/">>, "admin"), Route(<<"api", "/">>, "api")>>,
   <<Route(<<"/", "/">>, "api"), Route(<<"/">>, "admin")>>}

MCUpstreams == [api |-> <<a, b>>, admin |-> <<>>]
MCPoolTables == {MCUpstreams, [api |-> <<b>>, admin |-> <<a>>]}

MCPaths == {Admin, Api \o <<"/">>}
MCDemo == <<a, b>>

MCMonitorJobs == <<"queued", "failed">>

-----------------------------------------------------------------------------
(* One part runs *)

MCvars == <<part, actions, vars, resourceVars, opsVars, shopVars, proxyVars, monitorVars, memoryVars,
            chatVars, plainVars>>

MCInit ==
  /\ part \in Parts
  /\ Init /\ Queries!Init /\ Ops!Init /\ Shop!Init /\ Proxy!Init /\ Monitor!Init /\ Memory!Init
  /\ Kernel!Init /\ Plain!Init
  /\ key = a /\ message = a

In(name) ==
  /\ part = name /\ UNCHANGED part
  /\ IF name \in {"ops", "shop", "proxy"} THEN TRUE ELSE UNCHANGED actions
  /\ IF name = "jobs" THEN TRUE ELSE UNCHANGED vars
  /\ IF name = "resources" THEN TRUE ELSE UNCHANGED resourceVars
  /\ IF name = "ops" THEN TRUE ELSE UNCHANGED opsVars
  /\ IF name = "shop" THEN TRUE ELSE UNCHANGED shopVars
  /\ IF name = "proxy" THEN TRUE ELSE UNCHANGED proxyVars
  /\ IF name = "monitor" THEN TRUE ELSE UNCHANGED monitorVars
  /\ IF name \in {"retain", "memory"} THEN TRUE ELSE UNCHANGED memoryVars
  /\ IF name = "kernel chat" THEN TRUE ELSE UNCHANGED chatVars
  /\ IF name = "plain chat" THEN TRUE ELSE UNCHANGED plainVars

\* Two turns retain facts, and nobody reads them; or one does beside the readers.
MCNext ==
  \/ In("jobs") /\ Next
  \/ In("resources") /\ Queries!Next
  \/ In("ops") /\ Ops!Next
  \/ In("shop") /\ Shop!Next
  \/ In("proxy") /\ Proxy!Next
  \/ In("monitor") /\ Monitor!Next
  \/ In("retain") /\ \E t \in {t1, t2} : Memory!RetainTurn(t) \/ Memory!RetainGoesOn(t)
  \/ In("memory") /\ Memory!Next /\ turn'[t2] = "none"
  \/ In("kernel chat") /\ Kernel!Next
  \/ In("plain chat") /\ Plain!Next

MCSpec == MCInit /\ [][MCNext]_MCvars

\* The variables of the part that runs.
running ==
  CASE part = "jobs"        -> vars
    [] part = "resources"   -> resourceVars
    [] part = "ops"         -> <<opsVars, actions>>
    [] part = "shop"        -> <<shopVars, actions>>
    [] part = "proxy"       -> <<proxyVars, actions>>
    [] part = "monitor"     -> monitorVars
    [] part \in {"retain", "memory"} -> memoryVars
    [] part = "kernel chat" -> chatVars
    [] part = "plain chat"  -> plainVars

Run(name) == part = name /\ UNCHANGED part

\* The fairness of each part.  An action of several of them is fair when
\* that of the one that runs is, for the others have no steps.
First ==
  \/ Run("resources") /\ Queries!Environment
  \/ Run("jobs") /\ Microtask
  \/ Run("ops") /\ Ops!Flush
  \/ Run("proxy") /\ Proxy!Tick
  \/ Run("monitor") /\ Monitor!Tick
  \/ Run("kernel chat") /\ Kernel!Microtask
  \/ Run("plain chat") /\ Plain!Render
Reader(i) ==
  \/ Run("jobs") /\ i \in Runs /\ Analyze(i)
  \/ Run("kernel chat") /\ Kernel!Responds(i)
  \/ Run("plain chat") /\ Plain!Responds(i)
Second ==
  \/ Run("resources") /\ Queries!Scheduled
  \/ Run("jobs") /\ 4 \in Runs /\ Analyze(4)
  \/ Run("ops") /\ Ops!DeploymentAnswers
  \/ Run("proxy") /\ Proxy!UpstreamAnswers
  \/ Run("monitor") /\ Monitor!Deliver
Third ==
  \/ Run("resources") /\ Queries!Handlers
  \/ Run("jobs") /\ \E c \in Clients : Respond(c)
  \/ Run("ops") /\ Ops!CiAnswers
  \/ Run("proxy") /\ Proxy!ProbeEnds
  \/ Run("monitor") /\ Monitor!StreamEffect
Fourth ==
  \/ Run("resources") /\ Queries!CallbackReturns
  \/ Run("ops") /\ Ops!ArtifactAnswers
  \/ Run("proxy") /\ Proxy!RequestsEnd
  \/ Run("monitor") /\ Monitor!Open
Fifth ==
  \/ Run("resources") /\ Queries!CancelReturns
  \/ Run("proxy") /\ Proxy!Start
  \/ Run("monitor") /\ Monitor!FetchEnds
Sixth ==
  \/ Run("proxy") /\ Proxy!Closed
  \/ Run("monitor") /\ Monitor!RetryEnds
Seventh ==
  \/ Run("monitor") /\ Monitor!CancelEnds

Fair == /\ WF_running(First) /\ WF_running(Second) /\ WF_running(Third) /\ WF_running(Fourth)
        /\ WF_running(Fifth) /\ WF_running(Sixth) /\ WF_running(Seventh)
        /\ \A i \in 1 .. 3 : WF_running(Reader(i))

FairMCSpec == MCSpec /\ Fair

-----------------------------------------------------------------------------
(* The liveness properties, which the modules of the parts explain *)

\* A change of the source and an invalidation are answered.
RefetchEnds == part = "resources" => Queries!RefetchEnds

\* A rollout that the page shows as under way comes to an end.
RolloutEnds == Ops!RolloutEnds

\* The health the proxy decides by becomes that of the upstreams.
HealthSettles == Proxy!HealthSettles

\* A retry shown early does not stay on the screen.
RetryingEnds == Monitor!RetryingEnds

\* The kernel chat keeps the policy of both chats.
KernelKeepsPolicy == Kernel!KernelKeepsPolicy

\* The plain chat keeps it.
PlainKeepsPolicy == Plain!PlainKeepsPolicy
=============================================================================
