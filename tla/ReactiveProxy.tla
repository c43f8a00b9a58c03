--------------------------- MODULE ReactiveProxy ---------------------------
(***************************************************************************)
(* The reactive proxy of examples/reactive-proxy: the graph of             *)
(* createReactiveProxyGraph(), the probes of startHealthChecks() that keep *)
(* writing to it, the requests of proxyRequest() that are decided by it,   *)
(* and the server that starts and closes the three.                        *)
(*                                                                         *)
(* Probes overlap: a tick of the interval waits for none of the last one,  *)
(* so an answer may arrive after that of a later probe.  What an upstream  *)
(* does is external; a request body, its headers and the log are left out. *)
(***************************************************************************)
EXTENDS ProxyDecision, FiniteSets

CONSTANTS RouteTables,  \* what replaceRoutes is called with, the first table in it
          Routes,       \* ReactiveProxyConfig.routes
          PoolTables,   \* what replaceUpstreams is called with: of each pool, its upstreams in order
          Upstreams,    \* ReactiveProxyConfig.upstreams
          Paths,        \* the paths that are asked for
          Demo,         \* startDemoUpstreams: the servers in the order they are started
          Requests,     \* bound: the requests that may be under way together
          MaxProbes,    \* bound: the probes of one server that may be under way together
          MaxActions    \* bound: changes of upstreams and of the graph from outside, and timeouts

Servers == {Demo[i] : i \in DOMAIN Demo}
Pools == DOMAIN Upstreams
NoServer == "none"

VARIABLES
  routes, upstreams, strategy, cursor, health,  \* the signals; policy and roundRobinCursor are strategy and cursor
  healthy,                           \* external: what each upstream would answer
  probes,                            \* of each upstream, the probes under way: "sent" or what was answered
  request,                           \* the upstream each request was forwarded to
  phase,                             \* startReactiveProxyServer, then close()
  open, listening, interval,         \* the upstreams that listen, the proxy that does, the timer of the probes
  picks,                             \* history: rotations, see RotationIsFair
  actions

signals == <<routes, upstreams, strategy, cursor, health>>
server == <<phase, open, listening, interval>>
vars == <<signals, healthy, probes, request, server, picks, actions>>

NoPicks == [s \in Servers |-> 0]

Init ==
  /\ routes = Routes /\ upstreams = Upstreams /\ strategy = "first-healthy" /\ cursor = [p \in Pools |-> 0]
  /\ health = [s \in Servers |-> "unknown"] /\ healthy = [s \in Servers |-> TRUE]
  /\ probes = [s \in Servers |-> <<>>] /\ request = [r \in Requests |-> NoServer]
  /\ phase = "starting" /\ open = {} /\ listening = FALSE /\ interval = FALSE
  /\ picks = [p \in Pools |-> NoPicks] /\ actions = 0

Outside == actions < MaxActions /\ actions' = actions + 1

-----------------------------------------------------------------------------
(* Start *)

\* checkNow: one probe of each upstream of each pool.
Listed(s) == UNION {{p} \X {i \in DOMAIN upstreams[p] : upstreams[p][i] = s} : p \in Pools}
CheckNow == probes' = [s \in Servers |-> probes[s] \o [i \in 1 .. Cardinality(Listed(s)) |-> "sent"]]

StartUpstream ==
  /\ phase = "starting" /\ Cardinality(open) < Len(Demo)
  /\ open' = open \cup {Demo[Cardinality(open) + 1]}
  /\ UNCHANGED <<signals, healthy, probes, request, phase, listening, interval, picks, actions>>

\* A port is taken: the upstreams that did start are closed.
StartUpstreamFails ==
  /\ phase = "starting" /\ Cardinality(open) < Len(Demo)
  /\ open' = {} /\ phase' = "failed"
  /\ UNCHANGED <<signals, healthy, probes, request, listening, interval, picks, actions>>

\* Mutant of StartHealthChecks: the interval is not set.
StartHealthChecksOnce ==
  /\ phase = "starting" /\ Cardinality(open) = Len(Demo)
  /\ phase' = "listen"
  /\ CheckNow
  /\ UNCHANGED <<signals, healthy, request, open, listening, interval, picks, actions>>

StartHealthChecks ==
  /\ phase = "starting" /\ Cardinality(open) = Len(Demo)
  /\ phase' = "listen" /\ interval' = TRUE
  /\ CheckNow
  /\ UNCHANGED <<signals, healthy, request, open, listening, picks, actions>>

Listen ==
  /\ phase = "listen"
  /\ phase' = "running" /\ listening' = TRUE
  /\ UNCHANGED <<signals, healthy, probes, request, open, interval, picks, actions>>

\* Mutant of ListenFails: the probes go on.
ListenFailsOnly ==
  /\ phase = "listen"
  /\ phase' = "failed" /\ open' = {}
  /\ UNCHANGED <<signals, healthy, probes, request, listening, interval, picks, actions>>

ListenFails ==
  /\ phase = "listen"
  /\ phase' = "failed" /\ interval' = FALSE /\ open' = {}
  /\ UNCHANGED <<signals, healthy, probes, request, listening, picks, actions>>

-----------------------------------------------------------------------------
(* The health checks *)

\* A pool whose available upstreams change begins a new rotation.
Rotations(pools, map) ==
  picks' = [p \in Pools |-> IF Available(pools[p], map) = Available(upstreams[p], health) THEN picks[p] ELSE NoPicks]

\* setServerHealth.
SetHealth(s, status) ==
  /\ health' = [health EXCEPT ![s] = status]
  /\ Rotations(upstreams, health')

Tick ==
  /\ interval /\ \A s \in Servers : Len(probes[s]) < MaxProbes
  /\ CheckNow
  /\ UNCHANGED <<signals, healthy, request, server, picks, actions>>

\* The upstream, external, answers a probe as it is then.
UpstreamAnswersProbe(s, i) ==
  /\ s \in open /\ probes[s][i] = "sent"
  /\ probes' = [probes EXCEPT ![s][i] = IF healthy[s] THEN "healthy" ELSE "unhealthy"]
  /\ UNCHANGED <<signals, healthy, request, server, picks, actions>>

\* The answer reaches the proxy.
ProbeAnswered(s, i) ==
  /\ probes[s][i] # "sent"
  /\ SetHealth(s, probes[s][i])
  /\ probes' = [probes EXCEPT ![s] = RemoveAt(@, i)]
  /\ UNCHANGED <<routes, upstreams, strategy, cursor, healthy, request, server, actions>>

\* No connection, or the timeout of the probe: the fetch rejects.
ProbeFails(s, i) ==
  /\ IF s \in open THEN Outside ELSE probes[s][i] = "sent" /\ UNCHANGED actions
  /\ SetHealth(s, "unhealthy")
  /\ probes' = [probes EXCEPT ![s] = RemoveAt(@, i)]
  /\ UNCHANGED <<routes, upstreams, strategy, cursor, healthy, request, server>>

-----------------------------------------------------------------------------
(* The requests *)

\* The least is taken from all, so that the history stays small.
Counted(counts, s, S) ==
  LET new == [counts EXCEPT ![s] = @ + 1]
  IN IF \A t \in S : new[t] > 0 THEN [t \in Servers |-> IF t \in S THEN new[t] - 1 ELSE new[t]] ELSE new

\* proxyRequest: a request without a route or an upstream is answered at once.
Forward(r, path) ==
  /\ listening /\ request[r] = NoServer
  /\ LET context == DecisionContext(routes, upstreams, health, path)
         decision == Decide(context, strategy, cursor[context.pool])
     IN /\ context.candidates # <<>>
        /\ request' = [request EXCEPT ![r] = decision.upstream]
        /\ cursor' = [cursor EXCEPT ![context.pool] = decision.cursor]
        /\ picks' = IF strategy # "round-robin" THEN picks
                    ELSE [picks EXCEPT ![context.pool] = Counted(@, decision.upstream, ToSet(context.candidates))]
  /\ UNCHANGED <<routes, upstreams, strategy, health, healthy, probes, server, actions>>

\* The response is piped to its end, or breaks: 502, or the connection is destroyed.
RequestEnds(r) ==
  /\ request[r] # NoServer
  /\ request' = [request EXCEPT ![r] = NoServer]
  /\ UNCHANGED <<signals, healthy, probes, server, picks, actions>>

-----------------------------------------------------------------------------
(* What comes from outside *)

ToggleHealth(s) ==
  /\ Outside /\ s \in open
  /\ healthy' = [healthy EXCEPT ![s] = ~@]
  /\ UNCHANGED <<signals, probes, request, server, picks>>

SetServerHealth(s, status) ==
  /\ Outside /\ phase = "running"
  /\ SetHealth(s, status)
  /\ UNCHANGED <<routes, upstreams, strategy, cursor, healthy, probes, request, server>>

ReplaceRoutes(table) ==
  /\ Outside /\ phase = "running"
  /\ routes' = table
  /\ UNCHANGED <<upstreams, strategy, cursor, health, healthy, probes, request, server, picks>>

ReplaceUpstreams(table) ==
  /\ Outside /\ phase = "running"
  /\ upstreams' = table
  /\ Rotations(table, health)
  /\ UNCHANGED <<routes, strategy, cursor, health, healthy, probes, request, server>>

SetTrafficPolicy(next) ==
  /\ Outside /\ phase = "running"
  /\ strategy' = next
  /\ UNCHANGED <<routes, upstreams, cursor, health, healthy, probes, request, server, picks>>

ResetRoundRobinCursor ==
  /\ Outside /\ phase = "running"
  /\ cursor' = [p \in Pools |-> 0] /\ picks' = [p \in Pools |-> NoPicks]
  /\ UNCHANGED <<routes, upstreams, strategy, health, healthy, probes, request, server>>

\* close(): no more probes and connections; those under way are waited for.
Close ==
  /\ phase = "running"
  /\ phase' = "closing" /\ interval' = FALSE /\ listening' = FALSE
  /\ UNCHANGED <<signals, healthy, probes, request, open, picks, actions>>

\* The proxy is closed, and then the upstreams are.
Closed ==
  /\ phase = "closing" /\ \A r \in Requests : request[r] = NoServer
  /\ phase' = "closed" /\ open' = {}
  /\ UNCHANGED <<signals, healthy, probes, request, listening, interval, picks, actions>>

-----------------------------------------------------------------------------
Start == StartUpstream \/ StartUpstreamFails \/ StartHealthChecks \/ Listen \/ ListenFails
UpstreamAnswers == \E s \in Servers : \E i \in DOMAIN probes[s] : UpstreamAnswersProbe(s, i)
ProbeEnds == \E s \in Servers : \E i \in DOMAIN probes[s] : ProbeAnswered(s, i) \/ ProbeFails(s, i)
RequestsEnd == \E r \in Requests : RequestEnds(r)
Changes ==
  \/ \E s \in Servers : ToggleHealth(s) \/ \E h \in {"healthy", "stale"} : SetServerHealth(s, h)
  \/ \E table \in RouteTables : ReplaceRoutes(table)
  \/ \E table \in PoolTables : ReplaceUpstreams(table)
  \/ \E next \in {"round-robin", "first-healthy"} : SetTrafficPolicy(next)
  \/ ResetRoundRobinCursor

Next == Start \/ Tick \/ UpstreamAnswers \/ ProbeEnds
        \/ (\E r \in Requests, path \in Paths : Forward(r, path)) \/ RequestsEnd
        \/ Changes \/ Close \/ Closed

Spec == Init /\ [][Next]_vars

\* The timer fires, a probe is answered and a request is, each in the end.
Fairness == /\ WF_vars(Tick) /\ WF_vars(UpstreamAnswers) /\ WF_vars(ProbeEnds)
            /\ WF_vars(RequestsEnd) /\ WF_vars(Start) /\ WF_vars(Closed)

-----------------------------------------------------------------------------
(* Properties *)

\* As long as the available upstreams of a pool stay the same, round-robin
\* gives no one of them a second request more than another: the cursor is an
\* index into a list that health checks lengthen and shorten, is kept while
\* another policy is used, and one of many in a map that is replaced whole.
RotationIsFair ==
  \A p \in Pools : \A s, t \in ToSet(Available(upstreams[p], health)) : picks[p][s] - picks[p][t] <= 1

\* The one pass of matchRoute finds the route whose normalised prefix continues
\* those of all the others that match, however they are written, and of those
\* with the same one the first.
RouteIsLongest ==
  \A path \in Paths :
    LET matching == {i \in DOMAIN routes : MatchesPrefix(path, routes[i].prefix)}
        norm(i) == NormalizePrefix(routes[i].prefix)
        found == MatchRoute(routes, path)
    IN IF matching = {} THEN found = NoRoute
       ELSE \E i \in matching :
              /\ found = routes[i]
              /\ \A j \in matching : IsPrefix(norm(j), norm(i)) /\ (norm(j) = norm(i) => j >= i)

\* Once the upstreams have changed for the last time, the graph ends up with
\* the health they have, though an answer may overtake a later one.
HealthSettles ==
  <>[](phase = "running" => \A s \in Servers : (health[s] = "healthy") = healthy[s])

\* A server that is closed, or that did not start, holds no port and no interval,
\* and has left no request unanswered.
NothingIsHeld ==
  phase \in {"closed", "failed"} =>
    open = {} /\ ~listening /\ ~interval /\ \A r \in Requests : request[r] = NoServer
=============================================================================
