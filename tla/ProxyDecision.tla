--------------------------- MODULE ProxyDecision ---------------------------
(***************************************************************************)
(* The decision layer of the reactive proxy as functions of its signals:   *)
(* which route a path takes, which upstreams of its pool are available,    *)
(* and which of them the policy selects.                                   *)
(*                                                                         *)
(* Paths, without their query, and prefixes are sequences of tokens: a     *)
(* slash, or a name between slashes.  URLs and the trace of a decision are *)
(* left out; a rejection is a context without candidates, be it a 404 or a *)
(* 503.                                                                    *)
(***************************************************************************)
EXTENDS Integers, SequencesExt

Rooted(path) == path # <<>> /\ Head(path) = "/"

NormalizePath(path) == IF Rooted(path) THEN path ELSE <<"/">> \o path

\* Trailing slashes go, all of them, but only from a prefix that has a leading one.
NormalizePrefix(prefix) ==
  IF prefix = <<"/">> \/ ~Rooted(prefix) THEN NormalizePath(prefix)
  ELSE SubSeq(prefix, 1, Max({0} \cup {i \in DOMAIN prefix : prefix[i] # "/"}))

MatchesPrefix(path, prefix) ==
  LET normalizedPath == NormalizePath(path)
      normalizedPrefix == NormalizePrefix(prefix)
  IN \/ normalizedPrefix \in {<<"/">>, normalizedPath}
     \/ IsPrefix(normalizedPrefix \o <<"/">>, normalizedPath)

NoRoute == [prefix |-> <<>>, pool |-> "none"]

\* Mutant of Better: the prefixes are compared as they are written.
BetterAsWritten(route, best) == best = NoRoute \/ Len(route.prefix) > Len(best.prefix)

\* Prefixes that match one path are beginnings of it that end where a token does, so
\* the one with more tokens is the one with more characters.
Better(route, best) ==
  best = NoRoute \/ Len(NormalizePrefix(route.prefix)) > Len(NormalizePrefix(best.prefix))

\* matchRoute: one pass over the routes.
MatchRoute(routes, path) ==
  LET best[i \in 0 .. Len(routes)] ==
        IF i = 0 THEN NoRoute
        ELSE IF MatchesPrefix(path, routes[i].prefix) /\ Better(routes[i], best[i - 1]) THEN routes[i]
        ELSE best[i - 1]
  IN best[Len(routes)]

\* A server nobody has probed yet is available.
IsAvailableHealth(status) == status \in {"unknown", "healthy"}

\* createAvailableUpstreams, of one pool.
Available(servers, health) ==
  LET kept[i \in 0 .. Len(servers)] ==
        IF i = 0 THEN <<>>
        ELSE IF IsAvailableHealth(health[servers[i]]) THEN Append(kept[i - 1], servers[i])
        ELSE kept[i - 1]
  IN kept[Len(servers)]

\* buildDecisionContext: a pool that upstreams does not have has no candidates.
DecisionContext(routes, upstreams, health, path) ==
  LET pool == MatchRoute(routes, path).pool IN
    [pool |-> pool, candidates |-> IF pool \in DOMAIN upstreams THEN Available(upstreams[pool], health) ELSE <<>>]

\* Mutant of NextCursor: the cursor stays.
NextCursorStuck(cursor, candidates) == cursor % Len(candidates)

\* selectRoundRobin: the cursor may come from a time with more candidates.
NextCursor(cursor, candidates) == (cursor + 1) % Len(candidates)
RoundRobin(cursor, candidates) == candidates[(cursor % Len(candidates)) + 1]

SelectFirstHealthy(candidates) == candidates[1]

\* selectUpstream, of at least one candidate.
SelectUpstream(strategy, cursor, candidates) ==
  IF strategy = "round-robin" THEN RoundRobin(cursor, candidates) ELSE SelectFirstHealthy(candidates)

\* createDecisionResolver: the decision on a request, with the cursor of its pool
\* that it leaves.
Decide(context, strategy, cursor) ==
  [upstream |-> SelectUpstream(strategy, cursor, context.candidates),
   cursor   |-> IF strategy = "round-robin" THEN NextCursor(cursor, context.candidates) ELSE cursor]
=============================================================================
