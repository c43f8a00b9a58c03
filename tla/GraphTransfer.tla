----------------------------- MODULE GraphTransfer -----------------------------
(***************************************************************************)
(* A server renders a page with a snapshot of a graph made for the         *)
(* request; a browser restores it into a graph of its own, which React     *)
(* components and Vue scopes read.                                         *)
(*                                                                         *)
(* Server and browser may run different builds, so each takes its scope    *)
(* from a set.  Writes do not flush: the views' effects run in the         *)
(* microtask after them.  A restore may be repeated while views are        *)
(* mounted.                                                                *)
(***************************************************************************)
EXTENDS Snapshot

CONSTANTS ServerScopes, ClientScopes,
          ReactViews, VueViews,
          Sources      \* what views may read: signals and computeds

\* Every build registers an id once.
ASSUME ScopesAssumption == \A s \in ServerScopes \cup ClientScopes : IsScope(s)

Views == ReactViews \cup VueViews
NoPage == [version |-> NoValue, nodes |-> <<>>]

VARIABLES
  document,    \* the snapshot document the browser has restored last
  client,      \* of the browser: "none", "up", or "failed", when its module has thrown
  scope,       \* the scope of the browser's build
  vals,        \* the signals of the browser's graph
  touched,     \* history: they were written since the restore
  phase,       \* of a view: "off", "rendered", not yet committed, or "subscribed"
  src,         \* what it reads
  tracked,     \* what its effect reads, {} if it has none
  shown,       \* the snapshot it keeps and renders
  queued,      \* views whose effect is queued for the microtask
  missed       \* history: React views subscribed to something else than they show

graph == <<scope, vals, touched>>
views == <<phase, src, tracked, shown, missed>>
vars  == <<document, client, graph, views, queued>>

NewVals == [s \in Signals |-> Initial]

NoViews ==
  /\ phase' = [v \in Views |-> "off"] /\ src' = [v \in Views |-> NoValue]
  /\ tracked' = [v \in Views |-> {}] /\ shown' = [v \in Views |-> NoValue]
  /\ queued' = {} /\ missed' = {}

Init ==
  /\ document = NoPage /\ client = "none"
  /\ scope \in ClientScopes /\ vals = NewVals /\ touched = FALSE
  /\ phase = [v \in Views |-> "off"] /\ src = [v \in Views |-> NoValue]
  /\ tracked = [v \in Views |-> {}] /\ shown = [v \in Views |-> NoValue]
  /\ queued = {} /\ missed = {}

-----------------------------------------------------------------------------
(* The server and the start of the browser's module *)

\* A request for the page: a new graph is captured into the HTML, or the answer is
\* an error.  The server keeps nothing, so a page is what some request has produced,
\* however long ago and by whatever build.
RenderHtml ==
  UNION {{CaptureSnapshot(s, profile) :
            profile \in {p \in [Signals -> Values] : CanCapture(s, p)}} : s \in ServerScopes}

\* The page is loaded, with a document or without: its module restores the document
\* before it renders.
LoadPage ==
  \E c \in ClientScopes, page \in RenderHtml \cup {NoPage} :
    LET run == IF page = NoPage THEN Begin(NewVals, FALSE)
                                ELSE RestoreSnapshot(c, page, NewVals, TRUE) IN
      /\ scope' = c /\ document' = page
      /\ vals' = run.vals /\ touched' = FALSE
      /\ client' = IF run.threw THEN "failed" ELSE "up"
      /\ NoViews

-----------------------------------------------------------------------------
(* Writes of the browser's graph *)

Depends(source, s) == source = s \/ source \notin Signals

\* The views whose effect a change of the signals schedules.
Notified(changed) == {v \in Views : \E x \in tracked[v], s \in changed : Depends(x, s)}

Publish(new) ==
  /\ vals' = new
  /\ queued' = queued \cup Notified({s \in Signals : new[s] # vals[s]})

\* A component's action sets a signal.
Write(s, v) ==
  /\ client = "up" /\ v # vals[s]
  /\ Publish([vals EXCEPT ![s] = v]) /\ touched' = TRUE
  /\ UNCHANGED <<document, client, scope, views>>

\* restoreSnapshot() of a document, while the application runs.  What was restored
\* before an exception is published as well.
Restore(page, strict) ==
  /\ client = "up"
  /\ LET run == RestoreSnapshot(scope, page, vals, strict) IN
       Publish(run.vals) /\ touched' = run.threw
  /\ document' = page
  /\ UNCHANGED <<client, scope, views>>

-----------------------------------------------------------------------------
(* Views: the end of one, then React: useReactive() *)

\* A view goes, and its effect, if it has one, is disposed of.
Stop(v) ==
  /\ phase' = [phase EXCEPT ![v] = "off"]
  /\ tracked' = [tracked EXCEPT ![v] = {}]
  /\ src' = [src EXCEPT ![v] = NoValue] /\ shown' = [shown EXCEPT ![v] = NoValue]
  /\ queued' = queued \ {v} /\ missed' = missed \ {v}
  /\ UNCHANGED <<document, client, graph>>

\* The first render reads the snapshot and keeps it.
Render(v, x) ==
  /\ client = "up" /\ phase[v] = "off"
  /\ phase' = [phase EXCEPT ![v] = "rendered"]
  /\ src' = [src EXCEPT ![v] = x]
  /\ shown' = [shown EXCEPT ![v] = Read(x, vals)]
  /\ UNCHANGED <<document, client, graph, tracked, queued, missed>>

\* A render with another source finds a snapshot kept.
RenderOther(v, x) ==
  /\ client = "up" /\ phase[v] = "subscribed" /\ x # src[v]
  /\ phase' = [phase EXCEPT ![v] = "rendered"]
  /\ src' = [src EXCEPT ![v] = x]
  /\ UNCHANGED <<document, client, graph, tracked, shown, queued, missed>>

\* The commit: the old effect is disposed of, and the first run of a new one
\* tracks the source but leaves the snapshot.
Subscribe(v) ==
  /\ phase[v] = "rendered"
  /\ phase' = [phase EXCEPT ![v] = "subscribed"]
  /\ tracked' = [tracked EXCEPT ![v] = {src[v]}]
  /\ queued' = queued \ {v}
  /\ missed' = IF shown[v] = Read(src[v], vals) THEN missed \ {v} ELSE missed \cup {v}
  /\ UNCHANGED <<document, client, graph, src, shown>>

\* What subscribe() returned is called, if it was.
Unmount(v) == phase[v] # "off" /\ Stop(v)

-----------------------------------------------------------------------------
(* Vue: useReactive(), useReadableRef() *)

\* The effect's first run sets the reference.
Setup(v, x) ==
  /\ client = "up" /\ phase[v] = "off"
  /\ phase' = [phase EXCEPT ![v] = "subscribed"]
  /\ src' = [src EXCEPT ![v] = x] /\ tracked' = [tracked EXCEPT ![v] = {x}]
  /\ shown' = [shown EXCEPT ![v] = Read(x, vals)]
  /\ UNCHANGED <<document, client, graph, queued, missed>>

\* onScopeDispose: the scope of the component ends.
ScopeDispose(v) == phase[v] # "off" /\ Stop(v)

-----------------------------------------------------------------------------
(* The microtask *)

\* Mutant of Refreshed: every run of a React effect is taken for the first.
RefreshedFirst(v) ==
  IF v \in queued \ ReactViews THEN Read(CHOOSE x \in tracked[v] : TRUE, vals) ELSE shown[v]

\* What a view's effect makes of what it tracks: the effect of a React view that
\* renders another source belongs to the last one committed.
Refreshed(v) == IF v \in queued THEN Read(CHOOSE x \in tracked[v] : TRUE, vals) ELSE shown[v]

Flush ==
  /\ queued # {}
  /\ shown' = [v \in Views |-> Refreshed(v)]
  /\ queued' = {} /\ missed' = missed \ queued
  /\ UNCHANGED <<document, client, graph, phase, src, tracked>>

-----------------------------------------------------------------------------
Next ==
  \/ LoadPage \/ Flush
  \/ \E s \in Signals, v \in Values : Write(s, v)
  \/ \E page \in RenderHtml, strict \in BOOLEAN : Restore(page, strict)
  \/ \E v \in ReactViews, x \in Sources : Render(v, x) \/ RenderOther(v, x)
  \/ \E v \in ReactViews : Subscribe(v) \/ Unmount(v)
  \/ \E v \in VueViews, x \in Sources : Setup(v, x)
  \/ \E v \in VueViews : ScopeDispose(v)

Spec == Init /\ [][Next]_vars

-----------------------------------------------------------------------------
(* Properties *)

\* When no effect is queued, every view that is mounted shows what the graph has,
\* whatever was written, restored or reloaded since: except a React view that was
\* subscribed to another value than the one it had rendered, until its effect runs
\* again (useReactive.ts:28-59, and vue/src/useReactive.ts).
ViewsAgree ==
  queued = {} => \A v \in Views \ missed :
    phase[v] = "subscribed" => shown[v] = Read(src[v], vals)

\* When no effect is queued, a React view shows the latest value.  Violated: what
\* is written between the render and the subscription is missed, and so is a change
\* of source (docs/rfc-react-adapter.md:410, useReactive.ts:18).
ReactReadsLatest ==
  queued = {} => \A v \in ReactViews :
    phase[v] = "subscribed" => shown[v] = Read(src[v], vals)

\* The document has the node with its value, and the browser's scope captures it so.
Kept(key) ==
  /\ NodeAt(document.nodes, key).value # NoValue
  /\ \E i \in DOMAIN scope.nodes :
       LET reg == scope.nodes[i] IN
         <<reg.kind, reg.id>> = key /\ HasValue(reg) /\ reg.redaction = "include"

\* The document has every signal as it was, and the browser takes it.
Whole == \A s \in Signals : \E i \in DOMAIN document.nodes :
  document.nodes[i] = [id |-> s, kind |-> "signal", value |-> vals[s]] /\ vals[s] # Hidden

\* Whatever builds met, and whatever was in the graph before: once a restore has
\* returned, and until something is written, capturing the graph again differs from
\* the document in no node that both capture with its value, except in computeds that
\* the document redacted, or of signals it left out or redacted (capture.ts, restore.ts, diff.ts).
RecaptureIsClean ==
  client = "up" /\ ~touched /\ CanCapture(scope, vals) =>
    LET d == DiffSnapshots(document, CaptureSnapshot(scope, vals)) IN
      \A k \in d.changed \cup d.removed : Kept(k) =>
        k[1] = "computed" /\ (~Whole \/ NodeAt(document.nodes, k).value = Hidden)

\* The page's node i makes a restore throw.
Offends(page, strict, i) ==
  LET node == page.nodes[i] IN
    \/ strict /\ ~Compatible(scope, node)
    \/ Compatible(scope, node) /\ node.kind = "signal" /\ ~Decodable(node)

\* A restore sets exactly the signals of a beginning of the document that fit: all
\* of it, unless the next node offends.  What an exception leaves is never a
\* mixture of another kind (restore.ts:64-84).
RestoreTakesAPrefix ==
  [][\A strict \in BOOLEAN : Restore(document', strict) =>
       LET nodes == document'.nodes IN
       \E n \in 0 .. Len(nodes) :
         /\ n = Len(nodes) \/ Offends(document', strict, n + 1)
                           \/ (strict /\ document'.version # scope.version)
         /\ \A s \in Signals :
              LET taken == {i \in 1 .. n : nodes[i].id = s /\ nodes[i].kind = "signal"
                                             /\ Compatible(scope, nodes[i])}
              IN vals'[s] = IF taken = {} THEN vals[s] ELSE nodes[CHOOSE i \in taken : TRUE].value]_vars
=============================================================================
