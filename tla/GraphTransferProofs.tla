-------------------------- MODULE GraphTransferProofs --------------------------
(***************************************************************************)
(* Proofs, for any builds, documents, signals, values, sources and views:  *)
(* the views of GraphTransfer agree with the graph they read, a restore    *)
(* takes a beginning of its document, and a graph that was restored is     *)
(* captured as the document has it.                                        *)
(*                                                                         *)
(* Of the views nothing is used of what a restore makes of the signals:    *)
(* any change of them queues the views that read what has changed.  The    *)
(* capture and the restore are loops, about which Induction reasons.       *)
(***************************************************************************)
EXTENDS GraphTransfer, Induction, SequenceTheorems, TLAPS

-----------------------------------------------------------------------------
(* The views *)

\* The functions of views are defined on all of them.
DomainsOK == /\ DOMAIN phase = Views /\ DOMAIN src = Views
             /\ DOMAIN tracked = Views /\ DOMAIN shown = Views

Subscribed(v) == phase[v] = "subscribed"

\* The effect of a view that is mounted reads what the view reads.
TracksSource == \A v \in Views : Subscribed(v) => tracked[v] = {src[v]}

\* A view whose effect is not queued shows its source.
ShowsSource ==
  \A v \in Views : Subscribed(v) /\ v \notin missed /\ v \notin queued => shown[v] = Read(src[v], vals)

ViewInv == DomainsOK /\ TracksSource /\ ShowsSource

\* A view that is not notified of a change reads the same as before.
LEMMA UnnotifiedReads ==
  ASSUME NEW v \in Views, NEW x, tracked[v] = {x}, NEW new,
         v \notin Notified({s \in Signals : new[s] # vals[s]})
  PROVE  Read(x, new) = Read(x, vals)
<1>1. \A s \in Signals : new[s] # vals[s] => ~Depends(x, s)
  BY DEF Notified
<1>2. CASE x \in Signals
  BY <1>1, <1>2 DEF Read, Depends
<1>3. CASE x \notin Signals
  <2>1. \A s \in Signals : new[s] = vals[s]
    BY <1>1, <1>3 DEF Depends
  <2>2. [s \in Signals |-> new[s]] = [s \in Signals |-> vals[s]]
    BY <2>1
  <2> QED
    BY <1>3, <2>2 DEF Read
<1> QED
  BY <1>2, <1>3

LEMMA PublishKeeps ==
  ASSUME ViewInv, NEW new, Publish(new), UNCHANGED views
  PROVE  ViewInv'
<1>1. DomainsOK' /\ TracksSource'
  BY DEF ViewInv, DomainsOK, TracksSource, Subscribed, views
<1>2. ASSUME NEW v \in Views, Subscribed(v)', v \notin missed', v \notin queued'
      PROVE  shown'[v] = Read(src'[v], vals')
  <2>1. Subscribed(v) /\ v \notin missed /\ v \notin queued
    BY <1>2 DEF Subscribed, views, Publish
  <2>2. v \notin Notified({s \in Signals : new[s] # vals[s]})
    BY <1>2 DEF Publish
  <2>3. tracked[v] = {src[v]} /\ shown[v] = Read(src[v], vals)
    BY <2>1 DEF ViewInv, TracksSource, ShowsSource
  <2>4. Read(src[v], new) = Read(src[v], vals)
    BY <2>2, <2>3, UnnotifiedReads
  <2> QED
    BY <2>3, <2>4 DEF views, Publish
<1>3. ShowsSource'
  BY <1>2 DEF ShowsSource, Subscribed
<1> QED
  BY <1>1, <1>3 DEF ViewInv

LEMMA ViewInvInit == Init => ViewInv
BY DEF Init, ViewInv, DomainsOK, TracksSource, ShowsSource, Subscribed

\* A step of one view: the others are as they were.
LEMMA ViewInvNext == ViewInv /\ [Next]_vars => ViewInv'
<1> SUFFICES ASSUME ViewInv, [Next]_vars
             PROVE  ViewInv'
  OBVIOUS
<1> USE DEF ViewInv, DomainsOK, TracksSource, ShowsSource, Subscribed, graph
<1>1. CASE LoadPage
  BY <1>1 DEF LoadPage, NoViews
<1>2. CASE Flush
  <2>1. ASSUME NEW v \in Views, Subscribed(v)', v \notin missed'
        PROVE  shown'[v] = Read(src'[v], vals')
    <3>1. Subscribed(v) /\ src'[v] = src[v] /\ vals' = vals /\ shown'[v] = Refreshed(v)
      BY <1>2, <2>1 DEF Flush
    <3>2. tracked[v] = {src[v]}
      BY <3>1
    <3>3. CASE v \in queued
      <4>1. (CHOOSE x \in tracked[v] : TRUE) = src[v]
        BY <3>2
      <4> QED
        BY <3>1, <3>3, <4>1 DEF Refreshed
    <3>4. CASE v \notin queued
      <4>1. v \notin missed
        BY <1>2, <2>1, <3>4 DEF Flush
      <4> QED
        BY <3>1, <3>4, <4>1 DEF Refreshed
    <3> QED
      BY <3>3, <3>4
  <2>2. DomainsOK' /\ TracksSource'
    BY <1>2 DEF Flush
  <2> QED
    BY <2>1, <2>2
<1>3. ASSUME NEW s \in Signals, NEW v \in Values, Write(s, v)
      PROVE  ViewInv'
  BY <1>3, PublishKeeps DEF Write
<1>4. ASSUME NEW page \in RenderHtml, NEW strict \in BOOLEAN, Restore(page, strict)
      PROVE  ViewInv'
  <2>1. PICK run : Publish(run.vals) /\ UNCHANGED views
    BY <1>4 DEF Restore
  <2> QED
    BY <2>1, PublishKeeps
<1>5. ASSUME NEW v \in ReactViews, NEW x \in Sources, Render(v, x)
      PROVE  ViewInv'
  BY <1>5 DEF Render, Views
<1>6. ASSUME NEW v \in ReactViews, NEW x \in Sources, RenderOther(v, x)
      PROVE  ViewInv'
  BY <1>6 DEF RenderOther, Views
<1>7. ASSUME NEW v \in ReactViews, Subscribe(v)
      PROVE  ViewInv'
  BY <1>7 DEF Subscribe, Views
<1>8. ASSUME NEW v \in VueViews, NEW x \in Sources, Setup(v, x)
      PROVE  ViewInv'
  BY <1>8 DEF Setup, Views
<1>9. ASSUME NEW v \in Views, Unmount(v) \/ ScopeDispose(v)
      PROVE  ViewInv'
  BY <1>9 DEF Unmount, ScopeDispose, Stop
<1>10. CASE UNCHANGED vars
  BY <1>10 DEF vars, views
<1> QED
  BY <1>1, <1>2, <1>3, <1>4, <1>5, <1>6, <1>7, <1>8, <1>9, <1>10 DEF Next, Views

\* In every reachable state, whatever builds and documents there are: the views that
\* are mounted show what the graph has, or have not run their effect since they were
\* subscribed to another value, or wait for the microtask (useReactive.ts:28-59).
THEOREM ViewsAgreeAlways == Spec => []ViewsAgree
<1>1. Init => ViewInv
  BY ViewInvInit
<1>2. ViewInv /\ [Next]_vars => ViewInv'
  BY ViewInvNext
<1>3. ViewInv => ViewsAgree
  BY DEF ViewInv, ShowsSource, Subscribed, ViewsAgree
<1> QED
  BY <1>1, <1>2, <1>3, PTL DEF Spec

-----------------------------------------------------------------------------
(* A capture *)

\* An id is that of one node.
ById(nodes) == \A i, j \in DOMAIN nodes : nodes[i].id = nodes[j].id => i = j

\* What a capture of the first k registrations has: their nodes, unless omitted.
CapturedOf(c, profile, k, nodes) ==
  /\ nodes \in Seq({CaptureNode(c.nodes[i], profile) : i \in DOMAIN c.nodes} \ {NoNode})
  /\ ById(nodes)
  /\ \A j \in DOMAIN nodes : \E i \in 1 .. k : nodes[j] = CaptureNode(c.nodes[i], profile)
  /\ \A i \in 1 .. k : CaptureNode(c.nodes[i], profile) # NoNode =>
       \E j \in DOMAIN nodes : nodes[j] = CaptureNode(c.nodes[i], profile)

\* What a registration makes of a profile of the signals.
LEMMA CaptureNodeFacts ==
  ASSUME NEW c, IsScope(c), NEW profile, NEW i \in DOMAIN c.nodes
  PROVE  LET reg == c.nodes[i]
             node == CaptureNode(reg, profile) IN
         /\ node # NoNode => node = [id |-> reg.id, kind |-> reg.kind, value |-> node.value]
         /\ HasValue(reg) /\ reg.redaction = "include" =>
              node # NoNode /\ node = [id |-> reg.id, kind |-> reg.kind, value |-> Read(reg.id, profile)]
         /\ node # NoNode => \/ node.value = NoValue /\ ~HasValue(reg)
                             \/ node.value = Hidden
                             \/ node.value = Read(reg.id, profile) /\ HasValue(reg) /\ reg.redaction = "include"
  <1> DEFINE reg == c.nodes[i]
             node == CaptureNode(reg, profile)
  <1>1. reg.kind \in Kinds /\ reg.redaction \in Redactions
    <2> DEFINE X == [id : {c.nodes[j].id : j \in DOMAIN c.nodes}, kind : Kinds,
                     redaction : Redactions, captureValue : BOOLEAN]
    <2>1. c.nodes \in Seq(X)
      BY DEF IsScope
    <2>2. c.nodes[i] \in X
      <3> HIDE DEF X
      <3> QED
        BY <2>1
    <2> QED
      BY <2>2
  <1>2. NoNode.kind = "none"
    BY DEF NoNode
  <1> HIDE DEF reg
  <1>3. CASE ~HasValue(reg)
    <2>1. node = [id |-> reg.id, kind |-> reg.kind, value |-> NoValue]
      BY <1>3 DEF CaptureNode, Node
    <2> QED
      BY <1>3, <2>1 DEF reg
  <1>4. CASE HasValue(reg) /\ reg.redaction = "omit"
    <2>1. node = NoNode
      BY <1>4 DEF CaptureNode
    <2> QED
      BY <1>4, <2>1 DEF reg
  <1>5. CASE HasValue(reg) /\ reg.redaction = "redact"
    <2>1. node = [id |-> reg.id, kind |-> reg.kind, value |-> Hidden]
      BY <1>5 DEF CaptureNode, Node
    <2> QED
      BY <1>5, <2>1 DEF reg
  <1>6. CASE HasValue(reg) /\ reg.redaction = "include"
    <2>1. node = [id |-> reg.id, kind |-> reg.kind, value |-> Read(reg.id, profile)]
      BY <1>6 DEF CaptureNode, Node
    <2>2. node.kind = reg.kind /\ node # NoNode
      BY <1>1, <1>2, <2>1 DEF Kinds
    <2> QED
      BY <1>6, <2>1, <2>2 DEF reg
  <1> QED
    BY <1>1, <1>3, <1>4, <1>5, <1>6 DEF Redactions

\* One registration more.
LEMMA CaptureOneMore ==
  ASSUME NEW c, IsScope(c), NEW profile, NEW k \in Nat, k + 1 \in DOMAIN c.nodes,
         NEW nodes, CapturedOf(c, profile, k, nodes)
  PROVE  LET node == CaptureNode(c.nodes[k + 1], profile) IN
         CapturedOf(c, profile, k + 1, IF node = NoNode THEN nodes ELSE Append(nodes, node))
  <1> DEFINE node == CaptureNode(c.nodes[k + 1], profile)
             W == {CaptureNode(c.nodes[i], profile) : i \in DOMAIN c.nodes} \ {NoNode}
  <1>1. nodes \in Seq(W) /\ DOMAIN nodes = 1 .. Len(nodes) /\ Len(nodes) \in Nat
    BY DEF CapturedOf
  <1>2. \A i \in 1 .. (k + 1) : i \in 1 .. k \/ i = k + 1
    OBVIOUS
  <1>3. \A i \in 1 .. k : i \in 1 .. (k + 1) /\ i \in DOMAIN c.nodes
    BY DEF IsScope
  <1>4. k + 1 \in 1 .. (k + 1)
    OBVIOUS
  <1>5. CASE node = NoNode
    <2> HIDE DEF node
    <2>1. CapturedOf(c, profile, k + 1, nodes)
      BY <1>2, <1>3, <1>5 DEF CapturedOf, node
    <2> QED
      BY <1>5, <2>1 DEF node
  <1>6. CASE node # NoNode
    <2> DEFINE next == Append(nodes, node)
    <2>1. node \in W
      BY <1>6
    <2>2. /\ next \in Seq(W) /\ Len(next) = Len(nodes) + 1 /\ next[Len(nodes) + 1] = node
          /\ \A j \in 1 .. Len(nodes) : next[j] = nodes[j]
      <3> HIDE DEF W, node
      <3> QED
        BY <1>1, <2>1, AppendProperties
    <2>3. DOMAIN next = 1 .. (Len(nodes) + 1)
      BY <2>2
    <2> HIDE DEF next
    <2>4. \A j \in 1 .. Len(nodes) : nodes[j].id # node.id
      <3> SUFFICES ASSUME NEW j \in 1 .. Len(nodes), nodes[j].id = node.id PROVE FALSE
        OBVIOUS
      <3>1. PICK i \in 1 .. k : nodes[j] = CaptureNode(c.nodes[i], profile)
        BY <1>1 DEF CapturedOf
      <3>2. nodes[j] # NoNode
        BY <1>1
      <3>3. nodes[j].id = c.nodes[i].id /\ node.id = c.nodes[k + 1].id
        <4>1. i \in DOMAIN c.nodes
          BY <1>3
        <4>2. nodes[j] = [id |-> c.nodes[i].id, kind |-> c.nodes[i].kind, value |-> nodes[j].value]
          BY <3>1, <3>2, <4>1, CaptureNodeFacts
        <4>3. node = [id |-> c.nodes[k + 1].id, kind |-> c.nodes[k + 1].kind, value |-> node.value]
          BY <1>6, CaptureNodeFacts
        <4> QED
          BY <4>2, <4>3
      <3>4. i = k + 1
        BY <1>3, <3>3 DEF IsScope
      <3> QED
        BY <3>4
    <2>5. ById(next)
      <3>1. ASSUME NEW i \in 1 .. Len(nodes), NEW j \in 1 .. Len(nodes), nodes[i].id = nodes[j].id PROVE i = j
        BY <1>1, <3>1 DEF CapturedOf, ById
      <3> HIDE DEF node
      <3> QED
        BY <1>1, <2>2, <2>3, <2>4, <3>1 DEF ById
    <2>6. \A j \in DOMAIN next : \E i \in 1 .. (k + 1) : next[j] = CaptureNode(c.nodes[i], profile)
      <3> SUFFICES ASSUME NEW j \in 1 .. (Len(nodes) + 1)
                   PROVE  \E i \in 1 .. (k + 1) : next[j] = CaptureNode(c.nodes[i], profile)
        BY <2>3
      <3>1. CASE j = Len(nodes) + 1
        BY <1>4, <2>2, <3>1
      <3>2. CASE j # Len(nodes) + 1
        <4>1. j \in 1 .. Len(nodes) /\ next[j] = nodes[j]
          BY <1>1, <2>2, <3>2
        <4>2. PICK i \in 1 .. k : nodes[j] = CaptureNode(c.nodes[i], profile)
          BY <1>1, <4>1 DEF CapturedOf
        <4> QED
          BY <1>3, <4>1, <4>2
      <3> QED
        BY <3>1, <3>2
    <2>7. ASSUME NEW i \in 1 .. (k + 1), CaptureNode(c.nodes[i], profile) # NoNode
          PROVE  \E j \in DOMAIN next : next[j] = CaptureNode(c.nodes[i], profile)
      <3>1. CASE i = k + 1
        BY <1>1, <2>2, <2>3, <3>1
      <3>2. CASE i # k + 1
        <4>1. PICK j \in 1 .. Len(nodes) : nodes[j] = CaptureNode(c.nodes[i], profile)
          BY <1>1, <1>2, <2>7, <3>2 DEF CapturedOf
        <4>2. j \in DOMAIN next /\ next[j] = nodes[j]
          BY <1>1, <2>2, <2>3
        <4> QED
          BY <4>1, <4>2
      <3> QED
        BY <3>1, <3>2
    <2>8. CapturedOf(c, profile, k + 1, next)
      BY <2>2, <2>5, <2>6, <2>7 DEF CapturedOf
    <2> QED
      BY <1>6, <2>8 DEF next
  <1> QED
    BY <1>5, <1>6

\* All of them.
LEMMA CaptureNodesFacts ==
  ASSUME NEW c, IsScope(c), NEW profile
  PROVE  CapturedOf(c, profile, Len(c.nodes), CaptureNodes(c, profile))
  <1> DEFINE n == Len(c.nodes)
             W == {CaptureNode(c.nodes[i], profile) : i \in DOMAIN c.nodes} \ {NoNode}
             V == Seq(W)
             Loop(i, v) == IF CaptureNode(c.nodes[i], profile) = NoNode THEN v
                            ELSE Append(v, CaptureNode(c.nodes[i], profile))
             Step(g, i) == IF i = 0 THEN <<>> ELSE Loop(i, g[i - 1])
             captured == CHOOSE g : g = [i \in 0 .. n |-> Step(g, i)]
             F == [x \in (1 .. n) \X V |-> Loop(x[1], x[2])]
  <1>1. n \in Nat /\ DOMAIN c.nodes = 1 .. n
    BY DEF IsScope
  <1>2. \A i \in 1 .. n, v \in V : Loop(i, v) \in V
    <2> SUFFICES ASSUME NEW i \in 1 .. n, NEW v \in Seq(W), CaptureNode(c.nodes[i], profile) # NoNode
                 PROVE  Append(v, CaptureNode(c.nodes[i], profile)) \in Seq(W)
      OBVIOUS
    <2>1. CaptureNode(c.nodes[i], profile) \in W
      BY <1>1
    <2> HIDE DEF W
    <2> QED
      BY <2>1, AppendProperties
  <1>3. PICK g : Recursion(g, n, V, <<>>, F)
    <2>1. StepFunction(F, n, V)
      BY <1>2 DEF StepFunction
    <2>2. <<>> \in V
      OBVIOUS
    <2> HIDE DEF F, V, n
    <2> QED
      BY <1>1, <2>1, <2>2, RecursionExists
  <1> HIDE DEF W
  <1>4. \A i \in 1 .. n : g[i] = Loop(i, g[i - 1])
    <2> SUFFICES ASSUME NEW i \in 1 .. n PROVE g[i] = Loop(i, g[i - 1])
      OBVIOUS
    <2>1. g \in [0 .. n -> V] /\ g[i] = F[<<i, g[i - 1]>>]
      BY <1>3 DEF Recursion
    <2>2. g[i - 1] \in V
      <3>1. i - 1 \in 0 .. n
        BY <1>1
      <3> HIDE DEF F, V, n
      <3> QED
        BY <2>1, <3>1
    <2> HIDE DEF V, n, Loop
    <2> QED
      BY <2>1, <2>2
  <1>5. g = [i \in 0 .. n |-> Step(g, i)]
    <2>1. g \in [0 .. n -> V] /\ g[0] = <<>>
      BY <1>3 DEF Recursion
    <2> HIDE DEF Loop, F, V
    <2> QED
      BY <1>1, <1>4, <2>1
  <1>6. captured = [i \in 0 .. n |-> Step(captured, i)]
    <2> HIDE DEF Step, n
    <2> QED
      BY <1>5
  <1>7. CaptureNodes(c, profile) = captured[n]
    BY DEF CaptureNodes
  <1> HIDE DEF captured, F, V, Loop
  <1>8. captured[0] = <<>> /\ \A i \in 1 .. n : captured[i] = Loop(i, captured[i - 1])
    BY <1>1, <1>6
  <1> DEFINE S == {k \in Nat : k <= n => CapturedOf(c, profile, k, captured[k])}
  <1>9. 0 \in S
    <2>1. CapturedOf(c, profile, 0, <<>>)
      BY DEF CapturedOf, ById
    <2> QED
      BY <1>8, <2>1
  <1>10. ASSUME NEW k \in Nat, k \in S PROVE k + 1 \in S
    <2> SUFFICES ASSUME k + 1 <= n PROVE CapturedOf(c, profile, k + 1, captured[k + 1])
      OBVIOUS
    <2>1. CapturedOf(c, profile, k, captured[k]) /\ k + 1 \in 1 .. n
      BY <1>1, <1>10
    <2>2. captured[k + 1] = Loop(k + 1, captured[k])
      BY <1>8, <2>1
    <2> QED
      BY <1>1, <2>1, <2>2, CaptureOneMore DEF Loop
  <1>11. n \in S
    <2> HIDE DEF S, n
    <2> QED
      BY <1>1, <1>9, <1>10, InductiveSet
  <1> QED
    BY <1>1, <1>7, <1>11

\* A document that some server has rendered, or none.
IsPage(page) ==
  /\ DOMAIN page.nodes = 1 .. Len(page.nodes) /\ Len(page.nodes) \in Nat
  /\ ById(page.nodes)
  /\ \A i \in DOMAIN page.nodes : page.nodes[i].kind = "signal" =>
       page.nodes[i].id \in Signals /\ page.nodes[i].value \in AllValues

LEMMA RenderedIsPage ==
  ASSUME NEW page \in RenderHtml \cup {NoPage}
  PROVE  IsPage(page)
  <1>1. CASE page = NoPage
    BY <1>1 DEF NoPage, IsPage, ById
  <1>2. CASE page \in RenderHtml
    <2>1. PICK s \in ServerScopes, profile \in [Signals -> Values] : page = CaptureSnapshot(s, profile)
      BY <1>2 DEF RenderHtml
    <2>2. IsScope(s)
      BY ScopesAssumption
    <2> DEFINE nodes == page.nodes
    <2>3. nodes = CaptureNodes(s, profile)
      BY <2>1 DEF CaptureSnapshot
    <2> HIDE DEF nodes
    <2>4. CapturedOf(s, profile, Len(s.nodes), nodes)
      BY <2>2, <2>3, CaptureNodesFacts
    <2>5. DOMAIN nodes = 1 .. Len(nodes) /\ Len(nodes) \in Nat /\ ById(nodes)
      BY <2>4 DEF CapturedOf
    <2>6. ASSUME NEW j \in DOMAIN nodes, nodes[j].kind = "signal"
          PROVE  nodes[j].id \in Signals /\ nodes[j].value \in AllValues
      <3>1. PICK i \in 1 .. Len(s.nodes) : nodes[j] = CaptureNode(s.nodes[i], profile)
        BY <2>4, <2>6 DEF CapturedOf
      <3>2. i \in DOMAIN s.nodes
        BY <2>2 DEF IsScope
      <3>3. nodes[j] # NoNode
        BY <2>6 DEF NoNode
      <3>4. nodes[j].id = s.nodes[i].id /\ s.nodes[i].kind = "signal"
        <4>1. nodes[j] = [id |-> s.nodes[i].id, kind |-> s.nodes[i].kind, value |-> nodes[j].value]
          BY <2>2, <3>1, <3>2, <3>3, CaptureNodeFacts
        <4> QED
          BY <2>6, <4>1
      <3>5. nodes[j].id \in Signals
        BY <2>2, <3>2, <3>4 DEF IsScope
      <3>6. nodes[j].value = Hidden \/ nodes[j].value = Read(nodes[j].id, profile)
        BY <2>2, <3>1, <3>2, <3>3, <3>4, CaptureNodeFacts DEF HasValue
      <3>7. Read(nodes[j].id, profile) \in Values
        BY <3>5 DEF Read
      <3> QED
        BY <3>5, <3>6, <3>7 DEF AllValues
    <2> QED
      BY <2>5, <2>6 DEF IsPage, nodes
  <1> QED
    BY <1>1, <1>2

-----------------------------------------------------------------------------
(* A restore *)

\* The signals that the first n nodes set, and those they leave.
TakenVals(c, nodes, n, old, new) ==
  /\ new \in [Signals -> AllValues]
  /\ \A s \in Signals, i \in 1 .. n :
       nodes[i].id = s /\ nodes[i].kind = "signal" /\ Compatible(c, nodes[i]) => new[s] = nodes[i].value
  /\ \A s \in Signals :
       (\A i \in 1 .. n : ~(nodes[i].id = s /\ nodes[i].kind = "signal" /\ Compatible(c, nodes[i])))
         => new[s] = old[s]

\* A node that makes the restore of a browser with scope c throw.
OffendsIn(c, node, strict) ==
  \/ strict /\ ~Compatible(c, node)
  \/ Compatible(c, node) /\ node.kind = "signal" /\ ~Decodable(node)

\* What a restore has done after k nodes.
RestoredTo(c, page, old, strict, k, run) ==
  \E n \in 0 .. k :
    /\ TakenVals(c, page.nodes, n, old, run.vals)
    /\ \/ ~run.threw /\ n = k
       \/ run.threw /\ strict /\ page.version # c.version
       \/ run.threw /\ n < k /\ OffendsIn(c, page.nodes[n + 1], strict)

\* The values of the loop's state.
Runs(page) ==
  [vals : [Signals -> AllValues], restored : SUBSET {page.nodes[i].id : i \in DOMAIN page.nodes},
   skipped : SUBSET {page.nodes[i].id : i \in DOMAIN page.nodes}, threw : BOOLEAN]

\* One node more: it is taken, it is skipped, or it ends the loop.
LEMMA RestoreOneMore ==
  ASSUME NEW c, NEW page, IsPage(page), NEW old, NEW strict \in BOOLEAN,
         NEW k \in Nat, k + 1 \in DOMAIN page.nodes, NEW run \in Runs(page)
  PROVE  LET next == RestoreNode(c, strict, run, page.nodes[k + 1]) IN
         /\ next \in Runs(page)
         /\ RestoredTo(c, page, old, strict, k, run) => RestoredTo(c, page, old, strict, k + 1, next)
  <1> DEFINE nodes == page.nodes
             node == nodes[k + 1]
             ids == {nodes[i].id : i \in DOMAIN nodes}
             next == RestoreNode(c, strict, run, node)
  <1>1. run.threw \in BOOLEAN /\ run.vals \in [Signals -> AllValues]
        /\ run.restored \in SUBSET ids /\ run.skipped \in SUBSET ids
        /\ run = [vals |-> run.vals, restored |-> run.restored, skipped |-> run.skipped, threw |-> run.threw]
    BY DEF Runs
  <1>2. node.id \in ids
    OBVIOUS
  <1>3. node.kind = "signal" => node.id \in Signals /\ node.value \in AllValues
    BY DEF IsPage
  <1>4. Runs(page) = [vals : [Signals -> AllValues], restored : SUBSET ids, skipped : SUBSET ids, threw : BOOLEAN]
    BY DEF Runs
  <1>5. \A n : n \in 0 .. k => n \in 0 .. (k + 1) /\ n < k + 1
    OBVIOUS
  <1> HIDE DEF nodes, node, ids
  <1>6. CASE run.threw
    <2>1. next = run
      BY <1>6 DEF RestoreNode
    <2>2. ASSUME RestoredTo(c, page, old, strict, k, run)
          PROVE  RestoredTo(c, page, old, strict, k + 1, run)
      BY <1>5, <1>6, <2>2 DEF RestoredTo
    <2> HIDE DEF next
    <2> QED
      BY <2>1, <2>2 DEF next, node, nodes
  <1>7. CASE ~run.threw /\ (\/ Compatible(c, node) /\ node.kind = "signal" /\ ~Decodable(node)
                            \/ ~Compatible(c, node) /\ strict)
    <2>1. next = [run EXCEPT !.threw = TRUE]
      BY <1>7 DEF RestoreNode, RestoreSignal, Threw
    <2>2. next = [vals |-> run.vals, restored |-> run.restored, skipped |-> run.skipped, threw |-> TRUE]
      BY <1>1, <2>1
    <2> HIDE DEF next
    <2>3. next \in Runs(page)
      BY <1>1, <1>4, <2>2
    <2>4. OffendsIn(c, node, strict)
      BY <1>7 DEF OffendsIn
    <2>5. ASSUME RestoredTo(c, page, old, strict, k, run)
          PROVE  RestoredTo(c, page, old, strict, k + 1, next)
      <3>1. TakenVals(c, nodes, k, old, next.vals) /\ next.threw
        BY <1>7, <2>2, <2>5 DEF RestoredTo, nodes
      <3> QED
        BY <1>5, <2>4, <3>1 DEF RestoredTo, nodes, node
    <2> QED
      BY <2>3, <2>5 DEF next, node, nodes
  <1>8. CASE ~run.threw /\ (\/ ~Compatible(c, node) /\ ~strict
                            \/ Compatible(c, node) /\ node.kind # "signal")
    <2>1. next = [run EXCEPT !.skipped = @ \cup {node.id}]
      BY <1>8 DEF RestoreNode, SkipNode
    <2>2. next = [vals |-> run.vals, restored |-> run.restored, skipped |-> run.skipped \cup {node.id}, threw |-> FALSE]
      BY <1>1, <1>8, <2>1
    <2> HIDE DEF next
    <2>3. next \in Runs(page)
      BY <1>1, <1>2, <1>4, <2>2
    <2>4. ASSUME RestoredTo(c, page, old, strict, k, run)
          PROVE  RestoredTo(c, page, old, strict, k + 1, next)
      <3>1. TakenVals(c, nodes, k, old, run.vals)
        BY <1>8, <2>4 DEF RestoredTo, nodes
      <3>2. TakenVals(c, nodes, k + 1, old, run.vals)
        <4>1. ~(node.kind = "signal" /\ Compatible(c, node))
          BY <1>8
        <4>2. \A i \in 1 .. (k + 1) : i \in 1 .. k \/ i = k + 1
          OBVIOUS
        <4>3. \A i \in 1 .. k : i \in 1 .. (k + 1)
          OBVIOUS
        <4> QED
          BY <3>1, <4>1, <4>2, <4>3 DEF TakenVals, node
      <3>3. next.vals = run.vals /\ ~next.threw /\ k + 1 \in 0 .. (k + 1)
        BY <2>2
      <3> QED
        BY <3>2, <3>3 DEF RestoredTo, nodes
    <2> QED
      BY <2>3, <2>4 DEF next, node, nodes
  <1>9. CASE ~run.threw /\ Compatible(c, node) /\ node.kind = "signal" /\ Decodable(node)
    <2>1. next = [run EXCEPT !.vals[node.id] = node.value, !.restored = @ \cup {node.id}]
      BY <1>9 DEF RestoreNode, RestoreSignal
    <2> DEFINE new == [run.vals EXCEPT ![node.id] = node.value]
    <2>2. next = [vals |-> new, restored |-> run.restored \cup {node.id}, skipped |-> run.skipped, threw |-> FALSE]
      BY <1>1, <1>9, <2>1
    <2>3. new \in [Signals -> AllValues]
      BY <1>1, <1>3, <1>9
    <2>4. new[node.id] = node.value /\ \A s \in Signals : s # node.id => new[s] = run.vals[s]
      BY <1>1, <1>3, <1>9
    <2> HIDE DEF next, new
    <2>5. next \in Runs(page)
      BY <1>1, <1>2, <1>4, <2>2, <2>3
    <2>6. ASSUME RestoredTo(c, page, old, strict, k, run)
          PROVE  RestoredTo(c, page, old, strict, k + 1, next)
      <3>1. TakenVals(c, nodes, k, old, run.vals)
        BY <1>9, <2>6 DEF RestoredTo, nodes
      <3>2. TakenVals(c, nodes, k + 1, old, new)
        <4>1. \A i \in 1 .. (k + 1) : i \in 1 .. k \/ i = k + 1
          OBVIOUS
        <4>2. \A i \in 1 .. k : i \in 1 .. (k + 1) /\ nodes[i].id # node.id
          <5> SUFFICES ASSUME NEW i \in 1 .. k, nodes[i].id = nodes[k + 1].id PROVE FALSE
            BY DEF node
          <5>1. i \in DOMAIN nodes /\ k + 1 \in DOMAIN nodes /\ i # k + 1
            BY DEF IsPage, nodes
          <5> QED
            BY <5>1 DEF IsPage, ById, nodes
        <4>3. k + 1 \in 1 .. (k + 1)
          OBVIOUS
        <4>4. ASSUME NEW s \in Signals, NEW i \in 1 .. (k + 1),
                     nodes[i].id = s, nodes[i].kind = "signal", Compatible(c, nodes[i])
              PROVE  new[s] = nodes[i].value
          <5>1. CASE i = k + 1
            BY <2>4, <4>4, <5>1 DEF node
          <5>2. CASE i \in 1 .. k
            BY <2>4, <3>1, <4>2, <4>4, <5>2 DEF TakenVals
          <5> QED
            BY <4>1, <5>1, <5>2
        <4>5. ASSUME NEW s \in Signals,
                     \A i \in 1 .. (k + 1) : ~(nodes[i].id = s /\ nodes[i].kind = "signal" /\ Compatible(c, nodes[i]))
              PROVE  new[s] = old[s]
          <5>1. s # node.id
            BY <1>9, <4>3, <4>5 DEF node
          <5>2. run.vals[s] = old[s]
            BY <3>1, <4>2, <4>5 DEF TakenVals
          <5> QED
            BY <2>4, <5>1, <5>2
        <4> QED
          BY <2>3, <4>4, <4>5 DEF TakenVals
      <3>3. next.vals = new /\ ~next.threw /\ k + 1 \in 0 .. (k + 1)
        BY <2>2
      <3> QED
        BY <3>2, <3>3 DEF RestoredTo, nodes
    <2> QED
      BY <2>5, <2>6 DEF next, node, nodes
  <1>10. CASE ~run.threw /\ ~Compatible(c, node)
    BY <1>7, <1>8, <1>10
  <1>11. CASE ~run.threw /\ Compatible(c, node) /\ node.kind = "signal"
    BY <1>7, <1>9, <1>11
  <1>12. CASE ~run.threw /\ Compatible(c, node) /\ node.kind # "signal"
    BY <1>8, <1>12
  <1> QED
    BY <1>6, <1>10, <1>11, <1>12

\* The whole loop.
LEMMA RestoreEffect ==
  ASSUME NEW c, NEW page, IsPage(page), NEW old \in [Signals -> AllValues], NEW strict \in BOOLEAN
  PROVE  LET run == RestoreSnapshot(c, page, old, strict) IN
         /\ run \in Runs(page)
         /\ RestoredTo(c, page, old, strict, Len(page.nodes), run)
  <1> DEFINE n == Len(page.nodes)
             V == Runs(page)
             first == Begin(old, strict /\ page.version # c.version)
             Loop(i, v) == RestoreNode(c, strict, v, page.nodes[i])
             Step(g, i) == IF i = 0 THEN first ELSE Loop(i, g[i - 1])
             runs == CHOOSE g : g = [i \in 0 .. n |-> Step(g, i)]
             F == [x \in (1 .. n) \X V |-> Loop(x[1], x[2])]
  <1>1. n \in Nat /\ DOMAIN page.nodes = 1 .. n
    BY DEF IsPage
  <1>2. ASSUME NEW k \in Nat, k + 1 \in 1 .. n, NEW v \in V
        PROVE  /\ Loop(k + 1, v) \in V
               /\ RestoredTo(c, page, old, strict, k, v) => RestoredTo(c, page, old, strict, k + 1, Loop(k + 1, v))
    BY <1>1, <1>2, RestoreOneMore
  <1>3. first \in V
    BY DEF Begin, Runs
  <1>4. RestoredTo(c, page, old, strict, 0, first)
    <2>1. TakenVals(c, page.nodes, 0, old, old)
      BY DEF TakenVals
    <2>2. first.vals = old /\ first.threw = (strict /\ page.version # c.version)
      BY DEF Begin
    <2> HIDE DEF first
    <2>3. TakenVals(c, page.nodes, 0, old, first.vals)
      BY <2>1, <2>2
    <2>4. 0 \in 0 .. 0
      OBVIOUS
    <2>5. ~first.threw \/ (first.threw /\ strict /\ page.version # c.version)
      BY <2>2
    <2> QED
      BY <2>3, <2>4, <2>5 DEF RestoredTo
  <1>5. RestoreSnapshot(c, page, old, strict) = runs[n]
    BY DEF RestoreSnapshot
  <1> HIDE DEF first, V, Loop
  <1>6. \A i \in 1 .. n, v \in V : Loop(i, v) \in V
    <2> SUFFICES ASSUME NEW i \in 1 .. n, NEW v \in V PROVE Loop(i, v) \in V
      OBVIOUS
    <2>1. i - 1 \in Nat /\ (i - 1) + 1 = i
      BY <1>1
    <2> QED
      BY <1>2, <2>1
  <1>7. PICK g : Recursion(g, n, V, first, F)
    <2>1. StepFunction(F, n, V)
      BY <1>6 DEF StepFunction
    <2> HIDE DEF F, n
    <2> QED
      BY <1>1, <1>3, <2>1, RecursionExists
  <1>8. \A i \in 1 .. n : g[i] = Loop(i, g[i - 1])
    <2> SUFFICES ASSUME NEW i \in 1 .. n PROVE g[i] = Loop(i, g[i - 1])
      OBVIOUS
    <2>1. g \in [0 .. n -> V] /\ g[i] = F[<<i, g[i - 1]>>]
      BY <1>7 DEF Recursion
    <2>2. g[i - 1] \in V
      <3>1. i - 1 \in 0 .. n
        BY <1>1
      <3> HIDE DEF F, n
      <3> QED
        BY <2>1, <3>1
    <2> HIDE DEF n
    <2> QED
      BY <2>1, <2>2
  <1>9. g = [i \in 0 .. n |-> Step(g, i)]
    <2>1. g \in [0 .. n -> V] /\ g[0] = first
      BY <1>7 DEF Recursion
    <2> HIDE DEF F
    <2> QED
      BY <1>1, <1>8, <2>1
  <1>10. runs = [i \in 0 .. n |-> Step(runs, i)]
    <2> HIDE DEF Step, n
    <2> QED
      BY <1>9
  <1> HIDE DEF runs, F
  <1>11. runs[0] = first /\ \A i \in 1 .. n : runs[i] = Loop(i, runs[i - 1])
    BY <1>1, <1>10
  <1> DEFINE S == {k \in Nat : k <= n => runs[k] \in V /\ RestoredTo(c, page, old, strict, k, runs[k])}
  <1>12. 0 \in S
    BY <1>3, <1>4, <1>11
  <1>13. ASSUME NEW k \in Nat, k \in S PROVE k + 1 \in S
    <2> SUFFICES ASSUME k + 1 <= n
                 PROVE  runs[k + 1] \in V /\ RestoredTo(c, page, old, strict, k + 1, runs[k + 1])
      OBVIOUS
    <2>1. runs[k] \in V /\ RestoredTo(c, page, old, strict, k, runs[k]) /\ k + 1 \in 1 .. n
      BY <1>1, <1>13
    <2>2. runs[k + 1] = Loop(k + 1, runs[k])
      <3>1. (k + 1) - 1 = k
        OBVIOUS
      <3> HIDE DEF n
      <3> QED
        BY <1>11, <2>1, <3>1
    <2> QED
      BY <1>2, <2>1, <2>2
  <1>14. n \in S
    <2> HIDE DEF S, n
    <2> QED
      BY <1>1, <1>12, <1>13, InductiveSet
  <1> QED
    BY <1>1, <1>5, <1>14 DEF V

-----------------------------------------------------------------------------
(* The browser's graph *)

\* A restore that has returned has taken every node that fits.
RestoredInto(c, page, new) ==
  \A i \in DOMAIN page.nodes :
    page.nodes[i].kind = "signal" /\ Compatible(c, page.nodes[i]) => new[page.nodes[i].id] = page.nodes[i].value

LEMMA RestoreIntoGraph ==
  ASSUME NEW c, NEW page, IsPage(page), NEW old \in [Signals -> AllValues], NEW strict \in BOOLEAN
  PROVE  LET run == RestoreSnapshot(c, page, old, strict) IN
         /\ run.vals \in [Signals -> AllValues] /\ run.threw \in BOOLEAN
         /\ ~run.threw => RestoredInto(c, page, run.vals)
  <1> DEFINE run == RestoreSnapshot(c, page, old, strict)
  <1>1. run \in Runs(page) /\ RestoredTo(c, page, old, strict, Len(page.nodes), run)
    BY RestoreEffect
  <1> HIDE DEF run
  <1>2. run.vals \in [Signals -> AllValues] /\ run.threw \in BOOLEAN
    BY <1>1 DEF Runs
  <1>3. ASSUME ~run.threw PROVE RestoredInto(c, page, run.vals)
    <2>1. TakenVals(c, page.nodes, Len(page.nodes), old, run.vals)
      BY <1>1, <1>3 DEF RestoredTo
    <2> QED
      BY <2>1 DEF TakenVals, RestoredInto, IsPage
  <1> QED
    BY <1>2, <1>3 DEF run

\* The graph of the browser has what it has restored, until something is written.
RestoredInv ==
  /\ scope \in ClientScopes
  /\ document \in RenderHtml \cup {NoPage}
  /\ vals \in [Signals -> AllValues]
  /\ client = "up" /\ ~touched => RestoredInto(scope, document, vals)

LEMMA RestoredInvInit == Init => RestoredInv
  <1> SUFFICES ASSUME Init PROVE RestoredInv
    OBVIOUS
  <1>1. NewVals \in [Signals -> AllValues]
    BY ValuesAssumption DEF NewVals, AllValues
  <1> QED
    BY <1>1 DEF Init, RestoredInv

LEMMA RestoredInvNext == RestoredInv /\ [Next]_vars => RestoredInv'
  <1> SUFFICES ASSUME RestoredInv, [Next]_vars PROVE RestoredInv'
    OBVIOUS
  <1> USE DEF RestoredInv
  <1>1. CASE LoadPage
    <2>1. PICK c \in ClientScopes, page \in RenderHtml \cup {NoPage} :
            LET run == IF page = NoPage THEN Begin(NewVals, FALSE)
                                        ELSE RestoreSnapshot(c, page, NewVals, TRUE) IN
              /\ scope' = c /\ document' = page
              /\ vals' = run.vals /\ touched' = FALSE
              /\ client' = IF run.threw THEN "failed" ELSE "up"
      BY <1>1 DEF LoadPage
    <2>2. NewVals \in [Signals -> AllValues]
      BY ValuesAssumption DEF NewVals, AllValues
    <2>3. CASE page = NoPage
      <3>1. vals' = NewVals
        BY <2>1, <2>3 DEF Begin
      <3>2. RestoredInto(c, page, NewVals)
        BY <2>3 DEF RestoredInto, NoPage
      <3> QED
        BY <2>1, <2>2, <3>1, <3>2
    <2>4. CASE page # NoPage
      <3> DEFINE run == RestoreSnapshot(c, page, NewVals, TRUE)
      <3>1. /\ run.vals \in [Signals -> AllValues] /\ run.threw \in BOOLEAN
            /\ ~run.threw => RestoredInto(c, page, run.vals)
        BY <2>2, RenderedIsPage, RestoreIntoGraph
      <3>2. vals' = run.vals /\ client' = IF run.threw THEN "failed" ELSE "up"
        BY <2>1, <2>4
      <3> HIDE DEF run
      <3> QED
        BY <2>1, <3>1, <3>2
    <2> QED
      BY <2>3, <2>4
  <1>2. ASSUME NEW s \in Signals, NEW v \in Values, Write(s, v) PROVE RestoredInv'
    BY <1>2 DEF Write, Publish, AllValues
  <1>3. ASSUME NEW page \in RenderHtml, NEW strict \in BOOLEAN, Restore(page, strict) PROVE RestoredInv'
    <2> DEFINE run == RestoreSnapshot(scope, page, vals, strict)
    <2>1. /\ run.vals \in [Signals -> AllValues] /\ run.threw \in BOOLEAN
          /\ ~run.threw => RestoredInto(scope, page, run.vals)
      BY RenderedIsPage, RestoreIntoGraph
    <2>2. vals' = run.vals /\ touched' = run.threw /\ document' = page /\ scope' = scope /\ client' = client
      BY <1>3 DEF Restore, Publish
    <2> HIDE DEF run
    <2> QED
      BY <2>1, <2>2
  <1>4. ASSUME UNCHANGED <<document, client, graph>> PROVE RestoredInv'
    BY <1>4 DEF graph
  <1>5. CASE Flush
    BY <1>4, <1>5 DEF Flush
  <1>6. ASSUME NEW v \in ReactViews, NEW x \in Sources, Render(v, x) \/ RenderOther(v, x) PROVE RestoredInv'
    BY <1>4, <1>6 DEF Render, RenderOther
  <1>7. ASSUME NEW v \in ReactViews, Subscribe(v) PROVE RestoredInv'
    BY <1>4, <1>7 DEF Subscribe
  <1>8. ASSUME NEW v \in VueViews, NEW x \in Sources, Setup(v, x) PROVE RestoredInv'
    BY <1>4, <1>8 DEF Setup
  <1>9. ASSUME NEW v \in Views, Unmount(v) \/ ScopeDispose(v) PROVE RestoredInv'
    BY <1>4, <1>9 DEF Unmount, ScopeDispose, Stop
  <1>10. CASE UNCHANGED vars
    BY <1>4, <1>10 DEF vars
  <1> QED
    BY <1>1, <1>2, <1>3, <1>5, <1>6, <1>7, <1>8, <1>9, <1>10 DEF Next, Views

\* Every step that is a restore, of any document into any build's scope: the signals it
\* sets are those of a beginning of the document that fit, with the values it has, and
\* the others stay; the beginning is all of it, unless the next node or, in strict
\* mode, the version throws (restore.ts:64-84).
THEOREM RestoreTakesAPrefixAlways == Spec => RestoreTakesAPrefix
  <1> DEFINE P == \A strict \in BOOLEAN : Restore(document', strict) =>
       LET nodes == document'.nodes IN
       \E n \in 0 .. Len(nodes) :
         /\ n = Len(nodes) \/ Offends(document', strict, n + 1)
                           \/ (strict /\ document'.version # scope.version)
         /\ \A s \in Signals :
              LET taken == {i \in 1 .. n : nodes[i].id = s /\ nodes[i].kind = "signal"
                                             /\ Compatible(scope, nodes[i])}
              IN vals'[s] = IF taken = {} THEN vals[s] ELSE nodes[CHOOSE i \in taken : TRUE].value
  <1>1. RestoredInv /\ RestoredInv' => P
    <2> SUFFICES ASSUME RestoredInv, RestoredInv', NEW strict \in BOOLEAN, Restore(document', strict)
                 PROVE  \E n \in 0 .. Len(document'.nodes) :
         /\ n = Len(document'.nodes) \/ Offends(document', strict, n + 1)
                           \/ (strict /\ document'.version # scope.version)
         /\ \A s \in Signals :
              LET taken == {i \in 1 .. n : document'.nodes[i].id = s /\ document'.nodes[i].kind = "signal"
                                             /\ Compatible(scope, document'.nodes[i])}
              IN vals'[s] = IF taken = {} THEN vals[s] ELSE document'.nodes[CHOOSE i \in taken : TRUE].value
      OBVIOUS
    <2> DEFINE page == document'
               run == RestoreSnapshot(scope, page, vals, strict)
    <2>1. IsPage(page) /\ vals \in [Signals -> AllValues]
      BY RenderedIsPage DEF RestoredInv
    <2>2. vals' = run.vals
      BY DEF Restore, Publish
    <2> HIDE DEF page
    <2>3. RestoredTo(scope, page, vals, strict, Len(page.nodes), run)
      BY <2>1, RestoreEffect
    <2> HIDE DEF run
    <2>4. PICK n \in 0 .. Len(page.nodes) :
            /\ TakenVals(scope, page.nodes, n, vals, run.vals)
            /\ \/ ~run.threw /\ n = Len(page.nodes)
               \/ run.threw /\ strict /\ page.version # scope.version
               \/ run.threw /\ n < Len(page.nodes) /\ OffendsIn(scope, page.nodes[n + 1], strict)
      BY <2>3 DEF RestoredTo
    <2>5. n = Len(page.nodes) \/ Offends(page, strict, n + 1) \/ (strict /\ page.version # scope.version)
      BY <2>4 DEF OffendsIn, Offends
    <2>6. ASSUME NEW s \in Signals
          PROVE  LET taken == {i \in 1 .. n : page.nodes[i].id = s /\ page.nodes[i].kind = "signal"
                                             /\ Compatible(scope, page.nodes[i])}
                 IN vals'[s] = IF taken = {} THEN vals[s] ELSE page.nodes[CHOOSE i \in taken : TRUE].value
      <3> DEFINE taken == {i \in 1 .. n : page.nodes[i].id = s /\ page.nodes[i].kind = "signal"
                                             /\ Compatible(scope, page.nodes[i])}
                 i == CHOOSE i \in taken : TRUE
      <3>1. CASE taken = {}
        BY <2>2, <2>4, <3>1 DEF TakenVals
      <3>2. CASE taken # {}
        <4>1. i \in taken
          BY <3>2
        <4> HIDE DEF i
        <4>2. run.vals[s] = page.nodes[i].value
          BY <2>4, <4>1 DEF TakenVals
        <4> QED
          BY <2>2, <3>2, <4>2 DEF i
      <3> QED
        BY <3>1, <3>2
    <2> QED
      BY <2>5, <2>6 DEF page
  <1> QED
    BY <1>1, RestoredInvInit, RestoredInvNext, PTL DEF Spec, RestoreTakesAPrefix

-----------------------------------------------------------------------------
(* The difference from a new capture *)

\* The node that a key finds.
LEMMA NodeAtKey ==
  ASSUME NEW nodes, ById(nodes), NEW j \in DOMAIN nodes
  PROVE  NodeAt(nodes, <<nodes[j].kind, nodes[j].id>>) = nodes[j]
  <1> DEFINE key == <<nodes[j].kind, nodes[j].id>>
  <1>1. nodes[j] \in Range(nodes) /\ <<nodes[j].kind, nodes[j].id>> = key
    BY DEF Range
  <1>2. \A n \in Range(nodes) : <<n.kind, n.id>> = key => n = nodes[j]
    BY DEF Range, ById
  <1> HIDE DEF key
  <1> QED
    BY <1>1, <1>2 DEF NodeAt, key

\* A node fits the registration of its id, when that is of its kind.
LEMMA CompatibleIs ==
  ASSUME NEW c, IsScope(c), NEW i \in DOMAIN c.nodes, NEW node, node.id = c.nodes[i].id
  PROVE  Compatible(c, node) <=> c.nodes[i].kind = node.kind
  <1> DEFINE k == CHOOSE j \in DOMAIN c.nodes : c.nodes[j].id = node.id
  <1>1. k \in DOMAIN c.nodes /\ c.nodes[k].id = node.id
    OBVIOUS
  <1> HIDE DEF k
  <1>2. k = i
    BY <1>1 DEF IsScope
  <1> QED
    BY <1>2 DEF Compatible, Registered, KindOf, k

\* A signal was restored; a computed follows from the signals, if they all were.
LEMMA RecaptureFollows == RestoredInv => RecaptureIsClean
  <1> SUFFICES ASSUME RestoredInv, client = "up", ~touched,
                      NEW k \in DiffSnapshots(document, CaptureSnapshot(scope, vals)).changed
                             \cup DiffSnapshots(document, CaptureSnapshot(scope, vals)).removed,
                      Kept(k)
               PROVE  k[1] = "computed" /\ (~Whole \/ NodeAt(document.nodes, k).value = Hidden)
    BY DEF RecaptureIsClean
  <1> DEFINE nodes == document.nodes
             after == CaptureNodes(scope, vals)
  <1>1. IsScope(scope)
    BY ScopesAssumption DEF RestoredInv
  <1>2. /\ k \in Keys(nodes)
        /\ k \in Keys(after) => NodeAt(nodes, k) # NodeAt(after, k)
    BY DEF DiffSnapshots, CaptureSnapshot
  <1>3. IsPage(document)
    BY RenderedIsPage DEF RestoredInv
  <1> HIDE DEF after
  <1>4. CapturedOf(scope, vals, Len(scope.nodes), after)
    BY <1>1, CaptureNodesFacts DEF after
  <1>5. PICK i \in DOMAIN scope.nodes : /\ <<scope.nodes[i].kind, scope.nodes[i].id>> = k
                                        /\ HasValue(scope.nodes[i]) /\ scope.nodes[i].redaction = "include"
    BY DEF Kept
  <1> DEFINE reg == scope.nodes[i]
             mine == [id |-> reg.id, kind |-> reg.kind, value |-> Read(reg.id, vals)]
  <1>6. NodeAt(after, k) = mine /\ k \in Keys(after)
    <2>1. CaptureNode(reg, vals) # NoNode /\ CaptureNode(reg, vals) = mine
      BY <1>1, <1>5, CaptureNodeFacts
    <2>2. i \in 1 .. Len(scope.nodes)
      BY <1>1 DEF IsScope
    <2>3. PICK j \in DOMAIN after : after[j] = mine
      BY <1>4, <2>1, <2>2 DEF CapturedOf
    <2>4. <<after[j].kind, after[j].id>> = k
      BY <1>5, <2>3
    <2>5. NodeAt(after, k) = after[j]
      BY <1>4, <2>4, NodeAtKey DEF CapturedOf
    <2> QED
      BY <2>3, <2>4, <2>5 DEF Keys
  <1>7. document # NoPage /\ document \in RenderHtml
    BY <1>2 DEF NoPage, Keys, RestoredInv
  <1>8. PICK s \in ServerScopes, profile \in [Signals -> Values] : document = CaptureSnapshot(s, profile)
    BY <1>7 DEF RenderHtml
  <1>9. IsScope(s)
    BY ScopesAssumption
  <1>10. CapturedOf(s, profile, Len(s.nodes), nodes)
    <2>1. nodes = CaptureNodes(s, profile)
      BY <1>8 DEF CaptureSnapshot
    <2> HIDE DEF nodes
    <2> QED
      BY <1>9, <2>1, CaptureNodesFacts
  <1>11. ASSUME NEW j \in DOMAIN nodes
         PROVE  /\ nodes[j] = [id |-> nodes[j].id, kind |-> nodes[j].kind, value |-> nodes[j].value]
                /\ nodes[j].kind = "signal" <=> nodes[j].id \in Signals
                /\ \/ nodes[j].value = NoValue /\ nodes[j].kind # "signal"
                   \/ nodes[j].value = Hidden
                   \/ nodes[j].value = Read(nodes[j].id, profile)
    <2>1. PICK m \in 1 .. Len(s.nodes) : nodes[j] = CaptureNode(s.nodes[m], profile)
      BY <1>10 DEF CapturedOf
    <2>2. m \in DOMAIN s.nodes
      BY <1>9 DEF IsScope
    <2>3. nodes[j] # NoNode
      BY <1>10 DEF CapturedOf
    <2>4. nodes[j] = [id |-> s.nodes[m].id, kind |-> s.nodes[m].kind, value |-> nodes[j].value]
      BY <1>9, <2>1, <2>2, <2>3, CaptureNodeFacts
    <2>5. \/ nodes[j].value = NoValue /\ ~HasValue(s.nodes[m])
          \/ nodes[j].value = Hidden
          \/ nodes[j].value = Read(s.nodes[m].id, profile)
      BY <1>9, <2>1, <2>2, <2>3, CaptureNodeFacts
    <2> HIDE DEF nodes
    <2>6. nodes[j].id = s.nodes[m].id /\ nodes[j].kind = s.nodes[m].kind
      BY <2>4
    <2>7. nodes[j].kind = "signal" <=> nodes[j].id \in Signals
      BY <1>9, <2>2, <2>6 DEF IsScope
    <2> QED
      BY <2>4, <2>5, <2>6, <2>7 DEF HasValue
  <1>12. PICK j \in DOMAIN nodes : <<nodes[j].kind, nodes[j].id>> = k
    BY <1>2 DEF Keys
  <1>13. NodeAt(nodes, k) = nodes[j]
    BY <1>3, <1>12, NodeAtKey DEF IsPage
  <1>14. nodes[j].id = reg.id /\ nodes[j].kind = reg.kind
    BY <1>5, <1>12
  <1>15. nodes[j] # mine
    BY <1>2, <1>6, <1>13
  <1>16. nodes[j].value # Read(reg.id, vals)
    BY <1>11, <1>14, <1>15
  <1>17. reg.kind # "signal"
    <2> SUFFICES ASSUME reg.kind = "signal" PROVE FALSE
      OBVIOUS
    <2>1. Compatible(scope, nodes[j])
      BY <1>1, <1>14, CompatibleIs
    <2>2. vals[nodes[j].id] = nodes[j].value
      BY <1>14, <2>1 DEF RestoredInv, RestoredInto
    <2>3. reg.id \in Signals
      BY <1>1 DEF IsScope
    <2> QED
      BY <1>14, <1>16, <2>2, <2>3 DEF Read
  <1>18. reg.kind = "computed" /\ k[1] = "computed"
    BY <1>5, <1>17 DEF HasValue
  <1>19. ASSUME Whole, nodes[j].value # Hidden PROVE FALSE
    <2>1. nodes[j].value # NoValue
      BY <1>13 DEF Kept
    <2>2. nodes[j].value = Read(reg.id, profile) /\ reg.id \notin Signals
      BY <1>11, <1>14, <1>17, <1>19, <2>1
    <2>3. \A x \in Signals : vals[x] = profile[x]
      <3> SUFFICES ASSUME NEW x \in Signals PROVE vals[x] = profile[x]
        OBVIOUS
      <3>1. PICK y \in DOMAIN nodes : nodes[y] = [id |-> x, kind |-> "signal", value |-> vals[x]] /\ vals[x] # Hidden
        BY <1>19 DEF Whole
      <3>2. nodes[y].id = x /\ nodes[y].kind = "signal" /\ nodes[y].value = vals[x]
        <4> HIDE DEF nodes
        <4> QED
          BY <3>1
      <3>3. nodes[y].value = Read(x, profile)
        BY <1>11, <3>1, <3>2
      <3> QED
        BY <3>2, <3>3 DEF Read
    <2>4. [x \in Signals |-> vals[x]] = [x \in Signals |-> profile[x]]
      BY <2>3
    <2> QED
      BY <1>16, <2>2, <2>4 DEF Read
  <1> QED
    BY <1>13, <1>18, <1>19

\* In every reachable state after a restore that returned, until something is written:
\* the graph captures each node as the document has it, except the computeds that the
\* document redacted or whose signals it lacks (capture.ts, restore.ts, diff.ts).
THEOREM RecaptureIsCleanAlways == Spec => []RecaptureIsClean
  BY RestoredInvInit, RestoredInvNext, RecaptureFollows, PTL DEF Spec
=============================================================================
