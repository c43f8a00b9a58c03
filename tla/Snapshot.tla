------------------------------- MODULE Snapshot -------------------------------
(***************************************************************************)
(* The snapshot package: a document is captured from the nodes that a      *)
(* graph has registered, and restored into another graph.                  *)
(*                                                                         *)
(* A scope is the registrations of a graph, in their order, with its       *)
(* version.  Resource and stream nodes are captured for inspection only    *)
(* and stand here without their value.  A computed's value is the record   *)
(* of the signals.                                                         *)
(***************************************************************************)
EXTENDS Integers, SequencesExt

CONSTANTS Signals,         \* ids of writable signals
          Values,          \* what signals hold
          Initial,         \* a value: what a new graph's signals hold
          Hidden,          \* what redact() of a value returns
          NoValue,         \* the node has no value
          Unencodable,     \* <<signal, value>>: a computed makes of it what is not JSON
          Undecodable      \* <<signal, value>>: the restoring graph's serializer rejects it

Kinds      == {"signal", "computed", "resource", "stream"}
Redactions == {"include", "omit", "redact"}
AllValues  == Values \cup {Hidden}

ASSUME ValuesAssumption ==
  /\ Initial \in Values /\ Hidden \notin Values
  /\ Unencodable \subseteq Signals \X AllValues /\ Undecodable \subseteq Signals \X AllValues

\* SnapshotScope.add() refuses an id that is registered.
IsScope(scope) ==
  LET nodes == scope.nodes IN
    /\ nodes \in Seq([id : {nodes[i].id : i \in DOMAIN nodes}, kind : Kinds,
                     redaction : Redactions, captureValue : BOOLEAN])
    /\ \A i, j \in DOMAIN nodes : nodes[i].id = nodes[j].id => i = j
    /\ \A i \in DOMAIN nodes : nodes[i].kind = "signal" <=> nodes[i].id \in Signals

NoNode == [id |-> "none", kind |-> "none", value |-> NoValue]

\* What a read of the node gives: for a computed, the recomputed value.
Read(id, vals) == IF id \in Signals THEN vals[id] ELSE [s \in Signals |-> vals[s]]

-----------------------------------------------------------------------------
(* Capture *)

\* Of a resource or a stream its status, error and key stay out.
Node(reg, value) == [id |-> reg.id, kind |-> reg.kind, value |-> value]

\* A number like Infinity has no JSON.
Encodable(reg, vals) == reg.kind = "signal" \/ \A s \in Signals : <<s, vals[s]>> \notin Unencodable

\* The options decide whether a computed is captured with its value.
HasValue(reg) == reg.kind = "signal" \/ (reg.kind = "computed" /\ reg.captureValue)

\* An omitted value takes its node along; a redacted one is not encoded.
CaptureNode(reg, vals) ==
  IF ~HasValue(reg) THEN Node(reg, NoValue)
  ELSE CASE reg.redaction = "omit"    -> NoNode
         [] reg.redaction = "redact"  -> Node(reg, Hidden)
         [] reg.redaction = "include" -> Node(reg, Read(reg.id, vals))

\* The scope's registrations have values that can be captured.
CanCapture(scope, vals) ==
  \A i \in DOMAIN scope.nodes :
    LET reg == scope.nodes[i] IN
      HasValue(reg) /\ reg.redaction = "include" => Encodable(reg, vals)

CaptureNodes(scope, vals) ==
  LET captured[i \in 0 .. Len(scope.nodes)] ==
        IF i = 0 THEN <<>>
        ELSE LET node == CaptureNode(scope.nodes[i], vals)
             IN IF node = NoNode THEN captured[i - 1] ELSE Append(captured[i - 1], node)
  IN captured[Len(scope.nodes)]

CaptureSnapshot(scope, vals) ==
  [version |-> scope.version, nodes |-> CaptureNodes(scope, vals)]

-----------------------------------------------------------------------------
(* Restore *)

Registered(scope, id) == \E i \in DOMAIN scope.nodes : scope.nodes[i].id = id
KindOf(scope, id) == scope.nodes[CHOOSE i \in DOMAIN scope.nodes : scope.nodes[i].id = id].kind

Compatible(scope, node) == Registered(scope, node.id) /\ KindOf(scope, node.id) = node.kind

\* The restore in progress: the signals, the report, and whether it threw.
Begin(vals, threw) == [vals |-> vals, restored |-> {}, skipped |-> {}, threw |-> threw]

Threw(run)         == [run EXCEPT !.threw = TRUE]
SkipNode(run, node) == [run EXCEPT !.skipped = @ \cup {node.id}]

\* deserializeValue() may throw.
Decodable(node) == <<node.id, node.value>> \notin Undecodable

\* Mutant of RestoreSignal: a value that cannot be decoded is skipped.
RestoreSignalOrSkip(run, node) ==
  IF ~Decodable(node) THEN SkipNode(run, node)
  ELSE [run EXCEPT !.vals[node.id] = node.value, !.restored = @ \cup {node.id}]

RestoreSignal(run, node) ==
  IF ~Decodable(node) THEN Threw(run)
  ELSE [run EXCEPT !.vals[node.id] = node.value, !.restored = @ \cup {node.id}]

\* Mutant of RestoreNode: a node that is skipped ends the loop as well.
RestoreNodeUntilSkip(scope, strict, run, node) ==
  CASE run.threw \/ run.skipped # {} -> run
    [] ~run.threw /\ ~Compatible(scope, node) -> IF strict THEN Threw(run) ELSE SkipNode(run, node)
    [] OTHER -> IF node.kind = "signal" THEN RestoreSignal(run, node) ELSE SkipNode(run, node)

\* An exception ends the loop; what was set before stays.
RestoreNode(scope, strict, run, node) ==
  CASE run.threw -> run
    [] ~run.threw /\ ~Compatible(scope, node) -> IF strict THEN Threw(run) ELSE SkipNode(run, node)
    [] OTHER -> IF node.kind = "signal" THEN RestoreSignal(run, node) ELSE SkipNode(run, node)

RestoreSnapshot(scope, document, vals, strict) ==
  LET run[i \in 0 .. Len(document.nodes)] ==
        IF i = 0 THEN Begin(vals, strict /\ document.version # scope.version)
        ELSE RestoreNode(scope, strict, run[i - 1], document.nodes[i])
  IN run[Len(document.nodes)]

-----------------------------------------------------------------------------
(* Diff *)

Keys(nodes)     == {<<nodes[i].kind, nodes[i].id>> : i \in DOMAIN nodes}
NodeAt(nodes, key) == CHOOSE n \in Range(nodes) : <<n.kind, n.id>> = key

DiffSnapshots(before, after) ==
  [added   |-> Keys(after.nodes) \ Keys(before.nodes),
   removed |-> Keys(before.nodes) \ Keys(after.nodes),
   changed |-> {k \in Keys(before.nodes) \cap Keys(after.nodes) :
                  NodeAt(before.nodes, k) # NodeAt(after.nodes, k)}]
=============================================================================
