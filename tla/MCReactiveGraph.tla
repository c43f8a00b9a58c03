--------------------------- MODULE MCReactiveGraph ---------------------------
(* Instances of ReactiveGraph for TLC. *)
EXTENDS ReactiveGraph

CONSTANTS s1, c1, c2, e1, e2, v1, v2

ChainReads  == [o \in {c1, c2, e1} |-> CASE o = c1 -> {s1, c2}
                                             [] o = c2 -> {s1, c1}
                                             [] OTHER -> {c2}]
ChainWrites == [e \in {e1} |-> {s1}]
ChainThrows == {c1}
PairReads  == [o \in {c1, e1, e2} |-> CASE o = c1 -> {s1}
                                             [] o = e1 -> {c1}
                                             [] OTHER  -> {c1}]
PairWrites == [e \in {e1, e2} |-> IF e = e1 THEN {s1} ELSE {}]
PairThrows == {c1, e1}
ValueSymmetry == Permutations({v1,v2})
=============================================================================
