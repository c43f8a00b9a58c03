--------------------------- MODULE MCGraphTransfer ---------------------------
(* An instance of GraphTransfer for TLC. *)
EXTENDS GraphTransfer

CONSTANTS a, b, c, r, v1, v2, old, new

Reg(id, kind, redaction, captureValue) ==
  [id |-> id, kind |-> kind, redaction |-> redaction, captureValue |-> captureValue]
Build(version, nodes) == [version |-> version, nodes |-> nodes]

A == Reg(a, "signal", "include", TRUE)
B == Reg(b, "signal", "include", TRUE)
C == Reg(c, "computed", "include", TRUE)
R == Reg(r, "resource", "include", FALSE)

\* The build both sides may run; one that redacts, omits and captures no
\* computed; one that has reordered its nodes under the same version; and a later
\* version that has changed the kind of a node.
Plain     == Build(old, <<A, C, R, B>>)
Private   == Build(old, <<Reg(c, "computed", "include", FALSE), Reg(a, "signal", "redact", TRUE),
                          Reg(b, "signal", "omit", TRUE)>>)
Reordered == Build(old, <<B, A, Reg(c, "computed", "redact", TRUE)>>)
Changed   == Build(new, <<Reg(r, "stream", "include", FALSE), A, B>>)

MCUnencodable == {<<b, v2>>}
MCUndecodable == {<<b, v2>>}
MCServerScopes == {Plain, Private, Reordered}
MCClientScopes == {Plain, Changed}
=============================================================================
