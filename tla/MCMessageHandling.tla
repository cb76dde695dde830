--------------------------- MODULE MCMessageHandling ---------------------------
(* Finite instances of MessageHandling.                                     *)
EXTENDS MessageHandling, TLC

CONSTANTS c1, c2, i1

OneConn == {c1}
TwoConns == {c1, c2}
NoCalls == {}
OneCall == {i1}

\* Every kind that reaches a session which accepts messages without a TPDU.
LenientKinds == {"good", "unknown", "garbled", "blank"}
ConnSymmetry == Permutations({c1, c2})
TwoKinds == {"good", "unknown"}
=============================================================================
