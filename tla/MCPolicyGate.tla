---------------------------- MODULE MCPolicyGate ----------------------------
(* An instance of PolicyGate for TLC.                                       *)
EXTENDS PolicyGate, TLC

CONSTANTS e1, e2, r1, m1, u1, c1

MCCase == [r \in {r1} |-> {m1}]
=============================================================================
