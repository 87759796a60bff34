----------------------------- MODULE MCGateWire -----------------------------
(* An instance of GateWire for TLC.                                         *)
EXTENDS GateWire, TLC
CONSTANTS e1, r1, m1, u1, c1, c2

MCCase == [r \in Runs |-> Manifests]

\* The connections are interchangeable.
Symmetry == Permutations(Conns)

=============================================================================
