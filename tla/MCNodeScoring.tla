--------------------------- MODULE MCNodeScoring ---------------------------
(* Instances of NodeScoring for TLC. *)
EXTENDS NodeScoring

CONSTANTS s1, s2, p1, n1, n2

\* Every provider node belongs to the one provider of these instances.
OneProvider == [n \in ProviderNodes |-> p1]
=============================================================================
