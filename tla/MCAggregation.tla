--------------------------- MODULE MCAggregation ---------------------------
(* Model-checking instance of Aggregation: two probes, two nodes.         *)
EXTENDS Aggregation

MCProbeLayers == {"container"}
MCTSVal == 0..2
MCWindowVal == {1, 2}

\* Probes are interchangeable, and so are the Parent and Sets values.
Symmetry == Permutations(Probe) \cup Permutations(Node) \cup Permutations(ParentVal)
=============================================================================
