--------------------------- MODULE MCPolicyEngine ---------------------------
(* Instances of PolicyEngine for TLC. *)
EXTENDS PolicyEngine, TLC

Symmetry ==
    Permutations(Agents) \cup Permutations(Loaded) \cup
    Permutations(Evaluators) \cup Permutations(Reloaders)
=============================================================================
