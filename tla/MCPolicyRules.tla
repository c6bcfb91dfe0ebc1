---------------------------- MODULE MCPolicyRules ---------------------------
(* Instances of PolicyRules for TLC. *)
EXTENDS PolicyRules, TLC

Symmetry == Permutations(Agents)
=============================================================================
