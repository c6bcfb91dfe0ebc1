--------------------------- MODULE MCRegistryFile ---------------------------
(* Instances of RegistryFile for TLC. *)
EXTENDS RegistryFile, TLC

Symmetry ==
    Permutations(Agents) \cup Permutations(Handlers) \cup Permutations(Profiles)
=============================================================================
