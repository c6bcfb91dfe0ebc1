-------------------------- MODULE MCAgentLifecycle --------------------------
(* Instances of AgentLifecycle for TLC. *)
EXTENDS AgentLifecycle, TLC

\* Agents, handlers and profiles are interchangeable where no liveness is
\* checked.
Symmetry ==
    Permutations(Agents) \cup Permutations(Handlers) \cup Permutations(Profiles)
=============================================================================
