-------------------------- MODULE DurableRegistry --------------------------
(***************************************************************************)
(* What registry.json promises ("atomically writes the agent registry to   *)
(* disk", registry.go:28): the file holds the registrations of some moment *)
(* since they last changed hands, whole, and a restart finds those or none *)
(* at all.  RegistryFile implements it write by write, AgentLifecycle      *)
(* request by request.                                                     *)
(***************************************************************************)
CONSTANTS
    Agents,      \* agent identifiers
    Profiles,    \* capability profiles
    NoProfile    \* the profile of an agent that has no entry

VARIABLES
    memory,      \* the entries the daemon serves requests from
    saved        \* the entries in the file

vars == <<memory, saved>>

Nobody == [id \in Agents |-> NoProfile]

Init == memory = Nobody /\ saved = Nobody

\* One agent is added or removed; the file follows at once, later or never.
Change(id, p) ==
    /\ memory[id] # p
    /\ NoProfile \in {memory[id], p}
    /\ memory' = [memory EXCEPT ![id] = p]
    /\ saved' \in {saved, memory'}

Save == saved' = memory /\ UNCHANGED memory

\* The daemon comes back, with the file or, if it cannot be read, with nothing.
Restart == memory' \in {saved, Nobody} /\ UNCHANGED saved

Next ==
    \/ \E id \in Agents, p \in Profiles \cup {NoProfile} : Change(id, p)
    \/ Save
    \/ Restart

Spec == Init /\ [][Next]_vars
=============================================================================
