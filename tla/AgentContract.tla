--------------------------- MODULE AgentContract ---------------------------
(***************************************************************************)
(* What the lifecycle manager promises the client that drives it: an agent *)
(* can be launched only while it is known, by one sandbox at a time, and   *)
(* it stays known for as long as its sandbox is up ("stop or kill it       *)
(* before unregistering").  AgentLifecycle implements it when clients do   *)
(* not overlap their requests and no D-Bus reply or daemon is lost.        *)
(***************************************************************************)
CONSTANT Agents    \* agent identifiers

VARIABLES
    known,         \* the registered agents
    up             \* the agents whose sandbox has live processes

vars == <<known, up>>

Init == known = {} /\ up = {}

Add(id) ==
    /\ id \notin known
    /\ known' = known \cup {id}
    /\ UNCHANGED up

Remove(id) ==
    /\ id \in known \ up
    /\ known' = known \ {id}
    /\ UNCHANGED up

Launch(id) ==
    /\ id \in known \ up
    /\ up' = up \cup {id}
    /\ UNCHANGED known

Down(id) ==
    /\ id \in up
    /\ up' = up \ {id}
    /\ UNCHANGED known

Next == \E id \in Agents : Add(id) \/ Remove(id) \/ Launch(id) \/ Down(id)

Spec == Init /\ [][Next]_vars
=============================================================================
