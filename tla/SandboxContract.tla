-------------------------- MODULE SandboxContract --------------------------
(***************************************************************************)
(* What is left of AgentContract when requests overlap, replies are lost   *)
(* and the daemon restarts: every sandbox is launched by one Start, with   *)
(* the profile its agent had when that Start was claimed; a Start succeeds *)
(* only for the sandbox it has launched itself, and a Stop only once a     *)
(* sandbox that was up has ended.  AgentLifecycle implements it under all  *)
(* faults.                                                                 *)
(***************************************************************************)
CONSTANTS
    Agents,      \* agent identifiers
    Profiles,    \* capability profiles
    Handlers,    \* goroutines serving requests
    NoAgent,     \* the agent of a handler that has asked for nothing
    NoProfile    \* the profile of an unknown agent or of no sandbox

VARIABLES
    known,       \* the profile of each registered agent
    asked,       \* the Start or Stop each handler serves, and how far it is
    live         \* the profile each sandbox with processes was launched with

vars == <<known, asked, live>>

Request(what, id, p) == [what |-> what, agent |-> id, profile |-> p]

Nothing == Request("nothing", NoAgent, NoProfile)

Nobody == [id \in Agents |-> NoProfile]

Init ==
    /\ known = Nobody
    /\ asked = [h \in Handlers |-> Nothing]
    /\ live = Nobody

\* How far a request is: a Start goes from "launch" over "launched" to "up", a
\* Stop from "stop" to "ended".
To(what, r) == [r EXCEPT !.what = what]

\* An agent is added or removed, also one that is served or live.
Change(id, p) ==
    /\ known[id] # p
    /\ NoProfile \in {known[id], p}
    /\ known' = [known EXCEPT ![id] = p]
    /\ UNCHANGED <<asked, live>>

Ask(h, id) ==
    /\ asked[h] = Nothing
    /\ known[id] # NoProfile
    /\ asked' \in {[asked EXCEPT ![h] = Request("launch", id, known[id])],
                   [asked EXCEPT ![h] = Request("stop", id, NoProfile)]}
    /\ UNCHANGED <<known, live>>

\* The request may be given up by its client in the same moment.
Launch(h) ==
    /\ asked[h].what = "launch"
    /\ live[asked[h].agent] = NoProfile
    /\ live' = [live EXCEPT ![asked[h].agent] = asked[h].profile]
    /\ asked' \in {[asked EXCEPT ![h] = To("launched", @)],
                   [asked EXCEPT ![h] = Nothing]}
    /\ UNCHANGED known

Up(h) ==
    /\ asked[h].what = "launched"
    /\ live[asked[h].agent] = asked[h].profile
    /\ asked' = [asked EXCEPT ![h] = To("up", @)]
    /\ UNCHANGED <<known, live>>

\* A Start that waits for the sandbox fails, a Stop may succeed.
AtEnd(h, id, ended) ==
    IF asked[h].agent # id THEN asked[h]
    ELSE CASE asked[h].what = "launched" -> Nothing
           [] asked[h].what = "stop" /\ h \in ended -> To("ended", asked[h])
           [] OTHER -> asked[h]

End(id) ==
    /\ live[id] # NoProfile
    /\ live' = [live EXCEPT ![id] = NoProfile]
    /\ \E ended \in SUBSET Handlers :
          asked' = [h \in Handlers |-> AtEnd(h, id, ended)]
    /\ UNCHANGED known

\* There is nothing to stop any more.
Ended(h) ==
    /\ asked[h].what = "stop"
    /\ live[asked[h].agent] = NoProfile
    /\ asked' = [asked EXCEPT ![h] = To("ended", @)]
    /\ UNCHANGED <<known, live>>

\* Requests fail, or are answered.
Return(hs) ==
    /\ asked' = [h \in Handlers |-> IF h \in hs THEN Nothing ELSE asked[h]]
    /\ UNCHANGED <<known, live>>

\* Sandboxes outlive the daemon; which records do is up to DurableRegistry.
Restart ==
    /\ known' \in [Agents -> Profiles \cup {NoProfile}]
    /\ asked' = [h \in Handlers |-> Nothing]
    /\ UNCHANGED live

Next ==
    \/ \E id \in Agents :
          \/ \E p \in Profiles \cup {NoProfile} : Change(id, p)
          \/ \E h \in Handlers : Ask(h, id)
          \/ End(id)
    \/ \E h \in Handlers : Launch(h) \/ Up(h) \/ Ended(h)
    \/ \E hs \in SUBSET Handlers : Return(hs)
    \/ Restart

Spec == Init /\ [][Next]_vars
=============================================================================
