--------------------------- MODULE AgentLifecycle ---------------------------
(***************************************************************************)
(* The lifecycle manager of atomicagentd: agent.Manager and the sandbox    *)
(* manager it drives, together with the systemd jobs and units the sandbox *)
(* manager waits for.                                                      *)
(*                                                                         *)
(* Register and Unregister hold Manager.mu from the first check to the     *)
(* last write, so each is one action.  Start, Stop and Kill release the    *)
(* lock around their D-Bus calls: a goroutine that serves one of them is a *)
(* handler, and every critical section and every D-Bus call of it is an    *)
(* action of its own.                                                      *)
(***************************************************************************)
EXTENDS Naturals, FiniteSets

CONSTANTS
    Agents,     \* agent identifiers a client may name (all pass ValidateID)
    Profiles,   \* capability profiles
    Handlers,   \* goroutines serving Start, Stop and Kill requests
    MaxAgents,  \* ManagerConfig.MaxAgents, 0 for no limit
    MaxResets,  \* bound of the model: pending delayed resets of one unit
    Serial,     \* TRUE: clients never have two requests about one agent open
    Faults,     \* which of "crash", "dbus" and "disk" may happen
    NoAgent,    \* the agent of an idle handler
    NoProfile   \* the profile of an agent that has no record

ASSUME ConstantsAssumption ==
    /\ IsFiniteSet(Agents)
    /\ NoAgent \notin Agents
    /\ NoProfile \notin Profiles
    /\ MaxAgents \in Nat
    /\ MaxResets \in Nat
    /\ Serial \in BOOLEAN
    /\ Faults \subseteq {"crash", "dbus", "disk"}

VARIABLES
    state,         \* RuntimeAgent.State, "none" when Manager.agents has no entry
    profile,       \* Manager.agents: the profile of the entry, if there is one
    policyAgents,  \* policy.Engine.agents: the profile Evaluate decides by
    registryFile,  \* registry.json: the profile of each saved entry
    workspaces,    \* agents whose workspace directory exists
    unit,          \* the systemd unit of each agent
    unitProfile,   \* the profile the unit was last launched with
    pc,            \* what each handler does next
    target,        \* the agent its request names
    current,       \* whether the *RuntimeAgent it holds is still in the map
    launching,     \* the profile a Start launches the unit with
    resets,        \* sleeping goroutines of KillAgent, by unit
    audit          \* the last lifecycle event logged about each agent

vars == <<state, profile, policyAgents, registryFile, workspaces,
          unit, unitProfile, resets, pc, target, current, launching, audit>>

registry == <<profile, policyAgents, registryFile, workspaces>>
sandbox == <<unit, unitProfile, resets>>
request == <<target, current, launching>>

States == {"registered", "starting", "running", "stopping",
           "stopped", "killed", "failed"}

\* "absent" is a unit systemd has not loaded: never created, or collected
\* after a clean exit.
UnitStates == {"absent", "activating", "active", "deactivating", "failed"}

\* "startwait" and "stopwait" block on the channel of a systemd job, "lost"
\* on a channel nothing will answer.
Points == {"idle", "reset", "launch", "startwait", "started", "startfail",
           "auditstart", "stopcall", "stopwait", "lost", "stopped",
           "auditstop", "killed", "auditkill"}

Events == {"none", "registered", "unregistered", "started", "stopped",
           "killed"}

Registered == {id \in Agents : profile[id] # NoProfile}

Alive(id) == unit[id] \in {"activating", "active"}

Quiet(id) == \A h \in Handlers : target[h] # id

\* A client that is Serial waits for the answer to its last request.
Admitted(id) == Serial => Quiet(id)

Goto(h, point) == pc' = [pc EXCEPT ![h] = point]

Begin(h, id, held, prof) ==
    /\ target' = [target EXCEPT ![h] = id]
    /\ current' = [current EXCEPT ![h] = held]
    /\ launching' = [launching EXCEPT ![h] = prof]

Return(h) == Goto(h, "idle") /\ Begin(h, NoAgent, FALSE, NoProfile)

\* Where the handlers are once those that wait at `from` for the unit of id
\* have their answer.
Answered(points, id, from, to) ==
    [h \in Handlers |-> IF points[h] = from /\ target[h] = id
                        THEN to ELSE points[h]]

Logged(id, event) == [audit EXCEPT ![id] = event]

\* What a handler writes through its *RuntimeAgent: nothing a client can see
\* when the entry has been removed since.
Recorded(h, s) ==
    IF current[h] THEN [state EXCEPT ![target[h]] = s] ELSE state

Init ==
    /\ state = [id \in Agents |-> "none"]
    /\ profile = [id \in Agents |-> NoProfile]
    /\ policyAgents = [id \in Agents |-> NoProfile]
    /\ registryFile = [id \in Agents |-> NoProfile]
    /\ workspaces = {}
    /\ unit = [id \in Agents |-> "absent"]
    /\ unitProfile = [id \in Agents |-> NoProfile]
    /\ resets = [id \in Agents |-> 0]
    /\ pc = [h \in Handlers |-> "idle"]
    /\ target = [h \in Handlers |-> NoAgent]
    /\ current = [h \in Handlers |-> FALSE]
    /\ launching = [h \in Handlers |-> NoProfile]
    /\ audit = [id \in Agents |-> "none"]

-----------------------------------------------------------------------------
(* Register and Unregister *)

\* Mutant: the map is saved before it is changed.
SaveRegistryBefore ==
    \/ registryFile' = profile
    \/ "disk" \in Faults /\ UNCHANGED registryFile

\* saveRegistry replaces the file by a snapshot of the map or leaves the old
\* one; its callers log the error and go on.
SaveRegistry ==
    \/ registryFile' = profile'
    \/ "disk" \in Faults /\ UNCHANGED registryFile

\* Mutant: len(m.agents) compared with > instead of >=.
CanRegisterPastLimit(id) ==
    /\ profile[id] = NoProfile
    /\ MaxAgents > 0 => Cardinality(Registered) <= MaxAgents

CanRegister(id) ==
    /\ profile[id] = NoProfile
    /\ MaxAgents > 0 => Cardinality(Registered) < MaxAgents

Register(id, p) ==
    /\ Admitted(id)
    /\ CanRegister(id)
    /\ workspaces' = workspaces \cup {id}
    /\ profile' = [profile EXCEPT ![id] = p]
    /\ state' = [state EXCEPT ![id] = "registered"]
    /\ policyAgents' = [policyAgents EXCEPT ![id] = p]
    /\ SaveRegistry
    /\ audit' = Logged(id, "registered")
    /\ UNCHANGED <<sandbox, pc, request>>

\* ProvisionWorkspace fails after it has made the directories.
RegisterFails(id) ==
    /\ "disk" \in Faults
    /\ Admitted(id)
    /\ CanRegister(id)
    /\ workspaces' = workspaces \cup {id}
    /\ UNCHANGED <<state, profile, policyAgents, registryFile, sandbox,
                   audit, pc, request>>

\* Mutant: the running state is missing from the guard.
CanUnregisterRunning(id) == state[id] \notin {"none", "starting", "stopping"}

CanUnregister(id) == state[id] \in {"registered", "stopped", "killed", "failed"}

\* The directory goes when the client asked for a purge and RemoveAll works.
Unregister(id) ==
    /\ Admitted(id)
    /\ CanUnregister(id)
    /\ state' = [state EXCEPT ![id] = "none"]
    /\ profile' = [profile EXCEPT ![id] = NoProfile]
    /\ policyAgents' = [policyAgents EXCEPT ![id] = NoProfile]
    /\ SaveRegistry
    /\ workspaces' \in {workspaces, workspaces \ {id}}
    /\ current' = [h \in Handlers |-> current[h] /\ target[h] # id]
    /\ audit' = Logged(id, "unregistered")
    /\ UNCHANGED <<sandbox, pc, target, launching>>

-----------------------------------------------------------------------------
(* Start *)

\* Mutant: no check that the agent is running.
CanStartRunning(id) == state[id] \notin {"none", "starting"}

CanStart(id) == state[id] \notin {"none", "running", "starting"}

StartClaim(h, id) ==
    /\ pc[h] = "idle"
    /\ Admitted(id)
    /\ CanStart(id)
    /\ state' = [state EXCEPT ![id] = "starting"]
    /\ Goto(h, "reset")
    /\ Begin(h, id, TRUE, profile[id])
    /\ UNCHANGED <<registry, sandbox, audit>>

\* GetUnitProperties and ResetFailedUnit; an error of either is ignored.
StartReset(h) ==
    LET id == target[h] IN
    /\ pc[h] = "reset"
    /\ unit' \in {[unit EXCEPT ![id] = IF @ = "failed" THEN "absent" ELSE @]}
                 \cup (IF "dbus" \in Faults THEN {unit} ELSE {})
    /\ Goto(h, "launch")
    /\ UNCHANGED <<state, registry, unitProfile, resets, audit, request>>

Launch(h) ==
    /\ unit[target[h]] = "absent"
    /\ unit' = [unit EXCEPT ![target[h]] = "activating"]
    /\ unitProfile' = [unitProfile EXCEPT ![target[h]] = launching[h]]

\* StartTransientUnit in mode "fail" is accepted: a job is queued.
StartLaunch(h) ==
    /\ pc[h] = "launch"
    /\ Launch(h)
    /\ Goto(h, "startwait")
    /\ UNCHANGED <<state, registry, resets, audit, request>>

\* Mutant: the error of StartTransientUnit is not returned.
StartRefusedUnseen(h) ==
    /\ pc[h] = "launch"
    /\ unit[target[h]] # "absent"
    /\ Goto(h, "startwait")
    /\ UNCHANGED <<state, registry, sandbox, audit, request>>

\* A unit of that name is still loaded.
StartRefused(h) ==
    /\ pc[h] = "launch"
    /\ unit[target[h]] # "absent"
    /\ Goto(h, "startfail")
    /\ UNCHANGED <<state, registry, sandbox, audit, request>>

\* The call fails, or the client goes away and its context is cancelled:
\* systemd may or may not have carried it out.
StartReplyLost(h) ==
    /\ "dbus" \in Faults
    /\ pc[h] = "launch"
    /\ Launch(h) \/ UNCHANGED <<unit, unitProfile>>
    /\ Goto(h, "startfail")
    /\ UNCHANGED <<state, registry, resets, audit, request>>

StartRecord(h) ==
    /\ pc[h] = "started"
    /\ state' = Recorded(h, "running")
    /\ Goto(h, "auditstart")
    /\ UNCHANGED <<registry, sandbox, audit, request>>

\* Mutant: the failure is returned but not recorded.
StartFailUnrecorded(h) ==
    /\ pc[h] = "startfail"
    /\ Return(h)
    /\ UNCHANGED <<state, registry, sandbox, audit>>

StartFail(h) ==
    /\ pc[h] = "startfail"
    /\ state' = Recorded(h, "failed")
    /\ Return(h)
    /\ UNCHANGED <<registry, sandbox, audit>>

StartAudit(h) ==
    /\ pc[h] = "auditstart"
    /\ audit' = Logged(target[h], "started")
    /\ Return(h)
    /\ UNCHANGED <<state, registry, sandbox>>

-----------------------------------------------------------------------------
(* Stop *)

StopClaim(h, id) ==
    /\ pc[h] = "idle"
    /\ Admitted(id)
    /\ state[id] # "none"
    /\ state' = [state EXCEPT ![id] = "stopping"]
    /\ Goto(h, "stopcall")
    /\ Begin(h, id, TRUE, NoProfile)
    /\ UNCHANGED <<registry, sandbox, audit>>

\* StopUnit knows no such unit: the handler answers the error and leaves
\* the state as it is.
StopRefused(h) ==
    /\ pc[h] = "stopcall"
    /\ unit[target[h]] = "absent"
    /\ Return(h)
    /\ UNCHANGED <<state, registry, sandbox, audit>>

\* Handlers after a stop job is queued for id: a start job in the queue is
\* cancelled and its waiter told.
Cancelled(id) == Answered(pc, id, "startwait", "startfail")

StopUnit(id) ==
    /\ unit[id] \in {"activating", "active", "deactivating"}
    /\ unit' = [unit EXCEPT ![id] = "deactivating"]

\* Mutant: StopAgent does not read its job channel.
StopQueueUnawaited(h) ==
    LET id == target[h] IN
    /\ pc[h] = "stopcall"
    /\ StopUnit(id)
    /\ pc' = [Cancelled(id) EXCEPT ![h] = "stopped"]
    /\ UNCHANGED <<state, registry, unitProfile, resets, audit, request>>

\* StopUnit in mode "replace".  A second stop joins the queued job, and the
\* client library then answers only the waiter that asked last.
StopQueue(h) ==
    LET id == target[h] IN
    /\ pc[h] = "stopcall"
    /\ StopUnit(id)
    /\ pc' = [Answered(Cancelled(id), id, "stopwait", "lost")
                EXCEPT ![h] = "stopwait"]
    /\ UNCHANGED <<state, registry, unitProfile, resets, audit, request>>

\* A failed unit has nothing to stop and its job ends at once.
StopFailedUnit(h) ==
    /\ pc[h] = "stopcall"
    /\ unit[target[h]] = "failed"
    /\ Goto(h, "stopped")
    /\ UNCHANGED <<state, registry, sandbox, audit, request>>

\* As StartReplyLost; StopAgent answers the error.
StopReplyLost(h) ==
    LET id == target[h] IN
    /\ "dbus" \in Faults
    /\ pc[h] = "stopcall"
    /\ \/ StopUnit(id) /\ pc' = [Cancelled(id) EXCEPT ![h] = "idle"]
       \/ UNCHANGED unit /\ Goto(h, "idle")
    /\ Begin(h, NoAgent, FALSE, NoProfile)
    /\ UNCHANGED <<state, registry, unitProfile, resets, audit>>

\* Mutant: a stop is not logged.
StopRecordUnlogged(h) ==
    /\ pc[h] = "stopped"
    /\ state' = Recorded(h, "stopped")
    /\ Return(h)
    /\ UNCHANGED <<registry, sandbox, audit>>

StopRecord(h) ==
    /\ pc[h] = "stopped"
    /\ state' = Recorded(h, "stopped")
    /\ Goto(h, "auditstop")
    /\ UNCHANGED <<registry, sandbox, audit, request>>

StopAudit(h) ==
    /\ pc[h] = "auditstop"
    /\ audit' = Logged(target[h], "stopped")
    /\ Return(h)
    /\ UNCHANGED <<state, registry, sandbox>>

-----------------------------------------------------------------------------
(* Kill *)

\* The signal is sent before Manager.mu is taken, for any id a client names.
\* An error (no such unit) is answered and changes nothing.
KillSignal(h, id) ==
    /\ pc[h] = "idle"
    /\ Admitted(id)
    /\ unit[id] # "absent"
    /\ resets[id] < MaxResets
    /\ unit' = [unit EXCEPT ![id] = IF Alive(id) THEN "deactivating" ELSE @]
    /\ resets' = [resets EXCEPT ![id] = @ + 1]
    /\ pc' = [Cancelled(id) EXCEPT ![h] = "killed"]
    /\ Begin(h, id, FALSE, NoProfile)
    /\ UNCHANGED <<state, registry, unitProfile, audit>>

\* Mutant: the entry is written back without looking whether it is there.
KillRecordAlways(h) ==
    /\ pc[h] = "killed"
    /\ state' = [state EXCEPT ![target[h]] = "killed"]
    /\ Goto(h, "auditkill")
    /\ UNCHANGED <<registry, sandbox, audit, request>>

KillRecord(h) ==
    LET id == target[h] IN
    /\ pc[h] = "killed"
    /\ state' = [state EXCEPT ![id] = IF @ = "none" THEN @ ELSE "killed"]
    /\ Goto(h, "auditkill")
    /\ UNCHANGED <<registry, sandbox, audit, request>>

KillAudit(h) ==
    /\ pc[h] = "auditkill"
    /\ audit' = Logged(target[h], "killed")
    /\ Return(h)
    /\ UNCHANGED <<state, registry, sandbox>>

\* The goroutine KillAgent leaves behind wakes up; ResetFailedUnit forgets a
\* failed unit and does nothing to any other.
DelayedReset(id) ==
    /\ resets[id] > 0
    /\ resets' = [resets EXCEPT ![id] = @ - 1]
    /\ unit' = [unit EXCEPT ![id] = IF @ = "failed" THEN "absent" ELSE @]
    /\ UNCHANGED <<state, registry, unitProfile, audit, pc, request>>

-----------------------------------------------------------------------------
(* systemd, and the end of the daemon *)

UnitActivated(id) ==
    /\ unit[id] = "activating"
    /\ unit' = [unit EXCEPT ![id] = "active"]
    /\ pc' = Answered(pc, id, "startwait", "started")
    /\ UNCHANGED <<state, registry, unitProfile, resets, audit, request>>

UnitActivationFails(id) ==
    /\ unit[id] = "activating"
    /\ unit' = [unit EXCEPT ![id] = "failed"]
    /\ pc' = Answered(pc, id, "startwait", "startfail")
    /\ UNCHANGED <<state, registry, unitProfile, resets, audit, request>>

\* The last process of a stopped or killed unit is gone.
UnitDown(id) ==
    /\ unit[id] = "deactivating"
    /\ \E u \in {"absent", "failed"} : unit' = [unit EXCEPT ![id] = u]
    /\ pc' = Answered(pc, id, "stopwait", "stopped")
    /\ UNCHANGED <<state, registry, unitProfile, resets, audit, request>>

\* The agent ends by itself: no Restart= is set and nothing tells the manager.
UnitExit(id) ==
    /\ unit[id] = "active"
    /\ \E u \in {"absent", "failed"} : unit' = [unit EXCEPT ![id] = u]
    /\ UNCHANGED <<state, registry, unitProfile, resets, audit, pc, request>>

\* Mutant: restored agents are not handed to the policy engine.
LoadPersistedAgentsUnshared ==
    /\ profile' = registryFile
    /\ policyAgents' = [id \in Agents |-> NoProfile]
    /\ state' = [id \in Agents |->
                   IF profile'[id] = NoProfile THEN "none" ELSE "registered"]

\* LoadPersistedAgents: every saved agent comes back as registered, whatever
\* its unit does.  The daemon carries on with no agents when the file cannot
\* be read.
LoadPersistedAgents ==
    /\ \/ profile' = registryFile
       \/ "disk" \in Faults /\ profile' = [id \in Agents |-> NoProfile]
    /\ policyAgents' = profile'
    /\ state' = [id \in Agents |->
                   IF profile'[id] = NoProfile THEN "none" ELSE "registered"]

\* The daemon dies, with every goroutine of it, and comes back; units stay.
Restart ==
    /\ "crash" \in Faults
    /\ LoadPersistedAgents
    /\ resets' = [id \in Agents |-> 0]
    /\ pc' = [h \in Handlers |-> "idle"]
    /\ target' = [h \in Handlers |-> NoAgent]
    /\ current' = [h \in Handlers |-> FALSE]
    /\ launching' = [h \in Handlers |-> NoProfile]
    /\ UNCHANGED <<registryFile, workspaces, unit, unitProfile, audit>>

-----------------------------------------------------------------------------

\* What a handler that has work does next.
Step(h) ==
    \/ StartReset(h) \/ StartLaunch(h) \/ StartRefused(h) \/ StartReplyLost(h)
    \/ StartRecord(h) \/ StartFail(h) \/ StartAudit(h)
    \/ StopRefused(h) \/ StopQueue(h) \/ StopFailedUnit(h) \/ StopReplyLost(h)
    \/ StopRecord(h) \/ StopAudit(h)
    \/ KillRecord(h) \/ KillAudit(h)

\* systemd ends every job it has accepted.
JobEnds(id) == UnitActivated(id) \/ UnitActivationFails(id) \/ UnitDown(id)

Next ==
    \/ \E id \in Agents :
          \/ \E p \in Profiles : Register(id, p)
          \/ RegisterFails(id)
          \/ Unregister(id)
          \/ \E h \in Handlers :
                StartClaim(h, id) \/ StopClaim(h, id) \/ KillSignal(h, id)
          \/ DelayedReset(id)
          \/ JobEnds(id)
          \/ UnitExit(id)
    \/ \E h \in Handlers : Step(h)
    \/ Restart

Fairness ==
    /\ \A h \in Handlers : WF_vars(Step(h))
    /\ \A id \in Agents : WF_vars(JobEnds(id))

Spec == Init /\ [][Next]_vars

FairSpec == Spec /\ Fairness

-----------------------------------------------------------------------------
(* Properties *)

\* Every variable has its type, and an agent has a state exactly when
\* Manager.agents has an entry for it.
TypeOK ==
    /\ state \in [Agents -> States \cup {"none"}]
    /\ profile \in [Agents -> Profiles \cup {NoProfile}]
    /\ policyAgents \in [Agents -> Profiles \cup {NoProfile}]
    /\ registryFile \in [Agents -> Profiles \cup {NoProfile}]
    /\ workspaces \subseteq Agents
    /\ unit \in [Agents -> UnitStates]
    /\ unitProfile \in [Agents -> Profiles \cup {NoProfile}]
    /\ resets \in [Agents -> 0..MaxResets]
    /\ pc \in [Handlers -> Points]
    /\ target \in [Handlers -> Agents \cup {NoAgent}]
    /\ current \in [Handlers -> BOOLEAN]
    /\ launching \in [Handlers -> Profiles \cup {NoProfile}]
    /\ audit \in [Agents -> Events]
    /\ \A id \in Agents : state[id] = "none" <=> profile[id] = NoProfile

\* The policy engine decides by the profile of the agent's current record,
\* through registrations, removals, failed saves and restarts: its own map of
\* agents never drifts from the manager's.
PolicyInSync == policyAgents = profile

\* The limit on agents holds for the map and for the file, so that a restart
\* cannot load more agents than the limit allows, although the load itself
\* checks none.
RegistrationsCapped ==
    MaxAgents > 0 =>
        /\ Cardinality(Registered) <= MaxAgents
        /\ Cardinality({id \in Agents : registryFile[id] # NoProfile})
              <= MaxAgents

\* "starting" is held for the agent by a Start request that is under way and
\* will set it: no interleaving of Start, Stop, Kill, removal and restart
\* leaves an agent starting with nobody to finish it, which would lock out
\* both Start and Unregister.
StartingOwned ==
    \A id \in Agents : state[id] = "starting" =>
        \E h \in Handlers :
            /\ target[h] = id
            /\ current[h]
            /\ pc[h] \in {"reset", "launch", "startwait", "started",
                              "startfail"}

\* An agent that is starting does not stay so: whatever other requests do to
\* its unit, the Start that waits for its job gets an answer.
StartingResolves ==
    \A id \in Agents : state[id] = "starting" ~> state[id] # "starting"

\* Every request is answered, although StartAgent and StopAgent read their job
\* channels without a timeout: only a Stop whose job another Stop has joined
\* can wait for ever.
RequestsReturn ==
    \A h \in Handlers : pc[h] # "idle" ~> pc[h] \in {"idle", "lost"}

\* A unit with live processes belongs to an agent whose record says so, so
\* that Unregister refuses it.
SandboxAccounted ==
    \A id \in Agents :
        Alive(id) => state[id] \in {"starting", "running", "stopping"}

\* A live sandbox is as the records say: it was set up with the profile the
\* policy engine decides its agent's actions by, and no purge has taken the
\* workspace from under it.
SandboxAsRecorded ==
    \A id \in Agents : Alive(id) =>
        unitProfile[id] = policyAgents[id] /\ id \in workspaces

\* Once a Stop has been answered, the unit it stopped has ended.
StoppedIsDown ==
    \A id \in Agents : state[id] = "stopped" /\ Quiet(id) =>
        unit[id] \in {"absent", "failed"}

\* "Maximum number of concurrently running agents" (config.toml:17): the limit,
\* which Register checks against records, bounds the live sandboxes as well.
RunningCapped ==
    MaxAgents > 0 => Cardinality({id \in Agents : Alive(id)}) <= MaxAgents

\* With no request about an agent open, the last event logged about it is
\* the one its state comes from.
AuditAgrees ==
    \A id \in Agents : Quiet(id) =>
        /\ state[id] = "none" => audit[id] \in {"none", "unregistered", "killed"}
        /\ state[id] \in {"registered", "stopped", "killed"} =>
              audit[id] = state[id]
        /\ state[id] = "running" => audit[id] = "started"

\* What the manager promises when clients do not overlap requests about one
\* agent: removal, launch and end of a sandbox in the order AgentContract
\* allows, through every failed job, refused call, failed save and exit.
Contract == INSTANCE AgentContract
              WITH known <- Registered, up <- {id \in Agents : Alive(id)}

ImplementsContract == Contract!Spec

\* The map changes by one registration or removal at a time, and the file only
\* ever to what the map holds: whatever saves fail and however often the daemon
\* restarts, with or without its file, no older or mixed content comes back.
Durable == INSTANCE DurableRegistry
             WITH memory <- profile, saved <- registryFile

ImplementsDurable == Durable!Spec

\* What the request of a handler is to SandboxContract: a Kill asks for nothing.
Stage(h) ==
    CASE pc[h] \in {"reset", "launch"} -> "launch"
      [] pc[h] = "startwait" -> "launched"
      [] pc[h] \in {"started", "auditstart"} -> "up"
      [] pc[h] \in {"stopcall", "stopwait", "lost"} -> "stop"
      [] pc[h] \in {"stopped", "auditstop"} -> "ended"
      [] OTHER -> "nothing"

Asked ==
    [h \in Handlers |->
        IF Stage(h) = "nothing"
        THEN [what |-> "nothing", agent |-> NoAgent, profile |-> NoProfile]
        ELSE [what |-> Stage(h), agent |-> target[h], profile |-> launching[h]]]

HasProcesses(id) == unit[id] \in {"activating", "active", "deactivating"}

Live == [id \in Agents |-> IF HasProcesses(id) THEN unitProfile[id] ELSE NoProfile]

\* What the manager promises whatever clients, systemd and restarts do: a
\* sandbox is launched once for each Start at most and with the profile of its
\* claim, a Start succeeds for its own sandbox only and a Stop for none that
\* is still there, although requests about one agent overlap at every call.
Sandboxes == INSTANCE SandboxContract
               WITH known <- profile, asked <- Asked, live <- Live

ImplementsSandboxContract == Sandboxes!Spec

\* An agent is removed only when its sandbox has no live process: "The agent
\* must not be running or starting; stop or kill it first" (lifecycle.go:117).
UnregisterOnlyWhenDown ==
    [][\A id \in Agents :
          profile[id] # NoProfile /\ profile'[id] = NoProfile => ~Alive(id)]_vars

\* An agent that Unregister refuses, with the advice to "stop or kill it
\* before unregistering" (lifecycle.go:128), has a unit that can be stopped
\* or killed, or a request under way that will settle it.
RefusedCanBeStopped ==
    \A id \in Agents :
        state[id] # "none" /\ ~CanUnregister(id) /\ Quiet(id) =>
            unit[id] # "absent"
=============================================================================
