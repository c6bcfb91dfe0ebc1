------------------------ MODULE AgentLifecycleProofs ------------------------
(***************************************************************************)
(* Theorems about AgentLifecycle, for every set of agents, profiles and    *)
(* handlers, every limit, and every choice of Serial and Faults.           *)
(***************************************************************************)
EXTENDS AgentLifecycle, FiniteSetTheorems, TLAPS

\* A handler that has work names an agent, and one that is current acts on
\* the entry the map holds.
HandlersOK ==
    \A h \in Handlers :
        /\ pc[h] # "idle" => target[h] \in Agents
        /\ current[h] => target[h] \in Agents /\ profile[target[h]] # NoProfile

Typed == TypeOK /\ HandlersOK

-----------------------------------------------------------------------------
(* What the helpers of the actions return *)

\* Answered moves waiters and nobody else, and never makes a handler busy.
LEMMA AnsweredPoints ==
    ASSUME NEW points \in [Handlers -> Points], NEW id,
           NEW from \in Points \ {"idle"}, NEW to \in Points
    PROVE  /\ Answered(points, id, from, to) \in [Handlers -> Points]
           /\ \A g \in Handlers :
                 points[g] = "idle" => Answered(points, id, from, to)[g] = "idle"
BY DEF Answered

\* Recorded writes a state through a handler that is current, and keeps the
\* agents that have no entry without a state.
LEMMA RecordedState ==
    ASSUME Typed, NEW h \in Handlers, NEW s \in States
    PROVE  /\ Recorded(h, s) \in [Agents -> States \cup {"none"}]
           /\ \A id \in Agents :
                 Recorded(h, s)[id] = "none" <=> profile[id] = NoProfile
           /\ \A id \in Agents :
                 Recorded(h, s)[id] =
                    IF current[h] /\ target[h] = id THEN s ELSE state[id]
BY DEF Typed, TypeOK, HandlersOK, Recorded, States

-----------------------------------------------------------------------------
(* Types *)

\* The daemon starts typed, with no handler at work.
LEMMA TypedInit == Init => Typed
BY ConstantsAssumption
   DEF Init, Typed, TypeOK, HandlersOK, States, UnitStates, Events, Points

\* Every action keeps the types, the handlers' entries, and the agreement of
\* state and profile on which agents have an entry.
LEMMA TypedStep == Typed /\ [Next]_vars => Typed'
<1> SUFFICES ASSUME Typed, [Next]_vars
             PROVE  Typed'
  OBVIOUS
<1> USE ConstantsAssumption
    DEF Typed, TypeOK, HandlersOK, registry, sandbox, request, Goto, Begin,
        Return
<1>1. ASSUME NEW id \in Agents, NEW p \in Profiles, Register(id, p)
      PROVE  Typed'
  BY <1>1 DEF Register, CanRegister, SaveRegistry, Logged, States, Events
<1>2. ASSUME NEW id \in Agents, RegisterFails(id)
      PROVE  Typed'
  BY <1>2 DEF RegisterFails
<1>3. ASSUME NEW id \in Agents, Unregister(id)
      PROVE  Typed'
  BY <1>3 DEF Unregister, CanUnregister, SaveRegistry, Logged, Events
<1>4. ASSUME NEW id \in Agents, NEW h \in Handlers, StartClaim(h, id)
      PROVE  Typed'
  BY <1>4 DEF StartClaim, CanStart, States, Points
<1>5. ASSUME NEW id \in Agents, NEW h \in Handlers, StopClaim(h, id)
      PROVE  Typed'
  BY <1>5 DEF StopClaim, States, Points
<1>6. ASSUME NEW id \in Agents, NEW h \in Handlers, KillSignal(h, id)
      PROVE  Typed'
  BY <1>6, AnsweredPoints DEF KillSignal, Cancelled, Alive, UnitStates, Points
<1>7. ASSUME NEW id \in Agents, DelayedReset(id)
      PROVE  Typed'
  BY <1>7 DEF DelayedReset, UnitStates
<1>8. ASSUME NEW id \in Agents, JobEnds(id)
      PROVE  Typed'
  BY <1>8, AnsweredPoints
     DEF JobEnds, UnitActivated, UnitActivationFails, UnitDown, UnitStates,
         Points
<1>9. ASSUME NEW id \in Agents, UnitExit(id)
      PROVE  Typed'
  BY <1>9 DEF UnitExit, UnitStates
<1>10. ASSUME NEW h \in Handlers, StartReset(h)
       PROVE  Typed'
  BY <1>10 DEF StartReset, UnitStates, Points
<1>11. ASSUME NEW h \in Handlers,
              StartLaunch(h) \/ StartRefused(h) \/ StartReplyLost(h)
       PROVE  Typed'
  <2>1. CASE StartLaunch(h)
    BY <2>1 DEF StartLaunch, Launch, UnitStates, Points
  <2>2. CASE StartRefused(h)
    BY <2>2 DEF StartRefused, Points
  <2>3. CASE StartReplyLost(h)
    BY <2>3 DEF StartReplyLost, Launch, UnitStates, Points
  <2> QED
    BY <1>11, <2>1, <2>2, <2>3
<1>12. ASSUME NEW h \in Handlers,
              StartRecord(h) \/ StartFail(h) \/ StopRecord(h)
       PROVE  Typed'
  <2>1. CASE StartRecord(h)
    BY <2>1, RecordedState DEF StartRecord, Points, States
  <2>2. CASE StartFail(h)
    BY <2>2, RecordedState DEF StartFail, Points, States
  <2>3. CASE StopRecord(h)
    BY <2>3, RecordedState DEF StopRecord, Points, States
  <2> QED
    BY <1>12, <2>1, <2>2, <2>3
<1>13. ASSUME NEW h \in Handlers,
              StartAudit(h) \/ StopAudit(h) \/ KillAudit(h) \/ StopRefused(h)
       PROVE  Typed'
  <2>1. CASE StartAudit(h)
    BY <2>1 DEF StartAudit, Logged, Events, Points
  <2>2. CASE StopAudit(h)
    BY <2>2 DEF StopAudit, Logged, Events, Points
  <2>3. CASE KillAudit(h)
    BY <2>3 DEF KillAudit, Logged, Events, Points
  <2>4. CASE StopRefused(h)
    BY <2>4 DEF StopRefused, Points
  <2> QED
    BY <1>13, <2>1, <2>2, <2>3, <2>4
<1>14. ASSUME NEW h \in Handlers, StopQueue(h)
       PROVE  Typed'
  <2> DEFINE cancelled == Cancelled(target[h])
             waiting == Answered(cancelled, target[h], "stopwait", "lost")
  <2>1. /\ cancelled \in [Handlers -> Points]
        /\ \A g \in Handlers : pc[g] = "idle" => cancelled[g] = "idle"
    BY AnsweredPoints DEF Cancelled, Points
  <2>2. /\ waiting \in [Handlers -> Points]
        /\ \A g \in Handlers : pc[g] = "idle" => waiting[g] = "idle"
    BY <2>1, AnsweredPoints DEF Points
  <2>3. pc' = [waiting EXCEPT ![h] = "stopwait"]
    BY <1>14 DEF StopQueue
  <2> QED
    BY <1>14, <2>2, <2>3 DEF StopQueue, StopUnit, UnitStates, Points
<1>15. ASSUME NEW h \in Handlers, StopFailedUnit(h)
       PROVE  Typed'
  BY <1>15 DEF StopFailedUnit, Points
<1>16. ASSUME NEW h \in Handlers, StopReplyLost(h)
       PROVE  Typed'
  <2>1. CASE StopUnit(target[h]) /\ pc' = [Cancelled(target[h]) EXCEPT ![h] = "idle"]
    BY <1>16, <2>1, AnsweredPoints
       DEF StopReplyLost, StopUnit, Cancelled, UnitStates, Points
  <2>2. CASE UNCHANGED unit /\ Goto(h, "idle")
    BY <1>16, <2>2 DEF StopReplyLost, Points
  <2> QED
    BY <1>16, <2>1, <2>2 DEF StopReplyLost
<1>17. ASSUME NEW h \in Handlers, KillRecord(h)
       PROVE  Typed'
  BY <1>17 DEF KillRecord, Points, States
<1>18. CASE Restart
  BY <1>18 DEF Restart, LoadPersistedAgents, States, Points
<1>19. CASE UNCHANGED vars
  BY <1>19 DEF vars
<1> QED
  BY <1>1, <1>2, <1>3, <1>4, <1>5, <1>6, <1>7, <1>8, <1>9, <1>10, <1>11,
     <1>12, <1>13, <1>14, <1>15, <1>16, <1>17, <1>18, <1>19
     DEF Next, Step

\* Every variable of the manager and its handlers together, as the other
\* invariants need them.
LEMMA TypedAlways == Spec => []Typed
BY TypedInit, TypedStep, PTL DEF Spec

\* Every variable of the manager keeps its type in every behaviour, and an
\* agent has a state exactly when it has a record.
THEOREM TypeCorrect == Spec => []TypeOK
<1>1. Typed => TypeOK
  BY DEF Typed
<1> QED
  BY <1>1, TypedAlways, PTL

-----------------------------------------------------------------------------
(* The registry *)

\* An action that leaves the entries alone leaves both maps alone.
EntryChange ==
    \/ \E id \in Agents : Unregister(id) \/ \E p \in Profiles : Register(id, p)
    \/ Restart

\* Nothing but Register, Unregister and Restart touches the entries, the
\* engine's records or the file.
LEMMA EntriesUnchanged ==
    ASSUME [Next]_vars, ~EntryChange
    PROVE  UNCHANGED <<profile, policyAgents, registryFile>>
BY DEF EntryChange, Next, Step, JobEnds, vars, registry, RegisterFails,
       StartClaim, StopClaim, KillSignal, DelayedReset, UnitActivated,
       UnitActivationFails, UnitDown, UnitExit, StartReset, StartLaunch,
       StartRefused, StartReplyLost, StartRecord, StartFail, StartAudit,
       StopRefused, StopQueue, StopFailedUnit, StopReplyLost, StopRecord,
       StopAudit, KillRecord, KillAudit

\* The policy engine decides by the profile of the agent's current record in
\* every behaviour, whatever is saved, lost or restarted.
THEOREM PolicyAlwaysInSync == Spec => []PolicyInSync
<1>1. Init => PolicyInSync
  BY DEF Init, PolicyInSync
<1>2. PolicyInSync /\ [Next]_vars => PolicyInSync'
  <2> SUFFICES ASSUME PolicyInSync, [Next]_vars
               PROVE  PolicyInSync'
    OBVIOUS
  <2>1. CASE EntryChange
    BY <2>1 DEF EntryChange, PolicyInSync, Register, Unregister, Restart,
                LoadPersistedAgents
  <2>2. CASE ~EntryChange
    BY <2>2, EntriesUnchanged DEF PolicyInSync
  <2> QED
    BY <2>1, <2>2
<1> QED
  BY <1>1, <1>2, PTL DEF Spec

\* The map and the file move as DurableRegistry has it, request by request.
THEOREM RegistryKeepsDurable == Spec => ImplementsDurable
<1>1. Init => Durable!Init
  BY DEF Init, Durable!Init, Durable!Nobody
<1>2. Typed /\ [Next]_vars => [Durable!Next]_(Durable!vars)
  <2> SUFFICES ASSUME Typed, [Next]_vars
               PROVE  [Durable!Next]_(Durable!vars)
    OBVIOUS
  <2>1. ASSUME NEW id \in Agents, NEW p \in Profiles, Register(id, p)
        PROVE  Durable!Next
    <3>1. Durable!Change(id, p)
      BY <2>1, ConstantsAssumption
         DEF Register, CanRegister, SaveRegistry, Durable!Change, Typed, TypeOK
    <3> QED
      BY <3>1 DEF Durable!Next
  <2>2. ASSUME NEW id \in Agents, Unregister(id)
        PROVE  Durable!Next
    <3>1. profile[id] # NoProfile
      BY <2>2 DEF Unregister, CanUnregister, Typed, TypeOK
    <3>2. Durable!Change(id, NoProfile)
      BY <2>2, <3>1 DEF Unregister, SaveRegistry, Durable!Change, Typed, TypeOK
    <3> QED
      BY <3>2 DEF Durable!Next
  <2>3. CASE Restart
    <3>1. Durable!Restart
      BY <2>3 DEF Restart, LoadPersistedAgents, Durable!Restart, Durable!Nobody
    <3> QED
      BY <3>1 DEF Durable!Next
  <2>4. CASE ~EntryChange
    BY <2>4, EntriesUnchanged DEF Durable!vars
  <2> QED
    BY <2>1, <2>2, <2>3, <2>4 DEF EntryChange
<1> QED
  BY <1>1, <1>2, TypedAlways, PTL
     DEF Spec, ImplementsDurable, Durable!Spec

Saved == {id \in Agents : registryFile[id] # NoProfile}

\* The limit bounds the map and the file, so a restart stays within it
\* although LoadPersistedAgents does not look at it.
THEOREM CapAlwaysHolds == Spec => []RegistrationsCapped
<1> USE ConstantsAssumption
<1> DEFINE Capped == /\ Cardinality(Registered) <= MaxAgents
                     /\ Cardinality(Saved) <= MaxAgents
<1>1. RegistrationsCapped <=> (MaxAgents > 0 => Capped)
  BY DEF RegistrationsCapped, Saved
<1>2. Init => RegistrationsCapped
  <2>1. Init => Registered = {} /\ Saved = {}
    BY DEF Init, Registered, Saved
  <2> QED
    BY <1>1, <2>1, FS_EmptySet
<1>3. Typed /\ RegistrationsCapped /\ [Next]_vars => RegistrationsCapped'
  <2> SUFFICES ASSUME Typed, Capped, MaxAgents > 0, [Next]_vars
               PROVE  Capped'
    BY <1>1 DEF RegistrationsCapped, Saved
  <2>1. IsFiniteSet(Registered) /\ Cardinality(Registered) \in Nat
    BY FS_Subset, FS_CardinalityType DEF Registered
  <2>2. ASSUME NEW id \in Agents, NEW p \in Profiles, Register(id, p)
        PROVE  Capped'
    <3>1. Registered' = Registered \cup {id} /\ id \notin Registered
      BY <2>2 DEF Register, CanRegister, Registered, Typed, TypeOK
    <3>2. Cardinality(Registered') = Cardinality(Registered) + 1
      BY <2>1, <3>1, FS_AddElement
    <3>3. Cardinality(Registered) < MaxAgents
      BY <2>2 DEF Register, CanRegister
    <3>4. Saved' = Registered' \/ Saved' = Saved
      BY <2>2 DEF Register, SaveRegistry, Saved, Registered
    <3> QED
      BY <2>1, <3>2, <3>3, <3>4
  <2>3. ASSUME NEW id \in Agents, Unregister(id)
        PROVE  Capped'
    <3>1. Registered' \subseteq Registered
      BY <2>3 DEF Unregister, Registered, Typed, TypeOK
    <3>2. Cardinality(Registered') <= Cardinality(Registered)
      BY <2>1, <3>1, FS_Subset
    <3>3. Cardinality(Registered') \in Nat
      BY <2>1, <3>1, FS_Subset, FS_CardinalityType
    <3>4. Saved' = Registered' \/ Saved' = Saved
      BY <2>3 DEF Unregister, SaveRegistry, Saved, Registered
    <3> QED
      BY <2>1, <3>2, <3>3, <3>4
  <2>4. CASE Restart
    <3>1. Saved' = Saved
      BY <2>4 DEF Restart, Saved
    <3>2. Registered' = Saved \/ Registered' = {}
      BY <2>4 DEF Restart, LoadPersistedAgents, Registered, Saved
    <3> QED
      BY <3>1, <3>2, FS_EmptySet
  <2>5. CASE ~EntryChange
    BY <2>5, EntriesUnchanged DEF Registered, Saved
  <2> QED
    BY <2>2, <2>3, <2>4, <2>5 DEF EntryChange
<1> QED
  BY <1>2, <1>3, TypedAlways, PTL DEF Spec

-----------------------------------------------------------------------------
(* Start requests *)

StartPoints == {"reset", "launch", "startwait", "started", "startfail"}

\* The handler that will take id out of "starting".
Owner(h, id) == target[h] = id /\ current[h] /\ pc[h] \in StartPoints

\* A step keeps the owner of an agent that is and stays starting, as long as
\* it moves no owner out of the points of Start.
LEMMA OwnerStays ==
    ASSUME StartingOwned,
           \A id \in Agents : state'[id] = "starting" => state[id] = "starting",
           \A id \in Agents, h \in Handlers :
              state'[id] = "starting" /\ Owner(h, id) => Owner(h, id)'
    PROVE  StartingOwned'
BY DEF StartingOwned, Owner, StartPoints

\* An agent that is starting always has a Start request under way that acts
\* on its current entry: Stop, Kill, Unregister and Register of the same agent
\* at any moment, failed calls and restarts never strand it.
THEOREM StartingAlwaysOwned == Spec => []StartingOwned
<1>1. Init => StartingOwned
  BY DEF Init, StartingOwned
<1>2. Typed /\ StartingOwned /\ [Next]_vars => StartingOwned'
  <2> SUFFICES ASSUME Typed, StartingOwned, [Next]_vars
               PROVE  StartingOwned'
    OBVIOUS
  <2> USE DEF Typed, TypeOK, Owner, StartPoints, registry, sandbox, request,
              Goto, Begin, Return
  <2>1. ASSUME NEW id \in Agents, NEW p \in Profiles, Register(id, p)
        PROVE  StartingOwned'
    BY <2>1, OwnerStays DEF Register
  <2>2. ASSUME NEW id \in Agents, RegisterFails(id)
        PROVE  StartingOwned'
    BY <2>2, OwnerStays DEF RegisterFails
  <2>3. ASSUME NEW id \in Agents, Unregister(id)
        PROVE  StartingOwned'
    BY <2>3, OwnerStays DEF Unregister
  <2>4. ASSUME NEW id \in Agents, NEW h \in Handlers, StartClaim(h, id)
        PROVE  StartingOwned'
    <3>1. Owner(h, id)'
      BY <2>4 DEF StartClaim
    <3>2. \A a \in Agents, g \in Handlers : Owner(g, a) => Owner(g, a)'
      BY <2>4 DEF StartClaim
    <3>3. \A a \in Agents : a # id => state'[a] = state[a]
      BY <2>4 DEF StartClaim
    <3> QED
      BY <3>1, <3>2, <3>3 DEF StartingOwned
  <2>5. ASSUME NEW id \in Agents, NEW h \in Handlers, StopClaim(h, id)
        PROVE  StartingOwned'
    BY <2>5, OwnerStays DEF StopClaim
  <2>6. ASSUME NEW id \in Agents, NEW h \in Handlers, KillSignal(h, id)
        PROVE  StartingOwned'
    BY <2>6, OwnerStays DEF KillSignal, Cancelled, Answered
  <2>7. ASSUME NEW id \in Agents, DelayedReset(id) \/ UnitExit(id)
        PROVE  StartingOwned'
    BY <2>7, OwnerStays DEF DelayedReset, UnitExit
  <2>8. ASSUME NEW id \in Agents, JobEnds(id)
        PROVE  StartingOwned'
    BY <2>8, OwnerStays
       DEF JobEnds, UnitActivated, UnitActivationFails, UnitDown, Answered
  <2>9. ASSUME NEW h \in Handlers,
               \/ StartReset(h) \/ StartLaunch(h)
               \/ StartRefused(h) \/ StartReplyLost(h)
        PROVE  StartingOwned'
    BY <2>9, OwnerStays DEF StartReset, StartLaunch, StartRefused, StartReplyLost
  <2>10. ASSUME NEW h \in Handlers,
                StartRecord(h) \/ StartFail(h) \/ StopRecord(h)
         PROVE  StartingOwned'
    <3>1. \A id \in Agents : state'[id] = "starting" =>
             state[id] = "starting" /\ ~(current[h] /\ target[h] = id)
      BY <2>10, RecordedState DEF StartRecord, StartFail, StopRecord, States
    <3>2. \A g \in Handlers : g # h =>
             /\ pc'[g] = pc[g]
             /\ target'[g] = target[g]
             /\ current'[g] = current[g]
      BY <2>10 DEF StartRecord, StartFail, StopRecord
    <3> QED
      BY <3>1, <3>2 DEF StartingOwned
  <2>11. ASSUME NEW h \in Handlers,
                \/ StartAudit(h) \/ StopAudit(h) \/ KillAudit(h)
                \/ StopRefused(h) \/ StopFailedUnit(h)
         PROVE  StartingOwned'
    BY <2>11, OwnerStays
       DEF StartAudit, StopAudit, KillAudit, StopRefused, StopFailedUnit
  <2>12. ASSUME NEW h \in Handlers, StopQueue(h) \/ StopReplyLost(h)
         PROVE  StartingOwned'
    BY <2>12, OwnerStays DEF StopQueue, StopReplyLost, Cancelled, Answered
  <2>13. ASSUME NEW h \in Handlers, KillRecord(h)
         PROVE  StartingOwned'
    BY <2>13, OwnerStays DEF KillRecord
  <2>14. CASE Restart
    BY <2>14 DEF Restart, LoadPersistedAgents, StartingOwned
  <2>15. CASE UNCHANGED vars
    BY <2>15, OwnerStays DEF vars
  <2> QED
    BY <2>1, <2>2, <2>3, <2>4, <2>5, <2>6, <2>7, <2>8, <2>9, <2>10, <2>11,
       <2>12, <2>13, <2>14, <2>15 DEF Next, Step
<1> QED
  BY <1>1, <1>2, TypedAlways, PTL DEF Spec

-----------------------------------------------------------------------------
(* One request at a time *)

\* Neither a D-Bus reply nor the daemon is lost; saves and provisioning may
\* fail.
Clean == Faults \subseteq {"disk"}

\* Clients wait for their answers, and nothing of the above is lost.
Orderly == Serial /\ Clean

\* No two handlers serve the same agent, and the one that serves it holds its
\* entry from the claim to the record.
Apart ==
    /\ \A g, h \in Handlers :
          target[g] = target[h] /\ target[g] \in Agents => g = h
    /\ \A h \in Handlers : pc[h] = "idle" => target[h] = NoAgent
    /\ \A h \in Handlers :
          pc[h] \in StartPoints \cup {"stopcall", "stopwait", "stopped"} =>
             current[h]

Down == {"absent", "deactivating", "failed"}

\* What the state and the unit of an agent are while a handler serves it.  A
\* Start may meet a live unit after a restart or a reply that was lost.
Phase(h, s, u) ==
    /\ pc[h] \in StartPoints => s = "starting"
    /\ Clean /\ pc[h] \in {"reset", "launch", "startfail"} => u \in Down
    /\ pc[h] = "startwait" => u = "activating"
    /\ pc[h] \in {"stopcall", "stopwait", "stopped"} => s = "stopping"
    /\ pc[h] = "stopwait" => u = "deactivating"
    /\ pc[h] = "stopped" => u \in {"absent", "failed"}
    /\ pc[h] \in {"killed", "auditkill"} => u \in Down
    /\ pc[h] = "auditstart" => s = "running"
    /\ pc[h] = "auditstop" => s = "stopped"
    /\ pc[h] # "lost"

\* What they are whoever serves it.
Settled(id) ==
    /\ Clean /\ Alive(id) => state[id] \in {"starting", "running", "stopping"}
    /\ Clean /\ state[id] = "stopping" /\ Quiet(id) => ~Alive(id)
    /\ state[id] = "stopped" => unit[id] \in {"absent", "failed"}

SerialInv ==
    /\ Apart
    /\ \A h \in Handlers : target[h] \in Agents =>
          Phase(h, state[target[h]], unit[target[h]])
    /\ \A id \in Agents : Settled(id)

\* A step that touches one agent and the handlers that serve it.
Local(a) ==
    /\ \A b \in Agents \ {a} : state'[b] = state[b] /\ unit'[b] = unit[b]
    /\ \A h \in Handlers :
          /\ target[h] \in Agents \ {a} <=> target'[h] \in Agents \ {a}
          /\ target[h] \in Agents \ {a} =>
                target'[h] = target[h] /\ pc'[h] = pc[h]

\* Such a step keeps the invariant of all agents when it keeps that agent's.
LEMMA LocalStep ==
    ASSUME SerialInv, NEW a \in Agents, Local(a), Apart', Settled(a)',
           \A h \in Handlers :
              target'[h] = a => Phase(h, state[a], unit[a])'
    PROVE  SerialInv'
<1>1. ASSUME NEW h \in Handlers, target'[h] \in Agents
      PROVE  Phase(h, state[target[h]], unit[target[h]])'
  BY <1>1 DEF SerialInv, Local, Phase
<1>2. ASSUME NEW b \in Agents
      PROVE  Settled(b)'
  BY <1>2 DEF SerialInv, Local, Settled, Alive, Quiet
<1> QED
  BY <1>1, <1>2 DEF SerialInv

\* No unit and no handler: every agent is settled.
LEMMA SerialInit == Init => SerialInv
BY ConstantsAssumption
   DEF Init, SerialInv, Apart, Settled, Alive, StartPoints

\* With one request at a time every step keeps the handlers of an agent apart
\* and its state and unit in the phase its handler expects.
LEMMA SerialStep ==
    ASSUME Serial, Typed, SerialInv, [Next]_vars
    PROVE  SerialInv'
<1> USE ConstantsAssumption
    DEF Clean, Down, Typed, TypeOK, HandlersOK, registry, sandbox, request, Goto,
        Begin, Return, Admitted, Quiet, Alive
<1>0. /\ Apart
      /\ \A h \in Handlers : target[h] \in Agents =>
            Phase(h, state[target[h]], unit[target[h]])
      /\ \A id \in Agents : Settled(id)
  BY DEF SerialInv
<1>1. ASSUME NEW id \in Agents, NEW p \in Profiles, Register(id, p)
      PROVE  SerialInv'
  <2>1. Local(id) /\ Apart' /\ \A h \in Handlers : target'[h] # id
    BY <1>0, <1>1 DEF Register, Local, Apart
  <2>2. Settled(id)'
    BY <1>0, <1>1 DEF Register, CanRegister, Settled
  <2> QED
    BY <2>1, <2>2, LocalStep
<1>2. ASSUME NEW id \in Agents, Unregister(id)
      PROVE  SerialInv'
  <2>1. Local(id) /\ Apart' /\ \A h \in Handlers : target'[h] # id
    BY <1>0, <1>2 DEF Unregister, Local, Apart
  <2>2. Settled(id)'
    BY <1>0, <1>2 DEF Unregister, CanUnregister, Settled
  <2> QED
    BY <2>1, <2>2, LocalStep
<1>3. ASSUME NEW id \in Agents, NEW h \in Handlers, StartClaim(h, id)
      PROVE  SerialInv'
  <2>1. Local(id) /\ Apart' /\ \A g \in Handlers : target'[g] = id => g = h
    BY <1>0, <1>3 DEF StartClaim, Local, Apart, StartPoints
  <2>2. Settled(id)' /\ Phase(h, state[id], unit[id])'
    BY <1>0, <1>3
       DEF StartClaim, CanStart, Settled, Phase, StartPoints, UnitStates
  <2> QED
    BY <2>1, <2>2, LocalStep
<1>4. ASSUME NEW id \in Agents, NEW h \in Handlers, StopClaim(h, id)
      PROVE  SerialInv'
  <2>1. Local(id) /\ Apart' /\ \A g \in Handlers : target'[g] = id => g = h
    BY <1>0, <1>4 DEF StopClaim, Local, Apart, StartPoints
  <2>2. Settled(id)' /\ Phase(h, state[id], unit[id])'
    BY <1>0, <1>4 DEF StopClaim, Settled, Phase, StartPoints
  <2> QED
    BY <2>1, <2>2, LocalStep
<1>5. ASSUME NEW id \in Agents, NEW h \in Handlers, KillSignal(h, id)
      PROVE  SerialInv'
  <2>1. \A g \in Handlers : Cancelled(id)[g] = pc[g]
    BY <1>5 DEF KillSignal, Cancelled, Answered
  <2>2. pc' = [pc EXCEPT ![h] = "killed"]
    BY <1>5, <2>1 DEF KillSignal, Cancelled, Answered
  <2>3. Local(id) /\ Apart' /\ \A g \in Handlers : target'[g] = id => g = h
    BY <1>0, <1>5, <2>2 DEF KillSignal, Local, Apart, StartPoints
  <2>4. Settled(id)' /\ Phase(h, state[id], unit[id])'
    BY <1>0, <1>5, <2>2
       DEF KillSignal, Settled, Phase, StartPoints, UnitStates
  <2> QED
    BY <2>3, <2>4, LocalStep
<1>6. ASSUME NEW id \in Agents, DelayedReset(id) \/ UnitExit(id)
      PROVE  SerialInv'
  <2>1. Local(id) /\ Apart'
    BY <1>0, <1>6 DEF DelayedReset, UnitExit, Local, Apart
  <2>2. Settled(id)'
    BY <1>0, <1>6 DEF DelayedReset, UnitExit, Settled
  <2>3. \A h \in Handlers : target'[h] = id => Phase(h, state[id], unit[id])'
    BY <1>0, <1>6 DEF DelayedReset, UnitExit, Phase
  <2> QED
    BY <2>1, <2>2, <2>3, LocalStep
<1>7. ASSUME NEW id \in Agents, JobEnds(id)
      PROVE  SerialInv'
  <2> USE DEF JobEnds, UnitActivated, UnitActivationFails, UnitDown, Answered
  <2>1. Local(id) /\ Apart'
    BY <1>0, <1>7 DEF Local, Apart, StartPoints
  <2>2. Settled(id)'
    BY <1>0, <1>7 DEF Settled
  <2>3. \A h \in Handlers : target'[h] = id => Phase(h, state[id], unit[id])'
    BY <1>0, <1>7 DEF Phase, StartPoints
  <2> QED
    BY <2>1, <2>2, <2>3, LocalStep
<1>8. ASSUME NEW h \in Handlers, Step(h)
      PROVE  SerialInv'
  <2>0. target[h] \in Agents
    BY <1>8
       DEF Step, StartReset, StartLaunch, StartRefused, StartReplyLost,
           StartRecord, StartFail, StartAudit, StopRefused, StopQueue,
           StopFailedUnit, StopReplyLost, StopRecord, StopAudit, KillRecord,
           KillAudit
  <2>1. PICK id \in Agents : target[h] = id
    BY <2>0
  <2>2. \A g \in Handlers : target[g] = id => g = h
    BY <1>0, <2>1 DEF Apart
  <2>3. Phase(h, state[id], unit[id]) /\ Settled(id)
    BY <1>0, <2>1
  <2>4. CASE StartReset(h) \/ StartLaunch(h) \/ StartRefused(h)
    <3>1. Local(id) /\ Apart' /\ \A g \in Handlers : target'[g] = id => g = h
      BY <1>0, <2>1, <2>2, <2>4
         DEF StartReset, StartLaunch, StartRefused, Launch, Local, Apart,
             StartPoints
    <3>2. Settled(id)' /\ Phase(h, state[id], unit[id])'
      BY <2>1, <2>3, <2>4
         DEF StartReset, StartLaunch, StartRefused, Launch, Settled, Phase,
             StartPoints, UnitStates
    <3> QED
      BY <2>1, <3>1, <3>2, LocalStep
  <2>5. CASE StartRecord(h) \/ StopRecord(h)
    <3>1. current[h]
      BY <1>0, <2>5 DEF StartRecord, StopRecord, Apart, StartPoints
    <3>2. Local(id) /\ Apart' /\ \A g \in Handlers : target'[g] = id => g = h
      BY <1>0, <2>1, <2>2, <2>5, <3>1
         DEF StartRecord, StopRecord, Recorded, Local, Apart, StartPoints
    <3>3. Settled(id)' /\ Phase(h, state[id], unit[id])'
      BY <2>1, <2>3, <2>5, <3>1
         DEF StartRecord, StopRecord, Recorded, Settled, Phase, StartPoints
    <3> QED
      BY <2>1, <3>2, <3>3, LocalStep
  <2>6. CASE StartFail(h)
    <3>1. current[h]
      BY <1>0, <2>6 DEF StartFail, Apart, StartPoints
    <3>2. Local(id) /\ Apart' /\ \A g \in Handlers : target'[g] # id
      BY <1>0, <2>1, <2>2, <2>6, <3>1
         DEF StartFail, Recorded, Local, Apart, StartPoints
    <3>3. Settled(id)'
      BY <2>1, <2>3, <2>6, <3>1
         DEF StartFail, Recorded, Settled, Phase
    <3> QED
      BY <2>1, <3>2, <3>3, LocalStep
  <2>7. CASE StartAudit(h) \/ StopAudit(h) \/ KillAudit(h) \/ StopRefused(h)
    <3>1. Local(id) /\ Apart' /\ \A g \in Handlers : target'[g] # id
      BY <1>0, <2>1, <2>2, <2>7
         DEF StartAudit, StopAudit, KillAudit, StopRefused, Local, Apart,
             StartPoints
    <3>2. Settled(id)'
      BY <2>1, <2>3, <2>7
         DEF StartAudit, StopAudit, KillAudit, StopRefused, Settled, Phase
    <3> QED
      BY <2>1, <3>1, <3>2, LocalStep
  <2>8. CASE StopQueue(h)
    <3>1. pc' = [pc EXCEPT ![h] = "stopwait"]
      BY <2>1, <2>2, <2>8 DEF StopQueue, Cancelled, Answered
    <3>2. Local(id) /\ Apart' /\ \A g \in Handlers : target'[g] = id => g = h
      BY <1>0, <2>1, <2>2, <2>8, <3>1
         DEF StopQueue, StopUnit, Local, Apart, StartPoints
    <3>3. Settled(id)' /\ Phase(h, state[id], unit[id])'
      BY <2>1, <2>3, <2>8, <3>1
         DEF StopQueue, StopUnit, Settled, Phase, StartPoints
    <3> QED
      BY <2>1, <3>2, <3>3, LocalStep
  <2>9. CASE StopFailedUnit(h) \/ KillRecord(h)
    <3>1. Local(id) /\ Apart' /\ \A g \in Handlers : target'[g] = id => g = h
      BY <1>0, <2>1, <2>2, <2>9
         DEF StopFailedUnit, KillRecord, Local, Apart, StartPoints
    <3>2. Settled(id)' /\ Phase(h, state[id], unit[id])'
      BY <2>1, <2>3, <2>9
         DEF StopFailedUnit, KillRecord, Settled, Phase, StartPoints
    <3> QED
      BY <2>1, <3>1, <3>2, LocalStep
  <2>10. CASE StartReplyLost(h)
    <3>1. Local(id) /\ Apart' /\ \A g \in Handlers : target'[g] = id => g = h
      BY <1>0, <2>1, <2>2, <2>10
         DEF StartReplyLost, Launch, Local, Apart, StartPoints
    <3>2. Settled(id)' /\ Phase(h, state[id], unit[id])'
      BY <2>1, <2>3, <2>10
         DEF StartReplyLost, Launch, Settled, Phase, StartPoints
    <3> QED
      BY <2>1, <3>1, <3>2, LocalStep
  <2>11. CASE StopReplyLost(h)
    <3>1. pc' = [pc EXCEPT ![h] = "idle"]
      BY <2>1, <2>2, <2>11 DEF StopReplyLost, Cancelled, Answered
    <3>2. Local(id) /\ Apart' /\ \A g \in Handlers : target'[g] # id
      BY <1>0, <2>1, <2>2, <2>11, <3>1
         DEF StopReplyLost, StopUnit, Local, Apart, StartPoints
    <3>3. Settled(id)'
      BY <2>1, <2>3, <2>11, <3>1
         DEF StopReplyLost, StopUnit, Settled, Phase
    <3> QED
      BY <2>1, <3>2, <3>3, LocalStep
  <2> QED
    BY <1>8, <2>4, <2>5, <2>6, <2>7, <2>8, <2>9, <2>10, <2>11 DEF Step
<1>9. CASE Restart
  <2>1. \A id \in Agents : state'[id] \in {"none", "registered"}
    BY <1>9 DEF Restart, LoadPersistedAgents
  <2> QED
    BY <1>9, <2>1 DEF Restart, SerialInv, Apart, Settled, StartPoints
<1>10. CASE UNCHANGED <<state, unit, pc, target, current>>
  BY <1>0, <1>10 DEF SerialInv, Apart, Settled, Phase
<1> QED
  BY <1>1, <1>2, <1>3, <1>4, <1>5, <1>6, <1>7, <1>8, <1>9, <1>10
     DEF Next, RegisterFails, vars

\* The invariant behind the theorems below: one handler at most for each
\* agent, and its state and unit in the phase that handler is in.
LEMMA SerialAlways == Serial => (Spec => []SerialInv)
<1> SUFFICES ASSUME Serial
             PROVE  Spec => []SerialInv
  OBVIOUS
<1>1. Typed /\ SerialInv /\ [Next]_vars => SerialInv'
  BY SerialStep
<1> QED
  BY <1>1, SerialInit, TypedAlways, PTL DEF Spec

\* With one request at a time no sandbox is ever left alive under a record
\* that says otherwise, whatever jobs fail, agents exit and saves go wrong.
THEOREM SandboxAlwaysAccounted == Orderly => (Spec => []SandboxAccounted)
<1> SUFFICES ASSUME Orderly
             PROVE  Spec => []SandboxAccounted
  OBVIOUS
<1>1. SerialInv => SandboxAccounted
  BY DEF Orderly, SerialInv, Settled, SandboxAccounted
<1> QED
  BY <1>1, SerialAlways, PTL DEF Orderly

\* With one request at a time a Stop that has been answered means that the
\* unit has ended, and it stays ended until the next Start: also when replies
\* are lost and the daemon restarts in between.
THEOREM StoppedAlwaysDown == Serial => (Spec => []StoppedIsDown)
<1> SUFFICES ASSUME Serial
             PROVE  Spec => []StoppedIsDown
  OBVIOUS
<1>1. SerialInv => StoppedIsDown
  BY DEF SerialInv, Settled, StoppedIsDown
<1> QED
  BY <1>1, SerialAlways, PTL

\* With one request at a time the limit on registrations bounds the live
\* sandboxes too, whatever fails.
THEOREM RunningAlwaysCapped == Orderly => (Spec => []RunningCapped)
<1> SUFFICES ASSUME Orderly
             PROVE  Spec => []RunningCapped
  OBVIOUS
<1>1. Typed /\ SandboxAccounted /\ RegistrationsCapped => RunningCapped
  <2> SUFFICES ASSUME Typed, SandboxAccounted, RegistrationsCapped, MaxAgents > 0
               PROVE  Cardinality({id \in Agents : Alive(id)}) <= MaxAgents
    BY DEF RunningCapped
  <2> DEFINE up == {id \in Agents : Alive(id)}
  <2>1. up \subseteq Registered
    BY DEF SandboxAccounted, Registered, Typed, TypeOK
  <2>2. IsFiniteSet(Registered)
    BY ConstantsAssumption, FS_Subset DEF Registered
  <2>3. /\ IsFiniteSet(up)
        /\ Cardinality(up) <= Cardinality(Registered)
    BY <2>1, <2>2, FS_Subset
  <2>4. Cardinality(up) \in Nat /\ Cardinality(Registered) \in Nat
    BY <2>2, <2>3, FS_CardinalityType
  <2>5. Cardinality(Registered) <= MaxAgents
    BY DEF RegistrationsCapped
  <2> QED
    BY <2>3, <2>4, <2>5, ConstantsAssumption
<1> QED
  BY <1>1, TypedAlways, SandboxAlwaysAccounted, CapAlwaysHolds, PTL

-----------------------------------------------------------------------------
(* Profiles, workspaces and the audit trail, one request at a time *)

\* Every entry has a workspace, a Start still holds the profile of the entry
\* it will launch for, and a live unit was launched with it.
Launched ==
    /\ \A id \in Agents : profile[id] # NoProfile => id \in workspaces
    /\ \A h \in Handlers :
          pc[h] \in {"reset", "launch"} => launching[h] = profile[target[h]]
    /\ \A id \in Agents : Alive(id) => unitProfile[id] = profile[id]

\* A killed agent keeps its state, or stays without one, until the kill is
\* logged, and the trail of an agent that nobody serves tells its state.
Trail ==
    /\ AuditAgrees
    /\ \A h \in Handlers :
          pc[h] = "auditkill" => state[target[h]] \in {"none", "killed"}

\* What an entry and a live unit were set up with never comes apart: an entry
\* changes only while its unit is down and no Start is under way.
LEMMA LaunchedStep ==
    ASSUME Orderly, Typed, SerialInv, Launched, [Next]_vars
    PROVE  Launched'
<1> USE ConstantsAssumption
    DEF Orderly, Clean, Typed, TypeOK, HandlersOK, registry, sandbox, request,
        Goto, Begin, Return, Alive, Launched
<1>0. /\ \A h \in Handlers : pc[h] \in {"reset", "launch"} =>
            state[target[h]] = "starting" /\ target[h] \in Agents
      /\ \A id \in Agents :
            Alive(id) => state[id] \in {"starting", "running", "stopping"}
      /\ \A g, h \in Handlers :
            target[g] = target[h] /\ target[g] \in Agents => g = h
  BY DEF SerialInv, Phase, Settled, StartPoints, Apart
<1>1. ASSUME NEW id \in Agents, NEW p \in Profiles, Register(id, p)
      PROVE  Launched'
  BY <1>0, <1>1 DEF Register, CanRegister
<1>2. ASSUME NEW id \in Agents, Unregister(id)
      PROVE  Launched'
  <2>1. ~Alive(id) /\ \A h \in Handlers :
           pc[h] \in {"reset", "launch"} => target[h] # id
    BY <1>0, <1>2 DEF Unregister, CanUnregister
  <2> QED
    BY <1>2, <2>1 DEF Unregister
<1>3. ASSUME NEW id \in Agents, NEW h \in Handlers,
             StartClaim(h, id) \/ StopClaim(h, id)
      PROVE  Launched'
  BY <1>3 DEF StartClaim, StopClaim
<1>4. ASSUME NEW id \in Agents, NEW h \in Handlers, KillSignal(h, id)
      PROVE  Launched'
  BY <1>4 DEF KillSignal, Cancelled, Answered
<1>5. ASSUME NEW id \in Agents,
             DelayedReset(id) \/ UnitExit(id) \/ JobEnds(id) \/ RegisterFails(id)
      PROVE  Launched'
  BY <1>5 DEF DelayedReset, UnitExit, JobEnds, UnitActivated,
              UnitActivationFails, UnitDown, Answered, RegisterFails
<1>6. ASSUME NEW h \in Handlers, StartReset(h) \/ StartLaunch(h)
      PROVE  Launched'
  BY <1>0, <1>6 DEF StartReset, StartLaunch, Launch
<1>7. ASSUME NEW h \in Handlers,
             \/ StartRefused(h) \/ StartRecord(h) \/ StartFail(h)
             \/ StartAudit(h) \/ StopRefused(h) \/ StopFailedUnit(h)
             \/ StopRecord(h) \/ StopAudit(h) \/ KillRecord(h) \/ KillAudit(h)
      PROVE  Launched'
  BY <1>7 DEF StartRefused, StartRecord, StartFail, StartAudit, StopRefused,
              StopFailedUnit, StopRecord, StopAudit, KillRecord, KillAudit
<1>8. ASSUME NEW h \in Handlers, StopQueue(h)
      PROVE  Launched'
  BY <1>8 DEF StopQueue, StopUnit, Cancelled, Answered
<1>9. CASE UNCHANGED vars
  BY <1>9 DEF vars
<1> QED
  BY <1>1, <1>2, <1>3, <1>4, <1>5, <1>6, <1>7, <1>8, <1>9
     DEF Next, Step, Restart, StartReplyLost, StopReplyLost

\* Each entry has a workspace, and each live unit the profile of its entry,
\* from the first state on.
LEMMA LaunchedAlways == Orderly => (Spec => []Launched)
<1> SUFFICES ASSUME Orderly
             PROVE  Spec => []Launched
  OBVIOUS
<1>1. Init => Launched
  BY ConstantsAssumption DEF Init, Launched, Alive
<1>2. Typed /\ SerialInv /\ Launched /\ [Next]_vars => Launched'
  BY LaunchedStep
<1> QED
  BY <1>1, <1>2, SerialAlways, TypedAlways, PTL DEF Spec, Orderly

\* With one request at a time the policy engine always decides about a live
\* agent by the profile its sandbox was built from, although Start reads the
\* profile long before systemd launches the unit, and no purge takes the
\* workspace of a live agent.
THEOREM SandboxAlwaysAsRecorded == Orderly => (Spec => []SandboxAsRecorded)
<1> SUFFICES ASSUME Orderly
             PROVE  Spec => []SandboxAsRecorded
  OBVIOUS
<1>1. ASSUME Typed, Launched, PolicyInSync, SandboxAccounted
      PROVE  SandboxAsRecorded
  BY <1>1 DEF Typed, TypeOK, Launched, PolicyInSync, SandboxAccounted,
              SandboxAsRecorded
<1> QED
  BY <1>1, TypedAlways, LaunchedAlways, PolicyAlwaysInSync,
     SandboxAlwaysAccounted, PTL

\* A step that leaves states and trail alone, and frees no agent and reaches
\* no kill's audit, keeps the trail.
LEMMA TrailKept ==
    ASSUME Typed, Trail, UNCHANGED <<state, audit>>,
           \A id \in Agents : Quiet(id)' => Quiet(id),
           \A h \in Handlers : pc'[h] = "auditkill" =>
              pc[h] = "auditkill" /\ target'[h] = target[h]
    PROVE  Trail'
BY DEF Trail, AuditAgrees

\* Each answer leaves the trail with the event its state comes from.
LEMMA TrailStep ==
    ASSUME Serial, "crash" \notin Faults, Typed, SerialInv, Trail, [Next]_vars
    PROVE  Trail'
<1> USE ConstantsAssumption
    DEF Typed, TypeOK, HandlersOK, registry, sandbox, request, Goto,
        Begin, Return, Admitted, Quiet
<1>0. /\ \A g, h \in Handlers :
            target[g] = target[h] /\ target[g] \in Agents => g = h
      /\ \A h \in Handlers : pc[h] = "idle" => target[h] = NoAgent
      /\ \A h \in Handlers : pc[h] \in {"started", "startfail", "stopped"} =>
            current[h]
      /\ \A h \in Handlers : target[h] \in Agents =>
            /\ pc[h] = "stopcall" => state[target[h]] = "stopping"
            /\ pc[h] = "auditstart" => state[target[h]] = "running"
            /\ pc[h] = "auditstop" => state[target[h]] = "stopped"
  BY DEF SerialInv, Apart, Phase, StartPoints
<1>1. ASSUME NEW id \in Agents, NEW p \in Profiles, Register(id, p)
      PROVE  Trail'
  BY <1>0, <1>1 DEF Register, Logged, Trail, AuditAgrees
<1>2. ASSUME NEW id \in Agents, Unregister(id)
      PROVE  Trail'
  BY <1>0, <1>2 DEF Unregister, Logged, Trail, AuditAgrees
<1>3. ASSUME NEW id \in Agents, NEW h \in Handlers,
             StartClaim(h, id) \/ StopClaim(h, id)
      PROVE  Trail'
  BY <1>0, <1>3 DEF StartClaim, StopClaim, Trail, AuditAgrees
<1>4. ASSUME NEW id \in Agents, NEW h \in Handlers, KillSignal(h, id)
      PROVE  Trail'
  BY <1>0, <1>4, TrailKept DEF KillSignal, Cancelled, Answered
<1>5. ASSUME NEW id \in Agents,
             DelayedReset(id) \/ UnitExit(id) \/ RegisterFails(id)
      PROVE  Trail'
  BY <1>5, TrailKept DEF DelayedReset, UnitExit, RegisterFails
<1>12. ASSUME NEW id \in Agents, JobEnds(id)
       PROVE  Trail'
  <2>1. UNCHANGED <<state, audit, target>>
    BY <1>12 DEF JobEnds, UnitActivated, UnitActivationFails, UnitDown
  <2>2. PICK from, to \in Points \ {"auditkill"} :
           pc' = Answered(pc, id, from, to)
    BY <1>12 DEF JobEnds, UnitActivated, UnitActivationFails, UnitDown, Points
  <2>3. \A h \in Handlers : pc'[h] = "auditkill" => pc[h] = "auditkill"
    BY <2>2 DEF Answered
  <2> QED
    BY <2>1, <2>3, TrailKept
<1>6. ASSUME NEW h \in Handlers,
             \/ StartReset(h) \/ StartLaunch(h) \/ StartRefused(h)
             \/ StopFailedUnit(h)
      PROVE  Trail'
  BY <1>6, TrailKept
     DEF StartReset, StartLaunch, StartRefused, StopFailedUnit
<1>13. ASSUME NEW h \in Handlers, StopQueue(h)
       PROVE  Trail'
  BY <1>13, TrailKept DEF StopQueue, Cancelled, Answered
<1>7. ASSUME NEW h \in Handlers, StartRecord(h) \/ StopRecord(h)
      PROVE  Trail'
  BY <1>0, <1>7 DEF StartRecord, StopRecord, Recorded, Trail, AuditAgrees
<1>8. ASSUME NEW h \in Handlers, KillRecord(h)
      PROVE  Trail'
  BY <1>0, <1>8 DEF KillRecord, Trail, AuditAgrees
<1>9. ASSUME NEW h \in Handlers, StartFail(h) \/ StopRefused(h)
      PROVE  Trail'
  <2>1. CASE StartFail(h)
    BY <1>0, <2>1 DEF StartFail, Recorded, Trail, AuditAgrees
  <2>2. CASE StopRefused(h)
    BY <1>0, <2>2 DEF StopRefused, Trail, AuditAgrees
  <2> QED
    BY <1>9, <2>1, <2>2
<1>10. ASSUME NEW h \in Handlers, StartAudit(h) \/ StopAudit(h) \/ KillAudit(h)
       PROVE  Trail'
  <2>1. CASE StartAudit(h)
    BY <1>0, <2>1 DEF StartAudit, Logged, Trail, AuditAgrees
  <2>2. CASE StopAudit(h)
    BY <1>0, <2>2 DEF StopAudit, Logged, Trail, AuditAgrees
  <2>3. CASE KillAudit(h)
    BY <1>0, <2>3 DEF KillAudit, Logged, Trail, AuditAgrees
  <2> QED
    BY <1>10, <2>1, <2>2, <2>3
<1>11. CASE UNCHANGED vars
  BY <1>11, TrailKept DEF vars
<1>14. ASSUME NEW h \in Handlers, StartReplyLost(h)
       PROVE  Trail'
  BY <1>14, TrailKept DEF StartReplyLost
<1>15. ASSUME NEW h \in Handlers, StopReplyLost(h)
       PROVE  Trail'
  <2>1. pc' = [pc EXCEPT ![h] = "idle"]
    BY <1>0, <1>15 DEF StopReplyLost, Cancelled, Answered
  <2> QED
    BY <1>0, <1>15, <2>1 DEF StopReplyLost, Trail, AuditAgrees
<1> QED
  BY <1>1, <1>2, <1>3, <1>4, <1>5, <1>6, <1>7, <1>8, <1>9, <1>10,
     <1>11, <1>12, <1>13, <1>14, <1>15 DEF Next, Step, Restart

\* With one request at a time the audit trail ends with the event that an
\* idle agent's state comes from, also when replies are lost: events are logged
\* after the lock is released, and none is overtaken or missing.
THEOREM AuditAlwaysAgrees ==
    Serial /\ "crash" \notin Faults => (Spec => []AuditAgrees)
<1> SUFFICES ASSUME Serial, "crash" \notin Faults
             PROVE  Spec => []AuditAgrees
  OBVIOUS
<1>1. Init => Trail
  BY ConstantsAssumption DEF Init, Trail, AuditAgrees
<1>2. Typed /\ SerialInv /\ Trail /\ [Next]_vars => Trail'
  BY TrailStep
<1>3. Trail => AuditAgrees
  BY DEF Trail
<1> QED
  BY <1>1, <1>2, <1>3, TypedAlways, SerialAlways, PTL DEF Spec

-----------------------------------------------------------------------------
(* The contract *)

Up == {id \in Agents : Alive(id)}

\* The manager implements AgentContract with one request at a time: every
\* step adds, removes, launches or ends one agent as the contract allows, or
\* is invisible to it.
THEOREM ManagerKeepsContract == Orderly => (Spec => ImplementsContract)
<1> SUFFICES ASSUME Orderly
             PROVE  Spec => ImplementsContract
  OBVIOUS
<1>1. Init => Contract!Init
  BY DEF Init, Contract!Init, Registered, Alive
<1>2. Typed /\ SerialInv /\ [Next]_vars => [Contract!Next]_(Contract!vars)
  <2> SUFFICES ASSUME Typed, SerialInv, [Next]_vars
               PROVE  [Contract!Next]_(Contract!vars)
    OBVIOUS
  <2> USE ConstantsAssumption
      DEF Orderly, Clean, Typed, TypeOK, HandlersOK, registry, sandbox,
          request, Alive, Registered
  <2>1. /\ \A id \in Agents : Settled(id)
        /\ \A h \in Handlers : pc[h] = "launch" => current[h]
    BY DEF SerialInv, Apart, StartPoints
  <2>2. ASSUME NEW id \in Agents, NEW p \in Profiles, Register(id, p)
        PROVE  Contract!Next
    <3>1. Contract!Add(id)
      BY <2>2 DEF Register, CanRegister, Contract!Add
    <3> QED
      BY <3>1 DEF Contract!Next
  <2>3. ASSUME NEW id \in Agents, Unregister(id)
        PROVE  Contract!Next
    <3>1. Contract!Remove(id)
      BY <2>1, <2>3 DEF Unregister, CanUnregister, Settled, Contract!Remove
    <3> QED
      BY <3>1 DEF Contract!Next
  <2>4. ASSUME NEW h \in Handlers, StartLaunch(h)
        PROVE  Contract!Next
    <3>1. PICK id \in Agents : target[h] = id /\ id \in Registered
      BY <2>1, <2>4 DEF StartLaunch
    <3>2. Contract!Launch(id)
      BY <2>4, <3>1 DEF StartLaunch, Launch, Contract!Launch
    <3> QED
      BY <3>2 DEF Contract!Next
  <2>5. ASSUME NEW id \in Agents, UNCHANGED profile,
               unit' = [unit EXCEPT ![id] = unit'[id]],
               unit'[id] \notin {"activating", "active"}
        PROVE  [Contract!Next]_(Contract!vars)
    <3>1. CASE Alive(id)
      <4>1. Contract!Down(id)
        BY <2>5, <3>1 DEF Contract!Down
      <4> QED
        BY <4>1 DEF Contract!Next
    <3>2. CASE ~Alive(id)
      BY <2>5, <3>2 DEF Contract!vars
    <3> QED
      BY <3>1, <3>2
  <2>6. ASSUME NEW id \in Agents, NEW h \in Handlers, KillSignal(h, id)
        PROVE  [Contract!Next]_(Contract!vars)
    BY <2>5, <2>6 DEF KillSignal
  <2>7. ASSUME NEW id \in Agents,
               UnitExit(id) \/ UnitActivationFails(id) \/ UnitDown(id)
        PROVE  [Contract!Next]_(Contract!vars)
    BY <2>5, <2>7 DEF UnitExit, UnitActivationFails, UnitDown
  <2>8. ASSUME NEW h \in Handlers, StopQueue(h)
        PROVE  [Contract!Next]_(Contract!vars)
    <3>1. target[h] \in Agents
      BY <2>8 DEF StopQueue
    <3> QED
      BY <2>5, <2>8, <3>1 DEF StopQueue, StopUnit
  <2>9. ASSUME UNCHANGED profile,
               \A id \in Agents : Alive(id)' <=> Alive(id)
        PROVE  UNCHANGED Contract!vars
    BY <2>9 DEF Contract!vars
  <2>10. ASSUME NEW id \in Agents, DelayedReset(id) \/ UnitActivated(id)
         PROVE  UNCHANGED Contract!vars
    BY <2>9, <2>10 DEF DelayedReset, UnitActivated
  <2>11. ASSUME NEW h \in Handlers, StartReset(h)
         PROVE  UNCHANGED Contract!vars
    BY <2>9, <2>11 DEF StartReset
  <2>12. CASE UNCHANGED <<profile, unit>>
    BY <2>9, <2>12
  <2> QED
    BY <2>2, <2>3, <2>4, <2>6, <2>7, <2>8, <2>10, <2>11, <2>12
       DEF Next, Step, JobEnds, Restart, vars, RegisterFails, StartClaim,
           StopClaim, StartRefused, StartReplyLost, StartRecord, StartFail,
           StartAudit, StopRefused, StopFailedUnit, StopReplyLost, StopRecord,
           StopAudit, KillRecord, KillAudit
<1> QED
  BY <1>1, <1>2, TypedAlways, SerialAlways, PTL
     DEF Spec, Orderly, ImplementsContract, Contract!Spec

\* What Unregister documents holds for clients that do not overlap requests:
\* the state it looks at tells it that the sandbox is down.  Without Orderly
\* it is false: two Starts and a Stop that overlap can leave a live unit
\* under a failed record.
THEOREM RemovedOnlyWhenDown == Orderly => (Spec => UnregisterOnlyWhenDown)
<1> SUFFICES ASSUME Orderly
             PROVE  Spec => UnregisterOnlyWhenDown
  OBVIOUS
<1> DEFINE Removal == \A id \in Agents :
               profile[id] # NoProfile /\ profile'[id] = NoProfile => ~Alive(id)
<1>1. Typed /\ SerialInv /\ [Next]_vars => [Removal]_vars
  <2> SUFFICES ASSUME Typed, SerialInv, Next, NEW id \in Agents,
                      profile[id] # NoProfile, profile'[id] = NoProfile
               PROVE  ~Alive(id)
    OBVIOUS
  <2>1. ASSUME NEW a \in Agents, NEW p \in Profiles, Register(a, p)
        PROVE  FALSE
    BY <2>1, ConstantsAssumption DEF Register, Typed, TypeOK
  <2>2. ASSUME NEW a \in Agents, Unregister(a)
        PROVE  CanUnregister(id)
    BY <2>2 DEF Unregister, Typed, TypeOK
  <2>3. ~Restart
    BY DEF Restart, Orderly, Clean
  <2>4. CanUnregister(id)
    BY <2>1, <2>2, <2>3, EntriesUnchanged DEF EntryChange
  <2>5. Settled(id)
    BY DEF SerialInv
  <2> QED
    BY <2>4, <2>5 DEF CanUnregister, Settled, Orderly
<1> HIDE DEF Removal
<1>2. Spec => [][Removal]_vars
  BY <1>1, TypedAlways, SerialAlways, PTL DEF Spec, Orderly
<1> QED
  BY <1>2 DEF Removal, UnregisterOnlyWhenDown
=============================================================================
