------------------------- MODULE AgentOverlapProofs -------------------------
(***************************************************************************)
(* Theorems about AgentLifecycle that ask nothing of clients and faults:   *)
(* what holds although requests about one agent overlap, replies are lost  *)
(* and the daemon restarts.                                                *)
(***************************************************************************)
EXTENDS AgentLifecycleProofs

-----------------------------------------------------------------------------
(* Whom systemd answers *)

Waits == {"startwait", "stopwait"}

\* A request that waits for a job waits for one that is there: a start job of
\* the sandbox it has launched itself, or a stop job; and no two requests wait
\* for the same one.
JobsAwaited ==
    /\ \A h \in Handlers : pc[h] = "startwait" =>
          /\ unit[target[h]] = "activating"
          /\ unitProfile[target[h]] = launching[h]
    /\ \A h \in Handlers : pc[h] = "stopwait" => unit[target[h]] = "deactivating"
    /\ \A g, h \in Handlers :
          pc[g] \in Waits /\ pc[h] = pc[g] /\ target[h] = target[g] => g = h

\* A Start that is to launch a sandbox knows the profile to launch it with, and
\* a sandbox with processes was launched with one.
ProfilesGiven ==
    /\ \A h \in Handlers : pc[h] \in {"reset", "launch"} => launching[h] \in Profiles
    /\ \A id \in Agents : HasProcesses(id) => unitProfile[id] \in Profiles

\* A step that leaves the units alone and makes nobody wait, and that gives a
\* Start its profile with its claim.
LEMMA UnitsUnchanged ==
    ASSUME JobsAwaited, ProfilesGiven, UNCHANGED <<unit, unitProfile>>,
           \A h \in Handlers : pc'[h] \in Waits =>
              pc'[h] = pc[h] /\ UNCHANGED <<target[h], launching[h]>>,
           \A h \in Handlers : pc'[h] \in {"reset", "launch"} => launching'[h] \in Profiles
    PROVE  JobsAwaited' /\ ProfilesGiven'
BY DEF JobsAwaited, ProfilesGiven, HasProcesses, Waits

\* Answered moves those that wait at `from` for the agent, and only them.
LEMMA AnsweredWho ==
    ASSUME NEW points \in [Handlers -> Points], NEW id, NEW from, NEW to,
           NEW g \in Handlers
    PROVE  Answered(points, id, from, to)[g] =
              IF points[g] = from /\ target[g] = id THEN to ELSE points[g]
BY DEF Answered

\* Where the handlers are once a unit of id is told to go down by h: the Starts
\* that wait for it fail.
StartsFail(h, id) ==
    \A g \in Handlers \ {h} :
        pc'[g] = IF pc[g] = "startwait" /\ target[g] = id THEN "startfail" ELSE pc[g]

\* A Kill cancels the start job of its unit.
LEMMA KillMoves ==
    ASSUME Typed, NEW h \in Handlers, NEW id \in Agents, KillSignal(h, id)
    PROVE  pc[h] = "idle" /\ pc'[h] = "killed" /\ StartsFail(h, id)
BY AnsweredPoints, AnsweredWho
   DEF Typed, TypeOK, KillSignal, Cancelled, StartsFail, Points

\* So does a Stop whose reply is lost, if systemd has seen it.
LEMMA StopLostMoves ==
    ASSUME Typed, NEW h \in Handlers, StopReplyLost(h)
    PROVE  /\ pc[h] = "stopcall" /\ pc'[h] = "idle"
           /\ \/ StopUnit(target[h]) /\ StartsFail(h, target[h])
              \/ UNCHANGED unit /\ \A g \in Handlers \ {h} : pc'[g] = pc[g]
<1>1. CASE StopUnit(target[h]) /\ pc' = [Cancelled(target[h]) EXCEPT ![h] = "idle"]
  BY <1>1, AnsweredPoints, AnsweredWho
     DEF Typed, TypeOK, StopReplyLost, Cancelled, StartsFail, Points
<1>2. CASE UNCHANGED unit /\ Goto(h, "idle")
  BY <1>2 DEF Typed, TypeOK, StopReplyLost, Goto
<1> QED
  BY <1>1, <1>2 DEF StopReplyLost

\* A Stop that is queued also takes the answer of the one it joins.
LEMMA StopMoves ==
    ASSUME Typed, NEW h \in Handlers, StopQueue(h)
    PROVE  /\ pc[h] = "stopcall" /\ pc'[h] = "stopwait"
           /\ \A g \in Handlers \ {h} :
                 pc'[g] = CASE pc[g] = "startwait" /\ target[g] = target[h] -> "startfail"
                            [] pc[g] = "stopwait" /\ target[g] = target[h] -> "lost"
                            [] OTHER -> pc[g]
<1> DEFINE cancelled == Cancelled(target[h])
           joined == Answered(cancelled, target[h], "stopwait", "lost")
<1>1. cancelled \in [Handlers -> Points] /\ joined \in [Handlers -> Points]
  BY AnsweredPoints DEF Typed, TypeOK, Cancelled, Points
<1>2. pc[h] = "stopcall" /\ pc' = [joined EXCEPT ![h] = "stopwait"]
  BY DEF StopQueue
<1>3. ASSUME NEW g \in Handlers
      PROVE  joined[g] = CASE pc[g] = "startwait" /\ target[g] = target[h] -> "startfail"
                           [] pc[g] = "stopwait" /\ target[g] = target[h] -> "lost"
                           [] OTHER -> pc[g]
  <2>1. cancelled[g] = IF pc[g] = "startwait" /\ target[g] = target[h]
                       THEN "startfail" ELSE pc[g]
    BY AnsweredWho DEF Typed, TypeOK, Cancelled
  <2>2. joined[g] = IF cancelled[g] = "stopwait" /\ target[g] = target[h]
                    THEN "lost" ELSE cancelled[g]
    BY <1>1, AnsweredWho
  <2> QED
    BY <2>1, <2>2
<1> QED
  BY <1>1, <1>2, <1>3

\* Nobody waits at the beginning.
LEMMA AwaitedInit == Init => JobsAwaited /\ ProfilesGiven
BY DEF Init, JobsAwaited, ProfilesGiven, HasProcesses, Waits

\* No step, of whatever request, unit or restart, takes a job away from the
\* request that waits for it without an answer.
LEMMA AwaitedStep ==
    ASSUME Typed, JobsAwaited, ProfilesGiven, [Next]_vars
    PROVE  JobsAwaited' /\ ProfilesGiven'
<1> USE ConstantsAssumption
    DEF Typed, TypeOK, HandlersOK, registry, sandbox, request, Goto, Begin,
        Return, Waits
<1>1. ASSUME NEW id \in Agents,
             (\E p \in Profiles : Register(id, p)) \/ RegisterFails(id) \/ Unregister(id)
      PROVE  JobsAwaited' /\ ProfilesGiven'
  <2>1. UNCHANGED <<unit, unitProfile, pc, target, launching>>
    BY <1>1 DEF Register, RegisterFails, Unregister
  <2> QED
    BY <2>1, UnitsUnchanged DEF ProfilesGiven
<1>2. ASSUME NEW id \in Agents, NEW h \in Handlers,
             StartClaim(h, id) \/ StopClaim(h, id)
      PROVE  JobsAwaited' /\ ProfilesGiven'
  <2>1. StartClaim(h, id) => profile[id] \in Profiles
    BY DEF StartClaim, CanStart
  <2> QED
    BY <1>2, <2>1, UnitsUnchanged DEF StartClaim, StopClaim, ProfilesGiven
<1>3. ASSUME NEW id \in Agents, NEW h \in Handlers, KillSignal(h, id)
      PROVE  JobsAwaited' /\ ProfilesGiven'
  <2>1. \A g \in Handlers : pc'[g] \in Waits \cup {"reset", "launch"} =>
           /\ pc'[g] = pc[g] /\ UNCHANGED <<target[g], launching[g]>>
           /\ ~(pc[g] = "startwait" /\ target[g] = id)
    <3>1. pc'[h] = "killed" /\ StartsFail(h, id)
      BY <1>3, KillMoves
    <3>2. \A g \in Handlers \ {h} : UNCHANGED <<target[g], launching[g]>>
      BY <1>3 DEF KillSignal
    <3> QED
      BY <3>1, <3>2 DEF StartsFail
  <2>2. /\ unit' = [unit EXCEPT ![id] = unit'[id]] /\ UNCHANGED unitProfile
        /\ unit'[id] = "deactivating" \/ unit'[id] = unit[id]
        /\ HasProcesses(id)' <=> HasProcesses(id)
    BY <1>3 DEF KillSignal, Alive, HasProcesses
  <2>3. JobsAwaited'
    BY <2>1, <2>2 DEF JobsAwaited
  <2>4. ProfilesGiven'
    BY <2>1, <2>2 DEF ProfilesGiven, HasProcesses
  <2> QED
    BY <2>3, <2>4
<1>4. ASSUME NEW id \in Agents, DelayedReset(id) \/ UnitExit(id)
      PROVE  JobsAwaited' /\ ProfilesGiven'
  BY <1>4 DEF DelayedReset, UnitExit, JobsAwaited, ProfilesGiven, HasProcesses
<1>5. ASSUME NEW id \in Agents, JobEnds(id)
      PROVE  JobsAwaited' /\ ProfilesGiven'
  <2>1. CASE UnitActivated(id) \/ UnitActivationFails(id)
    <3>1. \A g \in Handlers : pc'[g] \in Waits =>
             pc'[g] = pc[g] /\ ~(pc[g] = "startwait" /\ target[g] = id)
      BY <2>1, AnsweredWho DEF UnitActivated, UnitActivationFails
    <3>2. \A g \in Handlers : pc'[g] \in {"reset", "launch"} => pc'[g] = pc[g]
      BY <2>1, AnsweredWho DEF UnitActivated, UnitActivationFails
    <3> QED
      BY <2>1, <3>1, <3>2
         DEF UnitActivated, UnitActivationFails, JobsAwaited, ProfilesGiven,
             HasProcesses
  <2>2. CASE UnitDown(id)
    <3>1. \A g \in Handlers : pc'[g] \in Waits =>
             pc'[g] = pc[g] /\ ~(pc[g] = "stopwait" /\ target[g] = id)
      BY <2>2, AnsweredWho DEF UnitDown
    <3>2. \A g \in Handlers : pc'[g] \in {"reset", "launch"} => pc'[g] = pc[g]
      BY <2>2, AnsweredWho DEF UnitDown
    <3> QED
      BY <2>2, <3>1, <3>2 DEF UnitDown, JobsAwaited, ProfilesGiven, HasProcesses
  <2> QED
    BY <1>5, <2>1, <2>2 DEF JobEnds
<1>6. ASSUME NEW h \in Handlers, StartReset(h)
      PROVE  JobsAwaited' /\ ProfilesGiven'
  BY <1>6 DEF StartReset, JobsAwaited, ProfilesGiven, HasProcesses
<1>7. ASSUME NEW h \in Handlers, StartLaunch(h)
      PROVE  JobsAwaited' /\ ProfilesGiven'
  BY <1>7 DEF StartLaunch, Launch, JobsAwaited, ProfilesGiven, HasProcesses
<1>8. ASSUME NEW h \in Handlers, StartReplyLost(h)
      PROVE  JobsAwaited' /\ ProfilesGiven'
  BY <1>8 DEF StartReplyLost, Launch, JobsAwaited, ProfilesGiven, HasProcesses
<1>9. ASSUME NEW h \in Handlers,
             \/ StartRefused(h) \/ StartRecord(h) \/ StartFail(h) \/ StartAudit(h)
             \/ StopRefused(h) \/ StopFailedUnit(h) \/ StopRecord(h)
             \/ StopAudit(h) \/ KillRecord(h) \/ KillAudit(h)
      PROVE  JobsAwaited' /\ ProfilesGiven'
  <2>1. /\ UNCHANGED <<unit, unitProfile>>
        /\ pc' = [pc EXCEPT ![h] = pc'[h]]
        /\ pc'[h] \notin Waits \cup {"reset", "launch"}
        /\ \A g \in Handlers \ {h} : UNCHANGED <<target[g], launching[g]>>
    BY <1>9
       DEF StartRefused, StartRecord, StartFail, StartAudit, StopRefused,
           StopFailedUnit, StopRecord, StopAudit, KillRecord, KillAudit
  <2> QED
    BY <2>1, UnitsUnchanged DEF ProfilesGiven
<1>10. ASSUME NEW h \in Handlers, StopQueue(h)
       PROVE  JobsAwaited' /\ ProfilesGiven'
  <2>1. \A g \in Handlers \ {h} : pc'[g] \in Waits \cup {"reset", "launch"} =>
           pc'[g] = pc[g] /\ ~(pc[g] \in Waits /\ target[g] = target[h])
    BY <1>10, StopMoves
  <2>2. pc'[h] = "stopwait" /\ UNCHANGED <<target, launching, unitProfile>>
    BY <1>10, StopMoves DEF StopQueue
  <2>3. /\ unit' = [unit EXCEPT ![target[h]] = "deactivating"]
        /\ HasProcesses(target[h])
    BY <1>10 DEF StopQueue, StopUnit, HasProcesses
  <2>4. target[h] \in Agents
    BY <1>10 DEF StopQueue
  <2>5. JobsAwaited'
    BY <2>1, <2>2, <2>3, <2>4 DEF JobsAwaited
  <2>6. ProfilesGiven'
    BY <2>1, <2>2, <2>3, <2>4 DEF ProfilesGiven, HasProcesses
  <2> QED
    BY <2>5, <2>6
<1>11. ASSUME NEW h \in Handlers, StopReplyLost(h)
       PROVE  JobsAwaited' /\ ProfilesGiven'
  <2>1. CASE StopUnit(target[h]) /\ StartsFail(h, target[h])
    <3>1. \A g \in Handlers : pc'[g] \in Waits \cup {"reset", "launch"} =>
             /\ pc'[g] = pc[g] /\ UNCHANGED <<target[g], launching[g]>>
             /\ ~(pc[g] = "startwait" /\ target[g] = target[h])
      BY <1>11, <2>1, StopLostMoves DEF StopReplyLost, StartsFail
    <3>2. /\ unit' = [unit EXCEPT ![target[h]] = "deactivating"]
          /\ HasProcesses(target[h]) /\ target[h] \in Agents
          /\ UNCHANGED unitProfile
      BY <1>11, <2>1 DEF StopReplyLost, StopUnit, HasProcesses
    <3>3. JobsAwaited'
      BY <3>1, <3>2 DEF JobsAwaited
    <3>4. ProfilesGiven'
      BY <3>1, <3>2 DEF ProfilesGiven, HasProcesses
    <3> QED
      BY <3>3, <3>4
  <2>2. CASE UNCHANGED unit /\ \A g \in Handlers \ {h} : pc'[g] = pc[g]
    <3>1. /\ UNCHANGED <<unit, unitProfile>> /\ pc'[h] = "idle"
          /\ \A g \in Handlers \ {h} : UNCHANGED <<target[g], launching[g]>>
      BY <1>11, <2>2, StopLostMoves DEF StopReplyLost
    <3> QED
      BY <2>2, <3>1, UnitsUnchanged DEF ProfilesGiven
  <2> QED
    BY <1>11, <2>1, <2>2, StopLostMoves
<1>12. CASE Restart
  BY <1>12, UnitsUnchanged DEF Restart
<1>13. CASE UNCHANGED vars
  BY <1>13, UnitsUnchanged DEF vars, ProfilesGiven
<1> QED
  BY <1>1, <1>2, <1>3, <1>4, <1>5, <1>6, <1>7, <1>8, <1>9, <1>10, <1>11,
     <1>12, <1>13 DEF Next, Step

\* The two invariants in every behaviour.
LEMMA AwaitedAlways == Spec => [](JobsAwaited /\ ProfilesGiven)
<1>1. Typed /\ (JobsAwaited /\ ProfilesGiven) /\ [Next]_vars
         => (JobsAwaited /\ ProfilesGiven)'
  BY AwaitedStep
<1> QED
  BY <1>1, AwaitedInit, TypedAlways, PTL DEF Spec

\* No request ever waits in vain: StartAgent and StopAgent read their channels
\* without a timeout, and whatever Starts, Stops, Kills, exits and restarts
\* come between, a channel that is being read has a job that will answer it,
\* unless another Stop has joined that job.
THEOREM NobodyWaitsInVain == Spec => []JobsAwaited
BY AwaitedAlways, PTL

\* How many steps an open request has at most before it: a request never goes
\* back.
Distance(point) ==
    CASE point = "idle" -> 0
      [] point \in {"auditstart", "auditstop", "auditkill"} -> 1
      [] point \in {"started", "startfail", "stopped", "killed"} -> 2
      [] point = "lost" -> 3
      [] point \in Waits -> 4
      [] point = "launch" -> 5
      [] OTHER -> 6

\* Every step leaves an open request where it is or brings it nearer to its
\* answer, whoever takes the step: no request is sent back to an earlier call,
\* so with NobodyWaitsInVain only a Stop whose job another Stop has joined can
\* remain open while goroutines run and jobs end.
THEOREM RequestsOnlyAdvance ==
    Spec => [][\A h \in Handlers :
                  pc[h] # "idle" /\ pc'[h] # pc[h] =>
                      Distance(pc'[h]) < Distance(pc[h])]_vars
<1> DEFINE Advance == \A h \in Handlers :
               pc[h] # "idle" /\ pc'[h] # pc[h] => Distance(pc'[h]) < Distance(pc[h])
<1>1. Typed /\ [Next]_vars => [Advance]_vars
  <2> SUFFICES ASSUME Typed, Next PROVE Advance
    OBVIOUS
  <2> USE DEF Typed, TypeOK, Goto, Return, Begin
  <2>1. ASSUME NEW id \in Agents,
               \/ \E p \in Profiles : Register(id, p)
               \/ RegisterFails(id) \/ Unregister(id)
               \/ DelayedReset(id) \/ UnitExit(id)
        PROVE  Advance
    BY <2>1 DEF Distance, Register, RegisterFails, Unregister, DelayedReset, UnitExit
  <2>2. ASSUME NEW id \in Agents, NEW h \in Handlers,
               StartClaim(h, id) \/ StopClaim(h, id)
        PROVE  Advance
    BY <2>2 DEF Distance, StartClaim, StopClaim
  <2>3. ASSUME NEW id \in Agents, NEW h \in Handlers, KillSignal(h, id)
        PROVE  Advance
    BY <2>3, KillMoves DEF StartsFail, Distance, Waits
  <2>4. ASSUME NEW id \in Agents, JobEnds(id)
        PROVE  Advance
    BY <2>4, AnsweredWho
       DEF JobEnds, UnitActivated, UnitActivationFails, UnitDown, Distance, Waits
  <2>5. ASSUME NEW h \in Handlers, Step(h)
        PROVE  Advance
    <3>1. CASE StopQueue(h)
      BY <3>1, StopMoves DEF Distance, Waits
    <3>2. CASE StopReplyLost(h)
      BY <3>2, StopLostMoves DEF StartsFail, Distance, Waits
    <3>3. CASE ~StopQueue(h) /\ ~StopReplyLost(h)
      BY <2>5, <3>3
         DEF Step, StartReset, StartLaunch, StartRefused, StartReplyLost,
             StartRecord, StartFail, StartAudit, StopRefused, StopFailedUnit,
             StopRecord, StopAudit, KillRecord, KillAudit, Distance, Waits
    <3> QED
      BY <3>1, <3>2, <3>3
  <2>6. CASE Restart
    BY <2>6 DEF Restart, Distance, Waits
  <2> QED
    BY <2>1, <2>2, <2>3, <2>4, <2>5, <2>6 DEF Next
<1> HIDE DEF Advance
<1>2. Spec => [][Advance]_vars
  BY <1>1, TypedAlways, PTL DEF Spec
<1> QED
  BY <1>2 DEF Advance

-----------------------------------------------------------------------------
(* The contract of sandboxes *)

\* What a step does to Asked when it moves handlers only within a stage.
LEMMA AskedUnchanged ==
    ASSUME \A h \in Handlers :
              /\ Stage(h)' = Stage(h)
              /\ Stage(h) # "nothing" => UNCHANGED <<target[h], launching[h]>>
    PROVE  Asked' = Asked
BY DEF Asked

\* The requests of hs return and the others stay in their stages.
LEMMA AskedReturn ==
    ASSUME NEW hs \in SUBSET Handlers,
           \A h \in Handlers \ hs :
              /\ Stage(h)' = Stage(h)
              /\ Stage(h) # "nothing" => UNCHANGED <<target[h], launching[h]>>,
           \A h \in hs : Stage(h)' = "nothing",
           UNCHANGED <<profile, Live>>
    PROVE  Sandboxes!Next
<1>1. Sandboxes!Return(hs)
  BY DEF Sandboxes!Return, Sandboxes!Nothing, Sandboxes!Request, Asked
<1> QED
  BY <1>1 DEF Sandboxes!Next

\* One request goes on to another stage.
LEMMA AskedMoves ==
    ASSUME NEW h \in Handlers, Stage(h)' # "nothing",
           \A g \in Handlers \ {h} :
              /\ Stage(g)' = Stage(g)
              /\ Stage(g) # "nothing" => UNCHANGED <<target[g], launching[g]>>
    PROVE  Asked' = [Asked EXCEPT ![h] = [what |-> Stage(h)', agent |-> target'[h],
                                          profile |-> launching'[h]]]
BY DEF Asked

\* A unit that has processes keeps them, or one that has none gets none.
LEMMA LiveUnchanged ==
    ASSUME \A id \in Agents :
              /\ HasProcesses(id)' <=> HasProcesses(id)
              /\ HasProcesses(id) => unitProfile'[id] = unitProfile[id]
    PROVE  Live' = Live
BY DEF Live

\* A request asks for an agent there is.
LEMMA AskedAgents ==
    ASSUME Typed, NEW h \in Handlers, Asked[h].what # "nothing"
    PROVE  /\ Stage(h) # "nothing" /\ target[h] \in Agents
           /\ Asked[h] = [what |-> Stage(h), agent |-> target[h],
                          profile |-> launching[h]]
BY DEF Typed, HandlersOK, Asked, Stage

\* A sandbox ends: the Starts that wait for it fail, and of the Stops that
\* wait those in `ended` have their answer.
LEMMA AskedAtEnd ==
    ASSUME Typed, UNCHANGED <<profile, target, launching>>,
           NEW id \in Agents, NEW ended \in SUBSET Handlers,
           Live' = [Live EXCEPT ![id] = NoProfile], Live[id] # NoProfile,
           \A h \in Handlers :
              Stage(h)' = CASE Stage(h) = "launched" /\ target[h] = id -> "nothing"
                            [] Stage(h) = "stop" /\ target[h] = id /\ h \in ended -> "ended"
                            [] OTHER -> Stage(h)
    PROVE  Sandboxes!Next
<1>1. ASSUME NEW h \in Handlers
      PROVE  Asked'[h] = Sandboxes!AtEnd(h, id, ended)
  BY <1>1 DEF Asked, Sandboxes!AtEnd, Sandboxes!Nothing, Sandboxes!Request,
              Sandboxes!To
<1>2. Asked' = [h \in Handlers |-> Sandboxes!AtEnd(h, id, ended)]
  BY <1>1 DEF Asked
<1>3. Sandboxes!End(id)
  BY <1>2 DEF Sandboxes!End
<1> QED
  BY <1>3 DEF Sandboxes!Next

\* The daemon starts as the contract does.
LEMMA SandboxesInit == Init => Sandboxes!Init
BY DEF Init, Sandboxes!Init, Sandboxes!Nobody, Sandboxes!Nothing,
       Sandboxes!Request, Asked, Live, Stage, HasProcesses

\* A step that changes nothing the contract sees.
LEMMA SandboxesStutter ==
    ASSUME UNCHANGED <<profile, Asked, Live>>
    PROVE  [Sandboxes!Next]_(Sandboxes!vars)
BY DEF Sandboxes!vars

\* The agents change: no handler and no unit does.
LEMMA SandboxesChange ==
    ASSUME Typed, NEW id \in Agents,
           (\E p \in Profiles : Register(id, p)) \/ RegisterFails(id) \/ Unregister(id)
    PROVE  [Sandboxes!Next]_(Sandboxes!vars)
<1> USE ConstantsAssumption
<1>1. UNCHANGED <<unit, unitProfile, pc, target, launching>>
  BY DEF Register, RegisterFails, Unregister, sandbox, request
<1>2. UNCHANGED <<Asked, Live>>
  BY <1>1 DEF Asked, Live, Stage, HasProcesses
<1>3. ASSUME NEW p \in Profiles, Register(id, p)
      PROVE  Sandboxes!Change(id, p)
  BY <1>2, <1>3 DEF Register, CanRegister, Sandboxes!Change
<1>4. CASE RegisterFails(id)
  BY <1>2, <1>4, SandboxesStutter DEF RegisterFails
<1>5. ASSUME Unregister(id)
      PROVE  Sandboxes!Change(id, NoProfile)
  BY <1>2, <1>5 DEF Unregister, CanUnregister, Typed, TypeOK, Sandboxes!Change
<1> QED
  BY <1>3, <1>4, <1>5 DEF Sandboxes!Next

\* A Start or a Stop is claimed, with the profile the agent has now.
LEMMA SandboxesAsk ==
    ASSUME Typed, NEW h \in Handlers, NEW id \in Agents,
           StartClaim(h, id) \/ StopClaim(h, id)
    PROVE  Sandboxes!Next
<1> USE DEF Typed, TypeOK, Goto, Begin, registry, sandbox
<1>1. /\ pc[h] = "idle" /\ state[id] # "none"
      /\ UNCHANGED <<unit, unitProfile, profile>>
      /\ \A g \in Handlers \ {h} :
            UNCHANGED <<pc[g], target[g], launching[g]>>
      /\ target'[h] = id
      /\ \/ pc'[h] = "reset" /\ launching'[h] = profile[id]
         \/ pc'[h] = "stopcall" /\ launching'[h] = NoProfile
  BY DEF StartClaim, CanStart, StopClaim
<1>2. Asked[h] = Sandboxes!Nothing
  BY <1>1 DEF Asked, Stage, Sandboxes!Nothing, Sandboxes!Request
<1>3. Asked' = [Asked EXCEPT ![h] = [what |-> Stage(h)', agent |-> target'[h],
                                     profile |-> launching'[h]]]
  <2>1. Stage(h)' # "nothing" /\ \A g \in Handlers \ {h} : Stage(g)' = Stage(g)
    BY <1>1 DEF Stage
  <2> QED
    BY <1>1, <2>1, AskedMoves
<1>4. \/ Stage(h)' = "launch" /\ launching'[h] = profile[id]
      \/ Stage(h)' = "stop" /\ launching'[h] = NoProfile
  BY <1>1 DEF Stage
<1>5. Live' = Live
  BY <1>1 DEF Live, HasProcesses
<1>6. Sandboxes!Ask(h, id)
  BY <1>1, <1>2, <1>3, <1>4, <1>5 DEF Sandboxes!Ask, Sandboxes!Request
<1> QED
  BY <1>6 DEF Sandboxes!Next

\* A unit that goes down has its processes until it is down.
LEMMA LiveUntilDown ==
    ASSUME Typed, NEW id \in Agents, UNCHANGED unitProfile,
           unit' = [unit EXCEPT ![id] = "deactivating"], HasProcesses(id)
    PROVE  Live' = Live
BY DEF Typed, TypeOK, Live, HasProcesses

\* A Kill asks for nothing, and the Starts whose job it cancels fail.
LEMMA SandboxesKill ==
    ASSUME Typed, NEW h \in Handlers, NEW id \in Agents, KillSignal(h, id)
    PROVE  Sandboxes!Next
<1> DEFINE failed == {g \in Handlers : pc[g] = "startwait" /\ target[g] = id}
<1>1. pc[h] = "idle" /\ pc'[h] = "killed" /\ StartsFail(h, id)
  BY KillMoves
<1>2. \A g \in Handlers \ {h} : UNCHANGED <<target[g], launching[g]>>
  BY DEF KillSignal, Begin, Typed, TypeOK
<1>3. Live' = Live
  BY DEF KillSignal, Alive, Typed, TypeOK, Live, HasProcesses
<1>4. \A g \in Handlers \ failed :
         /\ Stage(g)' = Stage(g)
         /\ Stage(g) # "nothing" => UNCHANGED <<target[g], launching[g]>>
  BY <1>1, <1>2 DEF StartsFail, Stage
<1>5. \A g \in failed : Stage(g)' = "nothing"
  BY <1>1 DEF StartsFail, Stage
<1> HIDE DEF failed
<1>6. failed \in SUBSET Handlers
  BY DEF failed
<1> QED
  BY <1>3, <1>4, <1>5, <1>6, AskedReturn DEF KillSignal, registry

\* A start job that succeeds lets up the one Start that has launched the
\* sandbox, if that still waits.
LEMMA SandboxesUp ==
    ASSUME Typed, JobsAwaited, NEW id \in Agents, UnitActivated(id)
    PROVE  [Sandboxes!Next]_(Sandboxes!vars)
<1> USE DEF Typed, TypeOK
<1>1. Live' = Live
  BY DEF UnitActivated, Live, HasProcesses
<1>2. \A g \in Handlers :
         pc'[g] = IF pc[g] = "startwait" /\ target[g] = id THEN "started" ELSE pc[g]
  BY AnsweredWho DEF UnitActivated
<1>3. UNCHANGED <<profile, target, launching>>
  BY DEF UnitActivated, registry, request
<1>4. ASSUME NEW h \in Handlers, pc[h] = "startwait", target[h] = id
      PROVE  Sandboxes!Next
  <2>1. \A g \in Handlers \ {h} : pc'[g] = pc[g]
    BY <1>2, <1>4 DEF JobsAwaited, Waits
  <2>2. /\ Stage(h) = "launched" /\ Stage(h)' = "up"
        /\ \A g \in Handlers \ {h} : Stage(g)' = Stage(g)
    BY <1>2, <1>4, <2>1 DEF Stage
  <2>3. Asked' = [Asked EXCEPT ![h] = [what |-> "up", agent |-> id,
                                       profile |-> launching[h]]]
    BY <1>3, <1>4, <2>2, AskedMoves
  <2>4. Asked[h] = [what |-> "launched", agent |-> id, profile |-> launching[h]]
    BY <1>4, <2>2 DEF Asked
  <2>5. Live[id] = launching[h]
    BY <1>4 DEF JobsAwaited, Live, HasProcesses
  <2>6. Sandboxes!To("up", Asked[h]) =
           [what |-> "up", agent |-> id, profile |-> launching[h]]
    BY <2>4 DEF Sandboxes!To
  <2>7. Asked' = [Asked EXCEPT ![h] = Sandboxes!To("up", Asked[h])]
    BY <2>3, <2>6
  <2>8. Asked[h].what = "launched" /\ Live[Asked[h].agent] = Asked[h].profile
    BY <2>4, <2>5
  <2>9. Sandboxes!Up(h)
    BY <1>1, <1>3, <2>7, <2>8 DEF Sandboxes!Up
  <2> QED
    BY <2>9 DEF Sandboxes!Next
<1>5. CASE \A h \in Handlers : ~(pc[h] = "startwait" /\ target[h] = id)
  <2>1. \A h \in Handlers : Stage(h)' = Stage(h)
    BY <1>2, <1>5 DEF Stage
  <2> QED
    BY <1>1, <1>3, <2>1, AskedUnchanged, SandboxesStutter
<1> QED
  BY <1>4, <1>5

\* A unit that ends without having been stopped answers the Start that waits
\* for it, and no Stop: none waits.
LEMMA SandboxesEnd ==
    ASSUME Typed, JobsAwaited, ProfilesGiven, NEW id \in Agents,
           UnitActivationFails(id) \/ UnitDown(id) \/ UnitExit(id)
    PROVE  Sandboxes!Next
<1> USE DEF Typed, TypeOK
<1> DEFINE ended == {h \in Handlers :
                        pc[h] = "stopwait" /\ target[h] = id /\ UnitDown(id)}
<1>1. HasProcesses(id) /\ unit' = [unit EXCEPT ![id] = unit'[id]]
      /\ unit'[id] \in {"absent", "failed"} /\ UNCHANGED unitProfile
  BY DEF UnitActivationFails, UnitDown, UnitExit, HasProcesses
<1>2. Live[id] # NoProfile
  BY <1>1, ConstantsAssumption DEF Live, ProfilesGiven
<1>3. Live' = [Live EXCEPT ![id] = NoProfile]
  <2>1. \A a \in Agents : HasProcesses(a)' <=> HasProcesses(a) /\ a # id
    BY <1>1 DEF HasProcesses
  <2> QED
    BY <1>1, <2>1 DEF Live
<1>4. UNCHANGED <<profile, target, launching>>
  BY DEF UnitActivationFails, UnitDown, UnitExit, registry, request
<1>5. UnitDown(id) <=> unit[id] = "deactivating"
  BY DEF UnitActivationFails, UnitDown, UnitExit
<1>6. ASSUME NEW h \in Handlers
      PROVE  pc'[h] = CASE pc[h] = "startwait" /\ target[h] = id -> "startfail"
                        [] h \in ended -> "stopped"
                        [] OTHER -> pc[h]
  <2>1. CASE UnitActivationFails(id)
    <3>1. h \notin ended
      BY <1>5, <2>1 DEF UnitActivationFails
    <3>2. pc'[h] = IF pc[h] = "startwait" /\ target[h] = id THEN "startfail" ELSE pc[h]
      BY <2>1, AnsweredWho DEF UnitActivationFails
    <3> HIDE DEF ended
    <3> QED
      BY <3>1, <3>2
  <2>2. CASE UnitDown(id)
    <3>1. ~(pc[h] = "startwait" /\ target[h] = id)
      BY <1>5, <2>2 DEF JobsAwaited
    <3>2. pc'[h] = IF pc[h] = "stopwait" /\ target[h] = id THEN "stopped" ELSE pc[h]
      BY <2>2, AnsweredWho DEF UnitDown
    <3>3. h \in ended <=> pc[h] = "stopwait" /\ target[h] = id
      BY <2>2
    <3> HIDE DEF ended
    <3> QED
      BY <3>1, <3>2, <3>3
  <2>3. CASE UnitExit(id)
    <3>1. h \notin ended
      BY <1>5, <2>3 DEF UnitExit
    <3>2. ~(pc[h] = "startwait" /\ target[h] = id) /\ pc'[h] = pc[h]
      BY <2>3 DEF UnitExit, JobsAwaited
    <3> HIDE DEF ended
    <3> QED
      BY <3>1, <3>2
  <2> QED
    BY <2>1, <2>2, <2>3
<1>7. \A h \in ended : Stage(h) = "stop" /\ target[h] = id
  BY DEF Stage
<1>8. \A h \in Handlers :
         Stage(h)' = CASE Stage(h) = "launched" /\ target[h] = id -> "nothing"
                       [] Stage(h) = "stop" /\ target[h] = id /\ h \in ended -> "ended"
                       [] OTHER -> Stage(h)
  BY <1>6, <1>7 DEF Stage
<1>9. ended \in SUBSET Handlers
  OBVIOUS
<1> HIDE DEF ended, Typed, TypeOK
<1> QED
  BY <1>2, <1>3, <1>4, <1>8, <1>9, AskedAtEnd

\* One handler takes a step at most: it goes on in its stage or returns.
LEMMA SandboxesOwnStep ==
    ASSUME Typed, NEW h \in Handlers,
           pc' = [pc EXCEPT ![h] = pc'[h]], UNCHANGED <<profile, Live>>,
           \A g \in Handlers \ {h} : UNCHANGED <<target[g], launching[g]>>,
           \/ Stage(h)' = "nothing"
           \/ Stage(h)' = Stage(h) /\ UNCHANGED <<target[h], launching[h]>>
    PROVE  [Sandboxes!Next]_(Sandboxes!vars)
<1>1. \A g \in Handlers \ {h} : Stage(g)' = Stage(g)
  BY DEF Typed, TypeOK, Stage
<1>2. CASE Stage(h)' = "nothing"
  <2>1. /\ {h} \in SUBSET Handlers
        /\ \A g \in Handlers \ {h} :
              /\ Stage(g)' = Stage(g)
              /\ Stage(g) # "nothing" => UNCHANGED <<target[g], launching[g]>>
        /\ \A g \in {h} : Stage(g)' = "nothing"
    BY <1>1, <1>2
  <2> QED
    BY <2>1, AskedReturn
<1>3. CASE Stage(h)' = Stage(h) /\ UNCHANGED <<target[h], launching[h]>>
  <2>1. \A g \in Handlers :
           /\ Stage(g)' = Stage(g)
           /\ Stage(g) # "nothing" => UNCHANGED <<target[g], launching[g]>>
    BY <1>1, <1>3
  <2> QED
    BY <2>1, AskedUnchanged, SandboxesStutter
<1> QED
  BY <1>2, <1>3

\* A launch, whose reply may be lost.
LEMMA SandboxesLaunch ==
    ASSUME Typed, ProfilesGiven, NEW h \in Handlers,
           StartLaunch(h) \/ StartReplyLost(h), Launch(h)
    PROVE  Sandboxes!Next
<1> USE ConstantsAssumption DEF Typed, TypeOK, Goto, registry, request
<1>1. /\ pc[h] = "launch" /\ target[h] \in Agents /\ launching[h] \in Profiles
      /\ UNCHANGED <<profile, target, launching>>
      /\ pc' = [pc EXCEPT ![h] = pc'[h]]
      /\ pc'[h] \in {"startwait", "startfail"}
  BY DEF StartLaunch, StartReplyLost, ProfilesGiven, HandlersOK
<1>2. \A g \in Handlers \ {h} : Stage(g)' = Stage(g)
  BY <1>1 DEF Stage
<1>3. Asked[h] = [what |-> "launch", agent |-> target[h], profile |-> launching[h]]
  BY <1>1 DEF Asked, Stage
<1>4. /\ Live[target[h]] = NoProfile
      /\ Live' = [Live EXCEPT ![target[h]] = launching[h]]
  BY <1>1 DEF Launch, Live, HasProcesses
<1>5. \/ Asked' = [Asked EXCEPT ![h] = [what |-> "launched", agent |-> target[h],
                                        profile |-> launching[h]]]
      \/ Asked' = [Asked EXCEPT ![h] = Sandboxes!Nothing]
  <2>1. CASE pc'[h] = "startwait"
    <3>1. Stage(h)' = "launched"
      BY <2>1 DEF Stage
    <3> QED
      BY <1>1, <1>2, <3>1, AskedMoves
  <2>2. CASE pc'[h] = "startfail"
    <3>1. Stage(h)' = "nothing"
      BY <2>2 DEF Stage
    <3>2. ASSUME NEW g \in Handlers
          PROVE  Asked'[g] = IF g = h THEN Sandboxes!Nothing ELSE Asked[g]
      BY <1>1, <1>2, <3>1, <3>2
         DEF Asked, Sandboxes!Nothing, Sandboxes!Request
    <3> QED
      BY <3>2 DEF Asked
  <2> QED
    BY <1>1, <2>1, <2>2
<1>6. Sandboxes!Launch(h)
  BY <1>1, <1>3, <1>4, <1>5 DEF Sandboxes!Launch, Sandboxes!To
<1> QED
  BY <1>6 DEF Sandboxes!Next

\* A Stop that finds only what is left of a unit has nothing to wait for.
LEMMA SandboxesEnded ==
    ASSUME Typed, NEW h \in Handlers, StopFailedUnit(h)
    PROVE  Sandboxes!Next
<1> USE DEF Typed, TypeOK, Goto, registry, sandbox, request
<1>1. /\ pc[h] = "stopcall" /\ target[h] \in Agents
      /\ UNCHANGED <<profile, target, launching, unit, unitProfile>>
      /\ pc' = [pc EXCEPT ![h] = "stopped"]
  BY DEF StopFailedUnit, HandlersOK
<1>2. /\ Stage(h) = "stop" /\ Stage(h)' = "ended"
      /\ \A g \in Handlers \ {h} : Stage(g)' = Stage(g)
  BY <1>1 DEF Stage
<1>3. Asked[h] = [what |-> "stop", agent |-> target[h], profile |-> launching[h]]
  BY <1>2 DEF Asked
<1>4. Asked' = [Asked EXCEPT ![h] = [what |-> "ended", agent |-> target[h],
                                     profile |-> launching[h]]]
  BY <1>1, <1>2, AskedMoves
<1>5. Live[target[h]] = NoProfile /\ Live' = Live
  BY <1>1 DEF StopFailedUnit, Live, HasProcesses
<1>6. Sandboxes!To("ended", Asked[h]) =
         [what |-> "ended", agent |-> target[h], profile |-> launching[h]]
  BY <1>3 DEF Sandboxes!To
<1>7. Asked' = [Asked EXCEPT ![h] = Sandboxes!To("ended", Asked[h])]
  BY <1>4, <1>6
<1>8. Asked[h].what = "stop" /\ Live[Asked[h].agent] = NoProfile
  BY <1>3, <1>5
<1>9. Sandboxes!Ended(h)
  BY <1>1, <1>5, <1>7, <1>8 DEF Sandboxes!Ended
<1> QED
  BY <1>9 DEF Sandboxes!Next

\* A Stop that is queued makes the Starts fail whose job it cancels; it and
\* the Stop it joins still wait for the end.
LEMMA SandboxesStop ==
    ASSUME Typed, NEW h \in Handlers, StopQueue(h)
    PROVE  Sandboxes!Next
<1> DEFINE failed == {g \in Handlers \ {h} :
                         pc[g] = "startwait" /\ target[g] = target[h]}
<1>1. /\ UNCHANGED <<profile, target, launching, unitProfile>>
      /\ target[h] \in Agents
  BY DEF StopQueue, registry, request, Typed, HandlersOK
<1>2. Live' = Live
  BY <1>1, LiveUntilDown DEF StopQueue, StopUnit, HasProcesses
<1>3. \A g \in Handlers \ failed : Stage(g)' = Stage(g)
  BY StopMoves DEF Stage
<1>4. \A g \in failed : Stage(g)' = "nothing"
  BY StopMoves DEF Stage
<1>5. failed \in SUBSET Handlers
  OBVIOUS
<1> HIDE DEF failed
<1> QED
  BY <1>1, <1>2, <1>3, <1>4, <1>5, AskedReturn

\* A Stop whose reply is lost returns, with the Starts whose job it cancels.
LEMMA SandboxesStopLost ==
    ASSUME Typed, NEW h \in Handlers, StopReplyLost(h)
    PROVE  Sandboxes!Next
<1> DEFINE failed == {g \in Handlers : pc'[g] # pc[g]}
<1>1. /\ \A g \in Handlers \ {h} : UNCHANGED <<target[g], launching[g]>>
      /\ UNCHANGED <<profile, unitProfile>> /\ target[h] \in Agents
  BY DEF StopReplyLost, Begin, registry, Typed, TypeOK, HandlersOK
<1>2. Live' = Live
  <2>1. CASE StopUnit(target[h])
    BY <1>1, <2>1, LiveUntilDown DEF StopUnit, HasProcesses
  <2>2. CASE UNCHANGED unit
    BY <1>1, <2>2 DEF Live, HasProcesses
  <2> QED
    BY <2>1, <2>2, StopLostMoves
<1>3. \A g \in Handlers \ failed : Stage(g)' = Stage(g)
  BY DEF Stage
<1>4. h \in failed
  BY StopLostMoves
<1>5. \A g \in failed : Stage(g)' = "nothing"
  BY StopLostMoves DEF Stage, StartsFail
<1>6. failed \in SUBSET Handlers
  OBVIOUS
<1> HIDE DEF failed
<1> QED
  BY <1>1, <1>2, <1>3, <1>4, <1>5, <1>6, AskedReturn

\* Every step is a step of the contract, or one it does not see.
LEMMA SandboxesStep ==
    ASSUME Typed, JobsAwaited, ProfilesGiven, [Next]_vars
    PROVE  [Sandboxes!Next]_(Sandboxes!vars)
<1> USE DEF Typed, TypeOK
<1>1. ASSUME NEW id \in Agents,
             \/ \E p \in Profiles : Register(id, p)
             \/ RegisterFails(id) \/ Unregister(id)
      PROVE  [Sandboxes!Next]_(Sandboxes!vars)
  BY <1>1, SandboxesChange
<1>2. ASSUME NEW id \in Agents, NEW h \in Handlers,
             StartClaim(h, id) \/ StopClaim(h, id) \/ KillSignal(h, id)
      PROVE  [Sandboxes!Next]_(Sandboxes!vars)
  BY <1>2, SandboxesAsk, SandboxesKill
<1>3. ASSUME NEW id \in Agents, DelayedReset(id)
      PROVE  [Sandboxes!Next]_(Sandboxes!vars)
  BY <1>3, SandboxesStutter
     DEF DelayedReset, registry, request, Asked, Stage, Live, HasProcesses
<1>4. ASSUME NEW id \in Agents, JobEnds(id) \/ UnitExit(id)
      PROVE  [Sandboxes!Next]_(Sandboxes!vars)
  BY <1>4, SandboxesUp, SandboxesEnd DEF JobEnds
<1>5. ASSUME NEW h \in Handlers, StartReset(h)
      PROVE  [Sandboxes!Next]_(Sandboxes!vars)
  <2>1. Live' = Live
    BY <1>5 DEF StartReset, Live, HasProcesses
  <2>2. pc' = [pc EXCEPT ![h] = "launch"] /\ Stage(h)' = Stage(h)
        /\ UNCHANGED <<profile, target, launching>>
    BY <1>5 DEF StartReset, Goto, Stage, registry, request
  <2> QED
    BY <2>1, <2>2, SandboxesOwnStep
<1>6. ASSUME NEW h \in Handlers, StartLaunch(h) \/ StartReplyLost(h), Launch(h)
      PROVE  [Sandboxes!Next]_(Sandboxes!vars)
  BY <1>6, SandboxesLaunch
<1>7. ASSUME NEW h \in Handlers,
             \/ StartReplyLost(h) /\ UNCHANGED <<unit, unitProfile>>
             \/ StartRefused(h) \/ StartRecord(h) \/ StartFail(h) \/ StartAudit(h)
             \/ StopRefused(h) \/ StopRecord(h) \/ StopAudit(h)
             \/ KillRecord(h) \/ KillAudit(h)
      PROVE  [Sandboxes!Next]_(Sandboxes!vars)
  <2> USE DEF StartReplyLost, StartRefused, StartRecord, StartFail, StartAudit,
              StopRefused, StopRecord, StopAudit, KillRecord, KillAudit
  <2>1. UNCHANGED <<profile, unit, unitProfile>>
    BY <1>7 DEF registry, sandbox
  <2>2. \A g \in Handlers \ {h} : UNCHANGED <<target[g], launching[g]>>
    BY <1>7 DEF request, Return, Begin
  <2>3. /\ pc' = [pc EXCEPT ![h] = pc'[h]]
        /\ \/ pc'[h] \in {"idle", "startfail", "auditkill"}
           \/ /\ UNCHANGED <<target[h], launching[h]>>
              /\ \/ pc[h] = "started" /\ pc'[h] = "auditstart"
                 \/ pc[h] = "stopped" /\ pc'[h] = "auditstop"
    BY <1>7 DEF request, Return, Begin, Goto
  <2>4. \/ Stage(h)' = "nothing"
        \/ Stage(h)' = Stage(h) /\ UNCHANGED <<target[h], launching[h]>>
    BY <2>3 DEF Stage
  <2>5. Live' = Live
    BY <2>1 DEF Live, HasProcesses
  <2> QED
    BY <2>1, <2>2, <2>3, <2>4, <2>5, SandboxesOwnStep
<1>8. ASSUME NEW h \in Handlers,
             StopQueue(h) \/ StopFailedUnit(h) \/ StopReplyLost(h)
      PROVE  [Sandboxes!Next]_(Sandboxes!vars)
  BY <1>8, SandboxesStop, SandboxesEnded, SandboxesStopLost
<1>9. CASE Restart
  <2>1. profile' \in [Agents -> Profiles \cup {NoProfile}] /\ Live' = Live
    BY <1>9 DEF Restart, LoadPersistedAgents, Live, HasProcesses
  <2>2. Asked' = [h \in Handlers |-> Sandboxes!Nothing]
    BY <1>9 DEF Restart, Asked, Stage, Sandboxes!Nothing, Sandboxes!Request
  <2>3. Sandboxes!Restart
    BY <2>1, <2>2 DEF Sandboxes!Restart
  <2> QED
    BY <2>3 DEF Sandboxes!Next
<1>10. CASE UNCHANGED vars
  BY <1>10, SandboxesStutter DEF vars, Asked, Stage, Live, HasProcesses
<1>11. ASSUME NEW h \in Handlers, StartReplyLost(h)
       PROVE  Launch(h) \/ UNCHANGED <<unit, unitProfile>>
  BY <1>11 DEF StartReplyLost
<1>12. ASSUME NEW h \in Handlers, StartLaunch(h)
       PROVE  Launch(h)
  BY <1>12 DEF StartLaunch
<1>13. ASSUME NEW h \in Handlers, Step(h)
       PROVE  [Sandboxes!Next]_(Sandboxes!vars)
  BY <1>5, <1>6, <1>7, <1>8, <1>11, <1>12, <1>13 DEF Step
<1> QED
  BY <1>1, <1>2, <1>3, <1>4, <1>9, <1>10, <1>13 DEF Next

\* Whatever clients, faults and restarts do, the manager keeps the contract of
\* sandboxes: a launch is for a Start that was claimed and with the profile of
\* its claim, a Start goes on only for the sandbox it launched, and a Stop
\* only once a sandbox has ended.
THEOREM ManagerKeepsSandboxContract == Spec => ImplementsSandboxContract
<1>1. Typed /\ (JobsAwaited /\ ProfilesGiven) /\ [Next]_vars
         => [Sandboxes!Next]_(Sandboxes!vars)
  BY SandboxesStep
<1>2. Spec => Sandboxes!Spec
  BY <1>1, SandboxesInit, TypedAlways, AwaitedAlways, PTL DEF Spec, Sandboxes!Spec
<1> QED
  BY <1>2 DEF ImplementsSandboxContract
=============================================================================
