------------------------- MODULE RegistryFileProofs -------------------------
(***************************************************************************)
(* Theorems about RegistryFile, for any agents, handlers, limit and        *)
(* faults.                                                                 *)
(***************************************************************************)
EXTENDS RegistryFile, TLAPS

-----------------------------------------------------------------------------
(* The inductive invariant *)

\* How far the request of a handler has come, and what it has done so far.  A
\* request holds the lock throughout, so nobody moves what it has done.
Progress(h) ==
    LET r == req[h] IN
    ~At(h, "idle") =>
        /\ r.id \in Agents
        /\ told[r.id] = Open
        /\ r.pc \in {"provision", "insert"} =>
              agents[r.id] = NoProfile /\ r.profile \in Profiles
        /\ r.pc = "insert" => r.id \in dirs
        /\ r.pc = "delete" =>
              agents[r.id] # NoProfile /\ r.profile = NoProfile
        /\ r.pc \notin {"provision", "insert", "delete"} =>
              agents[r.id] = r.profile
        /\ r.purge => r.profile = NoProfile
        /\ r.pc = "purge" => r.purge
        /\ r.pc \in {"write", "rename"} => entries[h] = agents
        /\ r.pc = "rename" => tmp = agents
        /\ r.saved => r.pc \in {"purge", "answer"} /\ file = agents

\* What has been answered is in the map as well as in the file, so that the
\* next save about another agent writes it again.
Kept ==
    \A id \in Agents : told[id] # Open =>
        agents[id] = told[id] /\ file[id] = told[id]

\* Entries have a workspace, in the map as well as in the file.
Provided ==
    \A id \in Agents \ orphaned :
        agents[id] # NoProfile \/ file[id] # NoProfile => id \in dirs

Inv ==
    /\ TypeOK
    /\ FileWhole
    /\ \A h \in Handlers : Progress(h)
    /\ Kept
    /\ Provided

-----------------------------------------------------------------------------
(* Types *)

\* While one handler has a request, the others have none.
LEMMA Alone ==
    ASSUME TypeOK, NEW h \in Handlers, ~At(h, "idle"),
           NEW k \in Handlers, k # h
    PROVE  At(k, "idle")
BY DEF TypeOK

\* A handler that goes on with its request keeps the lock with it.
LEMMA GotoHeld ==
    ASSUME TypeOK, NEW h \in Handlers, ~At(h, "idle"),
           NEW point \in Points \ {"idle"}, Goto(h, point), lock' = lock
    PROVE  /\ req' \in [Handlers -> Requests]
           /\ \A k \in Handlers : (~At(k, "idle") <=> lock = k)'
BY DEF TypeOK, Requests, Goto, At

\* The initial state satisfies the invariant.
LEMMA InvInit == Init => Inv
<1> SUFFICES ASSUME Init
             PROVE  Inv
  OBVIOUS
<1>1. Nobody \in Tables /\ Nobody # Torn
  BY RegistryAssumption DEF Nobody, Tables
<1>2. TypeOK
  BY <1>1, RegistryAssumption DEF Init, TypeOK, Tables, Nobody, Idle, At,
                                Requests, Points
<1>3. FileWhole
  BY <1>1 DEF Init, FileWhole
<1> QED
  BY <1>2, <1>3 DEF Init, Inv, Progress, Kept, Provided, At, Idle, Nobody

\* Every step keeps the types and the lock with the request.
LEMMA TypeStep == Inv /\ [Next]_vars => TypeOK'
<1> SUFFICES ASSUME Inv, [Next]_vars
             PROVE  TypeOK'
  OBVIOUS
<1> USE RegistryAssumption
        DEF Inv, TypeOK, Progress, At, Tables, Requests, Points
<1>1. ASSUME NEW h \in Handlers, NEW id \in Agents, NEW p \in Profiles,
             RegisterLock(h, id, p)
      PROVE  TypeOK'
  BY <1>1 DEF RegisterLock, MayLock, disk
<1>2. ASSUME NEW h \in Handlers,
             Provision(h)
      PROVE  TypeOK'
  BY <1>2, GotoHeld DEF Provision, ghosts
<1>3. ASSUME NEW h \in Handlers,
             ProvisionFails(h)
      PROVE  TypeOK'
  BY <1>3 DEF ProvisionFails, Unlock, Idle, ghosts
<1>4. ASSUME NEW h \in Handlers,
             Insert(h)
      PROVE  TypeOK'
  BY <1>4 DEF Insert, Goto, disk
<1>5. ASSUME NEW h \in Handlers, NEW id \in Agents, NEW purge \in BOOLEAN,
             UnregisterLock(h, id, purge)
      PROVE  TypeOK'
  BY <1>5 DEF UnregisterLock, MayLock, disk
<1>6. ASSUME NEW h \in Handlers,
             Delete(h)
      PROVE  TypeOK'
  BY <1>6 DEF Delete, Goto, disk, ghosts
<1>7. ASSUME NEW h \in Handlers,
             Purge(h)
      PROVE  TypeOK'
  BY <1>7 DEF Purge, Goto
<1>8. ASSUME NEW h \in Handlers,
             Collect(h)
      PROVE  TypeOK'
  BY <1>8, GotoHeld DEF Collect, disk, ghosts
<1>9. ASSUME NEW h \in Handlers,
             WriteTmp(h)
      PROVE  TypeOK'
  BY <1>9, GotoHeld DEF WriteTmp, ghosts
<1>10. ASSUME NEW h \in Handlers,
             WriteFails(h)
      PROVE  TypeOK'
  BY <1>10 DEF WriteFails, Goto, AfterSave, ghosts
<1>11. ASSUME NEW h \in Handlers,
             Rename(h)
      PROVE  TypeOK'
  BY <1>11 DEF Rename, AfterSave, ghosts
<1>12. ASSUME NEW h \in Handlers,
             RenameFails(h)
      PROVE  TypeOK'
  BY <1>12 DEF RenameFails, Goto, AfterSave, disk, ghosts
<1>13. ASSUME NEW h \in Handlers,
             Answer(h)
      PROVE  TypeOK'
  BY <1>13 DEF Answer, Unlock, Idle, disk
<1>14. CASE Restart
  BY <1>14 DEF Restart, CutOff, LoadPersistedAgents, Idle, Nobody, FileWhole
<1>15. CASE UNCHANGED vars
  BY <1>15 DEF vars
<1> QED
  BY <1>1, <1>2, <1>3, <1>4, <1>5, <1>6, <1>7, <1>8, <1>9, <1>10, <1>11,
     <1>12, <1>13, <1>14, <1>15 DEF Next, Step

-----------------------------------------------------------------------------
(* The request and what it has done *)

\* A step of one handler leaves nothing to show about the others.
LEMMA OthersIdle ==
    ASSUME TypeOK, NEW h \in Handlers, lock \in {h, NoHandler},
           NEW k \in Handlers, k # h, req'[k] = req[k]
    PROVE  Progress(k)'
<1>1. At(k, "idle")
  BY RegistryAssumption DEF TypeOK
<1> QED
  BY <1>1 DEF Progress, At

\* The handler that moves is the one that holds the lock, or takes it.
LEMMA Mover ==
    ASSUME TypeOK, NEW h \in Handlers,
           Step(h) \/ \E id \in Agents :
                         \/ \E p \in Profiles : RegisterLock(h, id, p)
                         \/ \E purge \in BOOLEAN : UnregisterLock(h, id, purge)
    PROVE  /\ lock \in {h, NoHandler}
           /\ \A k \in Handlers \ {h} : req'[k] = req[k]
BY DEF TypeOK, Step, At, MayLock, Goto, Unlock, RegisterLock, Provision,
       ProvisionFails, Insert, UnregisterLock, Delete, Purge, Collect, WriteTmp,
       WriteFails, Rename, RenameFails, Answer

\* What a request has done is still so after its next step.
LEMMA ProgressStep ==
    Inv /\ [Next]_vars => \A k \in Handlers : Progress(k)'
<1> SUFFICES ASSUME Inv, [Next]_vars
             PROVE  \A k \in Handlers : Progress(k)'
  OBVIOUS
<1>0. TypeOK'
  BY TypeStep
<1>1. ASSUME NEW h \in Handlers, NEW id \in Agents, NEW p \in Profiles,
             RegisterLock(h, id, p)
      PROVE  Progress(h)'
  BY <1>1, RegistryAssumption
     DEF Inv, TypeOK, Tables, Requests, Points, Progress, At, RegisterLock, MayLock, disk
<1>2. ASSUME NEW h \in Handlers,
             Provision(h)
      PROVE  Progress(h)'
  BY <1>2, RegistryAssumption
     DEF Inv, TypeOK, Tables, Requests, Points, Progress, At, Provision, ghosts, Goto
<1>3. ASSUME NEW h \in Handlers,
             ProvisionFails(h)
      PROVE  Progress(h)'
  BY <1>3, RegistryAssumption
     DEF Inv, TypeOK, Tables, Requests, Points, Progress, At, ProvisionFails, Unlock, Idle, ghosts
<1>4. ASSUME NEW h \in Handlers,
             Insert(h)
      PROVE  Progress(h)'
  BY <1>4, RegistryAssumption
     DEF Inv, TypeOK, Tables, Requests, Points, Progress, At, Insert, Goto, disk
<1>5. ASSUME NEW h \in Handlers, NEW id \in Agents, NEW purge \in BOOLEAN,
             UnregisterLock(h, id, purge)
      PROVE  Progress(h)'
  BY <1>5, RegistryAssumption
     DEF Inv, TypeOK, Tables, Requests, Points, Progress, At, UnregisterLock, MayLock, disk
<1>6. ASSUME NEW h \in Handlers,
             Delete(h)
      PROVE  Progress(h)'
  BY <1>6, RegistryAssumption
     DEF Inv, TypeOK, Tables, Requests, Points, Progress, At, Delete, Goto, disk, ghosts
<1>7. ASSUME NEW h \in Handlers,
             Purge(h)
      PROVE  Progress(h)'
  BY <1>7, RegistryAssumption
     DEF Inv, TypeOK, Tables, Requests, Points, Progress, At, Purge, Goto
<1>8. ASSUME NEW h \in Handlers,
             Collect(h)
      PROVE  Progress(h)'
  BY <1>8, RegistryAssumption
     DEF Inv, TypeOK, Tables, Requests, Points, Progress, At, Collect, Goto, disk, ghosts
<1>9. ASSUME NEW h \in Handlers,
             WriteTmp(h)
      PROVE  Progress(h)'
  BY <1>9, RegistryAssumption
     DEF Inv, TypeOK, Tables, Requests, Points, Progress, At, WriteTmp, ghosts, Goto
<1>10. ASSUME NEW h \in Handlers,
             WriteFails(h)
      PROVE  Progress(h)'
  BY <1>10, RegistryAssumption
     DEF Inv, TypeOK, Tables, Requests, Points, Progress, At, WriteFails, Goto, AfterSave, ghosts
<1>11. ASSUME NEW h \in Handlers,
             Rename(h)
      PROVE  Progress(h)'
  BY <1>11, RegistryAssumption
     DEF Inv, TypeOK, Tables, Requests, Points, Progress, At, Rename, AfterSave, ghosts
<1>12. ASSUME NEW h \in Handlers,
             RenameFails(h)
      PROVE  Progress(h)'
  BY <1>12, RegistryAssumption
     DEF Inv, TypeOK, Tables, Requests, Points, Progress, At, RenameFails, Goto, AfterSave, disk, ghosts
<1>13. ASSUME NEW h \in Handlers,
             Answer(h)
      PROVE  Progress(h)'
  BY <1>13, RegistryAssumption
     DEF Inv, TypeOK, Tables, Requests, Points, Progress, At, Answer, Unlock, Idle, disk
<1>14. ASSUME NEW h \in Handlers,
              Step(h) \/ \E id \in Agents :
                           \/ \E p \in Profiles : RegisterLock(h, id, p)
                           \/ \E purge \in BOOLEAN : UnregisterLock(h, id, purge)
       PROVE  \A k \in Handlers : Progress(k)'
  <2>1. Progress(h)'
    BY <1>1, <1>2, <1>3, <1>4, <1>5, <1>6, <1>7, <1>8, <1>9, <1>10, <1>11,
       <1>12, <1>13, <1>14 DEF Step
  <2>2. ASSUME NEW k \in Handlers, k # h
        PROVE  Progress(k)'
    BY <1>14, <2>2, Mover, OthersIdle DEF Inv
  <2> QED
    BY <2>1, <2>2
<1>15. CASE Restart
  BY <1>15 DEF Restart, Progress, At, Idle
<1>16. CASE UNCHANGED vars
  BY <1>16 DEF vars, Inv, Progress, At
<1> QED
  BY <1>14, <1>15, <1>16 DEF Next

-----------------------------------------------------------------------------
(* The file, the answers and the workspaces *)

\* The steps that neither take or answer a request nor change an entry.
Quiet ==
    \/ \E h \in Handlers : \/ Provision(h) \/ ProvisionFails(h) \/ Purge(h)
                           \/ Collect(h) \/ WriteTmp(h) \/ WriteFails(h)
                           \/ RenameFails(h)
    \/ UNCHANGED vars

\* They leave the map, the file and what was answered alone.
LEMMA QuietUnchanged ==
    ASSUME Quiet
    PROVE  UNCHANGED <<agents, file, told>>
BY DEF Quiet, Provision, ProvisionFails, Purge, Collect, WriteTmp, WriteFails,
       RenameFails, vars, disk, ghosts

\* The file is only ever replaced by a temporary file that is whole.
LEMMA WholeStep == Inv /\ [Next]_vars => FileWhole'
<1> SUFFICES ASSUME Inv, [Next]_vars
             PROVE  FileWhole'
  OBVIOUS
<1>1. ASSUME NEW h \in Handlers, Rename(h)
      PROVE  FileWhole'
  <2>1. tmp = agents /\ agents # Torn
    BY <1>1, RegistryAssumption
       DEF Rename, Inv, TypeOK, Tables, Progress, At
  <2> QED
    BY <1>1, <2>1 DEF Rename, FileWhole
<1>2. CASE UNCHANGED file
  BY <1>2 DEF Inv, FileWhole
<1> QED
  BY <1>1, <1>2, QuietUnchanged
     DEF Next, Step, Quiet, RegisterLock, UnregisterLock, Insert, Delete,
         Answer, Restart, CutOff, disk

\* Answers stay true of the map and of the file.
LEMMA KeptStep == Inv /\ [Next]_vars => Kept'
<1> SUFFICES ASSUME Inv, [Next]_vars
             PROVE  Kept'
  OBVIOUS
<1> USE RegistryAssumption DEF Inv, TypeOK, Tables, Requests, Kept
<1>1. ASSUME NEW h \in Handlers, NEW id \in Agents, NEW p \in Profiles,
             RegisterLock(h, id, p)
      PROVE  Kept'
  BY <1>1 DEF RegisterLock, disk
<1>2. ASSUME NEW h \in Handlers, NEW id \in Agents, NEW purge \in BOOLEAN,
             UnregisterLock(h, id, purge)
      PROVE  Kept'
  BY <1>2 DEF UnregisterLock, disk
<1>3. ASSUME NEW h \in Handlers, Insert(h) \/ Delete(h)
      PROVE  Kept'
  BY <1>3 DEF Progress, At, Insert, Delete, disk, ghosts
<1>4. ASSUME NEW h \in Handlers, Rename(h)
      PROVE  Kept'
  BY <1>4 DEF Progress, At, Rename, ghosts
<1>5. ASSUME NEW h \in Handlers, Answer(h)
      PROVE  Kept'
  BY <1>5 DEF Progress, At, Answer, disk
<1>6. CASE Restart
  BY <1>6 DEF Restart, CutOff, LoadPersistedAgents, FileWhole
<1>7. CASE Quiet
  BY <1>7, QuietUnchanged
<1> QED
  BY <1>1, <1>2, <1>3, <1>4, <1>5, <1>6, <1>7 DEF Next, Step, Quiet

\* Entries keep their workspaces: directories come before entries and go
\* after them, in the map and, but for a save that failed, in the file.
LEMMA ProvidedStep == Inv /\ [Next]_vars => Provided'
<1> SUFFICES ASSUME Inv, [Next]_vars
             PROVE  Provided'
  OBVIOUS
<1> USE RegistryAssumption DEF Inv, TypeOK, Tables, Requests, Provided
<1>1. ASSUME NEW h \in Handlers, Insert(h)
      PROVE  Provided'
  BY <1>1 DEF Progress, At, Insert, disk
<1>2. ASSUME NEW h \in Handlers, Delete(h)
      PROVE  Provided'
  BY <1>2 DEF Delete, disk, ghosts
<1>3. ASSUME NEW h \in Handlers, Purge(h)
      PROVE  Provided'
  BY <1>3 DEF Progress, At, Purge
<1>4. ASSUME NEW h \in Handlers, Rename(h)
      PROVE  Provided'
  BY <1>4 DEF Progress, At, Rename, ghosts
<1>5. CASE Restart
  BY <1>5 DEF Restart, CutOff, LoadPersistedAgents, FileWhole, Nobody
<1>6. CASE dirs \subseteq dirs' /\ UNCHANGED <<agents, file, orphaned>>
  BY <1>6
<1> QED
  BY <1>1, <1>2, <1>3, <1>4, <1>5, <1>6
     DEF Next, Step, RegisterLock, UnregisterLock, Provision, ProvisionFails,
         Collect, WriteTmp, WriteFails, RenameFails, Answer, vars, disk, ghosts

\* The invariant holds in every state.
LEMMA InvAlways == Spec => []Inv
<1>1. Inv /\ [Next]_vars => Inv'
  BY TypeStep, WholeStep, ProgressStep, KeptStep, ProvidedStep DEF Inv
<1> QED
  BY InvInit, <1>1, PTL DEF Spec

-----------------------------------------------------------------------------
(* The theorems *)

\* Every variable keeps its type, and the handler with a request is the one
\* that holds Manager.mu.
THEOREM TypeCorrect == Spec => []TypeOK
<1>1. Inv => TypeOK
  BY DEF Inv
<1> QED
  BY <1>1, InvAlways, PTL

\* registry.json parses in every state, whatever write a crash or an error
\* falls into.
THEOREM FileAlwaysWhole == Spec => []FileWhole
<1>1. Inv => FileWhole
  BY DEF Inv
<1> QED
  BY <1>1, InvAlways, PTL

\* What was answered after a save that worked is in the file until the client
\* asks about the agent again.
THEOREM AnswersSurvive == Spec => []AnsweredSurvives
<1>1. Inv => AnsweredSurvives
  BY DEF Inv, FileWhole, Kept, AnsweredSurvives
<1> QED
  BY <1>1, InvAlways, PTL

\* An agent that a restart brings back has its workspace, but for a purge after
\* a failed save.
THEOREM RestoredHaveWorkspaces == Spec => []RestoredHasWorkspace
<1>1. Inv => RestoredHasWorkspace
  BY DEF Inv, Provided, RestoredHasWorkspace
<1> QED
  BY <1>1, InvAlways, PTL

\* Write by write, the manager implements DurableRegistry.
THEOREM FileKeepsDurable == Spec => ImplementsDurable
<1>1. Init => Durable!Init
  BY DEF Init, Nobody, Durable!Init, Durable!Nobody
<1>2. Inv /\ [Next]_vars => [Durable!Next]_(Durable!vars)
  <2> SUFFICES ASSUME Inv, [Next]_vars
               PROVE  [Durable!Next]_(Durable!vars)
    OBVIOUS
  <2> USE RegistryAssumption DEF Inv, TypeOK, Tables, Requests
  <2>1. ASSUME NEW h \in Handlers, Insert(h)
        PROVE  Durable!Next
    <3>1. Durable!Change(req[h].id, req[h].profile)
      BY <2>1 DEF Progress, At, Insert, disk, Durable!Change
    <3>2. req[h].id \in Agents /\ req[h].profile \in Profiles
      BY <2>1 DEF Progress, At, Insert
    <3> QED
      BY <3>1, <3>2 DEF Durable!Next
  <2>2. ASSUME NEW h \in Handlers, Delete(h)
        PROVE  Durable!Next
    <3>1. Durable!Change(req[h].id, NoProfile)
      BY <2>2 DEF Progress, At, Delete, disk, Durable!Change
    <3>2. req[h].id \in Agents
      BY <2>2 DEF Progress, At, Delete
    <3> QED
      BY <3>1, <3>2 DEF Durable!Next
  <2>3. ASSUME NEW h \in Handlers, Rename(h)
        PROVE  Durable!Next
    <3>1. Durable!Save
      BY <2>3 DEF Progress, At, Rename, Durable!Save
    <3> QED
      BY <3>1 DEF Durable!Next
  <2>4. CASE Restart
    <3>1. Durable!Restart
      BY <2>4 DEF Restart, CutOff, LoadPersistedAgents, FileWhole, Nobody,
                  Durable!Restart, Durable!Nobody
    <3> QED
      BY <3>1 DEF Durable!Next
  <2>5. CASE UNCHANGED <<agents, file>>
    BY <2>5 DEF Durable!vars
  <2> QED
    BY <2>1, <2>2, <2>3, <2>4, <2>5, QuietUnchanged
       DEF Next, Step, Quiet, RegisterLock, UnregisterLock, Answer, disk
<1> QED
  BY <1>1, <1>2, InvAlways, PTL DEF Spec, ImplementsDurable, Durable!Spec
=============================================================================
