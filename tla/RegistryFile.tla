---------------------------- MODULE RegistryFile ----------------------------
(***************************************************************************)
(* How Register and Unregister of the lifecycle manager change directories *)
(* and registry.json, write by write, and what LoadPersistedAgents finds   *)
(* after the daemon has died between two of them.                          *)
(*                                                                         *)
(* AgentLifecycle takes each of these requests as one action; here the     *)
(* units are left out instead, and with them the guard of Unregister on    *)
(* the runtime state.                                                      *)
(***************************************************************************)
EXTENDS Naturals, FiniteSets

CONSTANTS
    Agents,     \* agent identifiers
    Profiles,   \* capability profiles
    Handlers,   \* goroutines serving Register and Unregister
    MaxAgents,  \* ManagerConfig.MaxAgents, 0 for no limit
    Faults,     \* which of "crash", "disk" and "read" may happen
    NoProfile,  \* the profile of an agent that has no entry
    NoHandler,  \* holder of the lock when nobody holds it
    Torn,       \* a file whose writing was cut short: JSON does not parse it
    Open        \* told: no answer the client could rely on

ASSUME RegistryAssumption ==
    /\ IsFiniteSet(Agents)
    /\ MaxAgents \in Nat
    /\ NoProfile \notin Profiles
    /\ NoHandler \notin Handlers
    /\ Torn \notin [Agents -> Profiles \cup {NoProfile}]
    /\ Open \notin Profiles \cup {NoProfile}
    /\ Faults \subseteq {"crash", "disk", "read"}

VARIABLES
    agents,    \* Manager.agents: the profile of each entry
    lock,      \* the handler that holds Manager.mu
    req,       \* the request each handler serves and where it is
    entries,   \* what saveRegistry of each handler has collected
    file,      \* registry.json; a missing file is one without entries
    tmp,       \* registry.json.tmp
    dirs,      \* agents that have a directory with a workspace
    told,      \* ghost: the profile the client knows to be saved, or Open
    orphaned   \* ghost: removals that were purged although not saved

vars == <<agents, lock, req, entries, file, tmp, dirs, told, orphaned>>

disk == <<file, tmp, dirs>>
ghosts == <<told, orphaned>>

Nobody == [id \in Agents |-> NoProfile]

Tables == [Agents -> Profiles \cup {NoProfile}]

Points == {"idle", "provision", "insert", "delete", "collect", "write", "rename",
           "purge", "answer"}

Requests == [pc : Points, id : Agents \cup {NoProfile},
             profile : Profiles \cup {NoProfile},
             purge : BOOLEAN, saved : BOOLEAN]

Idle == [pc |-> "idle", id |-> NoProfile, profile |-> NoProfile,
         purge |-> FALSE, saved |-> FALSE]

Registered == {id \in Agents : agents[id] # NoProfile}

At(h, point) == req[h].pc = point

Goto(h, point) == req' = [req EXCEPT ![h].pc = point]

\* defer m.mu.Unlock(): the request is over and the lock free.
Unlock(h) == lock' = NoHandler /\ req' = [req EXCEPT ![h] = Idle]

Init ==
    /\ agents = Nobody
    /\ lock = NoHandler
    /\ req = [h \in Handlers |-> Idle]
    /\ entries = [h \in Handlers |-> Nobody]
    /\ file = Nobody
    /\ tmp = Nobody
    /\ dirs = {}
    /\ told = Nobody
    /\ orphaned = {}

-----------------------------------------------------------------------------
(* Register *)

\* Mutant: the lock is taken for the map and not for the file.
MayLockUnsaved ==
    \A h \in Handlers : lock = h => req[h].pc \in {"write", "rename"}

MayLock == lock = NoHandler

RegisterLock(h, id, p) ==
    /\ At(h, "idle")
    /\ MayLock
    /\ agents[id] = NoProfile
    /\ MaxAgents > 0 => Cardinality(Registered) < MaxAgents
    /\ lock' = h
    /\ req' = [req EXCEPT ![h] = [pc |-> "provision", id |-> id, profile |-> p,
                                  purge |-> FALSE, saved |-> FALSE]]
    /\ told' = [told EXCEPT ![id] = Open]
    /\ UNCHANGED <<agents, entries, disk, orphaned>>

Provision(h) ==
    /\ At(h, "provision")
    /\ dirs' = dirs \cup {req[h].id}
    /\ Goto(h, "insert")
    /\ UNCHANGED <<agents, lock, entries, file, tmp, ghosts>>

\* A directory cannot be made, or the metadata file in it not written.
ProvisionFails(h) ==
    /\ "disk" \in Faults
    /\ At(h, "provision")
    /\ dirs' \in {dirs, dirs \cup {req[h].id}}
    /\ Unlock(h)
    /\ UNCHANGED <<agents, entries, file, tmp, ghosts>>

Insert(h) ==
    /\ At(h, "insert")
    /\ agents' = [agents EXCEPT ![req[h].id] = req[h].profile]
    /\ orphaned' = orphaned \ {req[h].id}
    /\ Goto(h, "collect")
    /\ UNCHANGED <<lock, entries, disk, told>>

-----------------------------------------------------------------------------
(* Unregister *)

UnregisterLock(h, id, purge) ==
    /\ At(h, "idle")
    /\ MayLock
    /\ agents[id] # NoProfile
    /\ lock' = h
    /\ req' = [req EXCEPT ![h] = [pc |-> "delete", id |-> id,
                                  profile |-> NoProfile, purge |-> purge,
                                  saved |-> FALSE]]
    /\ told' = [told EXCEPT ![id] = Open]
    /\ UNCHANGED <<agents, entries, disk, orphaned>>

\* Mutant: the directory is removed before the file is written.
DeletePurging(h) ==
    /\ At(h, "delete")
    /\ agents' = [agents EXCEPT ![req[h].id] = NoProfile]
    /\ dirs' = IF req[h].purge THEN dirs \ {req[h].id} ELSE dirs
    /\ Goto(h, "collect")
    /\ UNCHANGED <<lock, entries, file, tmp, ghosts>>

Delete(h) ==
    /\ At(h, "delete")
    /\ agents' = [agents EXCEPT ![req[h].id] = NoProfile]
    /\ Goto(h, "collect")
    /\ UNCHANGED <<lock, entries, disk, ghosts>>

\* os.RemoveAll, whose error is logged.
Purge(h) ==
    /\ At(h, "purge")
    /\ \/ /\ dirs' = dirs \ {req[h].id}
          /\ orphaned' = IF req[h].saved THEN orphaned
                                         ELSE orphaned \cup {req[h].id}
       \/ "disk" \in Faults /\ UNCHANGED <<dirs, orphaned>>
    /\ Goto(h, "answer")
    /\ UNCHANGED <<agents, lock, entries, file, tmp, told>>

-----------------------------------------------------------------------------
(* saveRegistry *)

\* Where a request goes when saveRegistry has returned.
AfterSave(h) == IF req[h].purge THEN "purge" ELSE "answer"

Collect(h) ==
    /\ At(h, "collect")
    /\ entries' = [entries EXCEPT ![h] = agents]
    /\ Goto(h, "write")
    /\ UNCHANGED <<agents, lock, disk, ghosts>>

\* Mutant: registry.json itself is written.
WriteInPlace(h) ==
    /\ At(h, "write")
    /\ tmp' = entries[h]
    /\ file' = Torn
    /\ Goto(h, "rename")
    /\ UNCHANGED <<agents, lock, entries, dirs, ghosts>>

\* os.WriteFile truncates what an earlier save has left in the way.
WriteTmp(h) ==
    /\ At(h, "write")
    /\ tmp' = entries[h]
    /\ Goto(h, "rename")
    /\ UNCHANGED <<agents, lock, entries, file, dirs, ghosts>>

\* Mutant: the error of os.WriteFile is not returned.
WriteFailsUnseen(h) ==
    /\ "disk" \in Faults
    /\ At(h, "write")
    /\ tmp' \in {tmp, Torn}
    /\ Goto(h, "rename")
    /\ UNCHANGED <<agents, lock, entries, file, dirs, ghosts>>

\* The disk is full or read-only; the callers log the error and go on.
WriteFails(h) ==
    /\ "disk" \in Faults
    /\ At(h, "write")
    /\ tmp' \in {tmp, Torn}
    /\ Goto(h, AfterSave(h))
    /\ UNCHANGED <<agents, lock, entries, file, dirs, ghosts>>

Rename(h) ==
    /\ At(h, "rename")
    /\ file' = tmp
    /\ tmp' = Nobody
    /\ req' = [req EXCEPT ![h].pc = AfterSave(h), ![h].saved = TRUE]
    /\ UNCHANGED <<agents, lock, entries, dirs, ghosts>>

RenameFails(h) ==
    /\ "disk" \in Faults
    /\ At(h, "rename")
    /\ Goto(h, AfterSave(h))
    /\ UNCHANGED <<agents, lock, entries, disk, ghosts>>

\* The event is logged, the lock released and the client answered.
Answer(h) ==
    /\ At(h, "answer")
    /\ told' = IF req[h].saved THEN [told EXCEPT ![req[h].id] = req[h].profile]
                               ELSE told
    /\ Unlock(h)
    /\ UNCHANGED <<agents, entries, disk, orphaned>>

-----------------------------------------------------------------------------
(* The end of the daemon *)

\* A crash cuts off the write it falls into.
CutOff ==
    /\ \/ UNCHANGED tmp
       \/ tmp' = Torn /\ \E h \in Handlers : At(h, "write")
    /\ UNCHANGED <<file, dirs>>

\* loadRegistry reads and parses the file; run() logs its error and carries on
\* with no agents.
LoadPersistedAgents ==
    \/ file # Torn /\ agents' = file /\ UNCHANGED told
    \/ /\ file = Torn \/ "read" \in Faults
       /\ agents' = Nobody
       /\ told' = [id \in Agents |-> Open]

Restart ==
    /\ "crash" \in Faults
    /\ CutOff
    /\ LoadPersistedAgents
    /\ lock' = NoHandler
    /\ req' = [h \in Handlers |-> Idle]
    /\ entries' = [h \in Handlers |-> Nobody]
    /\ UNCHANGED orphaned

-----------------------------------------------------------------------------

Step(h) ==
    \/ Provision(h) \/ ProvisionFails(h) \/ Insert(h)
    \/ Delete(h) \/ Purge(h)
    \/ Collect(h) \/ WriteTmp(h) \/ WriteFails(h) \/ Rename(h) \/ RenameFails(h)
    \/ Answer(h)

Next ==
    \/ \E h \in Handlers, id \in Agents :
          \/ \E p \in Profiles : RegisterLock(h, id, p)
          \/ \E purge \in BOOLEAN : UnregisterLock(h, id, purge)
    \/ \E h \in Handlers : Step(h)
    \/ Restart

Spec == Init /\ [][Next]_vars

-----------------------------------------------------------------------------
(* Properties *)

\* Every variable has its type, and the handler that has a request is the one
\* that holds the lock.
TypeOK ==
    /\ agents \in Tables
    /\ lock \in Handlers \cup {NoHandler}
    /\ req \in [Handlers -> Requests]
    /\ entries \in [Handlers -> Tables]
    /\ file \in Tables \cup {Torn}
    /\ tmp \in Tables \cup {Torn}
    /\ dirs \subseteq Agents
    /\ told \in [Agents -> Profiles \cup {NoProfile, Open}]
    /\ orphaned \subseteq Agents
    /\ \A h \in Handlers : ~At(h, "idle") <=> lock = h

\* registry.json parses at every moment, so that a restart never starts from
\* a file that is half written: torn writes stay in the temporary file, and
\* no later save carries them over.
FileWhole == file # Torn

\* What a client was answered after a save that worked survives: requests
\* about other agents, failed saves and a crash at any write leave the entry,
\* or its absence, in the file until the client asks again.
AnsweredSurvives ==
    \A id \in Agents : told[id] # Open => file # Torn /\ file[id] = told[id]

\* An agent that a restart brings back has its workspace (its unit cannot be
\* started without): a crash between the directories and the file leaves a
\* directory without an entry and never the other way round, but for a purge
\* that went on after its save had failed.
RestoredHasWorkspace ==
    \A id \in Agents :
        file # Torn /\ file[id] # NoProfile /\ id \notin orphaned => id \in dirs

\* The file changes only from the entries of one moment to those of a later
\* one, as DurableRegistry has it.
Durable == INSTANCE DurableRegistry WITH memory <- agents, saved <- file

ImplementsDurable == Durable!Spec
=============================================================================
