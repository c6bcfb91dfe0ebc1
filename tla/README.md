# Specifications of atomicagentd

TLA+ models of the agent daemon in `daemon/` and of the policy in `policy/`,
the TLC runs that check them and the proofs that TLAPS checks.
Line references are to the files under `src/`.

    tlc -workers 2 -config LifecycleSerial.cfg MCAgentLifecycle
    tlapm AgentLifecycleProofs.tla

## The system

`atomicagentd` keeps a record of every AI agent of a machine, runs each agent in
a transient systemd unit (its sandbox), and decides, one action at a time, what
an agent may do. One process, one goroutine for each request.

| Component | State | Operations | Talks to |
|---|---|---|---|
| `agent.Manager` (lifecycle.go) | `agents` behind `mu`: id, profile, runtime state | Register, Unregister, Start, Stop, Kill, LoadPersistedAgents | sandbox manager, engine, registry file, audit |
| `agent.SandboxManager` (sandbox.go) | none of its own; directories and systemd units | ProvisionWorkspace, StartAgent, StopAgent, KillAgent | systemd over D-Bus, file system |
| registry file (registry.go) | `registry.json`, `registry.json.tmp` | saveRegistry, loadRegistry | file system |
| `policy.Engine` (engine.go) | `queries`, `agents` behind an RWMutex, `dirs` | Evaluate, RegisterAgent, UnregisterAgent, Reload | policy files, OPA |
| Rego rules (policy/base) | none | the document `data.atomic.agent` | the engine |
| API server (server.go) | listeners | HTTP handlers, Falco webhook | manager, engine, audit |
| audit logger (logger.go) | log file behind a mutex | Log, Close | journal, file |
| daemon main (main.go) | signal loop | start-up, SIGHUP, SIGTERM | all of the above |
| `atomic-agent-ctl` | none | one API call per command | API server |

What is hard here: Start, Stop and Kill let go of the manager's lock while they
talk to systemd, so requests about one agent interleave between a claim and its
record; clients go away in the middle of a D-Bus call; alerts of Falco kill at
any moment; a restart of the daemon forgets every runtime state while the units
live on; saves of the registry fail or are cut short; policies are reloaded from
two sides while files are edited and evaluations run; one loop reloads and shuts
down, a shutdown has 30 seconds for requests that may wait for ever, and three
locks are taken inside one another from every side.

What makes each component correct:

- *Manager and sandbox manager*: an agent that is starting has a Start that will
  settle it; every request is answered; a live sandbox is one the records know of,
  has the profile it was given and keeps its workspace; a limit is a limit; the
  audit trail tells what happened.
- *Registry file*: whole at every moment; what was answered survives; what it
  brings back can be started.
- *Engine*: a decision goes by a record and a query that were in force together;
  a reload is all or nothing, never goes back, and ends; the engine's records are
  the manager's.
- *Rules*: deny wins over allow, what is not granted is refused, the image's profiles are nested,
  an added rule works in the direction and for the callers it was written for.
- *API server, audit logger, daemon main*: what is answered is in the trail; a
  shutdown cuts off nobody before its 30 seconds and is the last event; SIGTERM ends
  the process and SIGHUP reloads, whatever requests hang.
- *Locks*: each is given back, nobody waits in a circle, and nobody holds one while
  waiting for systemd.

## The modules

| Module | Models | Runs |
|---|---|---|
| `AgentContract` | what the manager promises: an agent is added, launched, ended and removed in a sane order | property of `lifecycle_serial` |
| `SandboxContract` | what is left of that when requests overlap and anything fails: one launch for each Start, with the profile of its claim, and no success for somebody else's sandbox | property of `lifecycle_concurrent` |
| `AgentLifecycle` | manager, sandbox manager, systemd's units and jobs, restarts | `lifecycle_*`, `unregister_race`, `stuck_stopping` |
| `DurableRegistry` | what the registry promises: the file holds the map of some earlier moment, whole | property of `lifecycle_registry` and `registry_crash` |
| `RegistryFile` | Register and Unregister write by write, with a crash at any of them | `registry_crash` |
| `PolicyEngine` | the engine's lock, evaluations, reloads, files that change | `policy_*`, `custom_profile` |
| `PolicyRules` | the decision of the Rego rules, with rules added by operators | `rules_overlay` |
| `DaemonServer` | one process from start-up to exit: signals, both HTTP servers, requests, the audit trail | `daemon_shutdown` |
| `DaemonLocks` | the mutexes of manager, engine and logger in the order the code takes them | `lock_order` |
| `AgentLifecycleProofs` and `AgentOverlapProofs` | theorems about `AgentLifecycle`: the second those that hold under all overlaps and faults alone | |
| `RegistryFileProofs`, `PolicyEngineProofs`, `PolicyRulesProofs`, `DaemonServerProofs`, `DaemonLocksProofs` | theorems about the module of the same name | |
| `MC...` | symmetry sets for TLC | |

### AgentLifecycle

Each handler of the API is a goroutine with a program counter (`pc`). Register
and Unregister hold `Manager.mu` from the first check to the last write and are
one action each. Start is `StartClaim` (the locked check and the state
`starting`, with the profile read under the lock), `StartReset` (the failed unit
of an earlier run is forgotten), `StartLaunch` or `StartRefused` (the D-Bus
call), the wait for the job's channel, `StartRecord` or `StartFail` (the second
critical section) and `StartAudit`. Stop and Kill are cut at the same places.
`KillAgent` leaves a goroutine behind that resets the unit two seconds later:
`resets` counts those that sleep.

A handler keeps the `*RuntimeAgent` it found at its claim. `current` says whether
that record is still the one in the map; after a removal its writes are seen by
nobody (`Recorded`).

systemd is modelled from how `sandbox.go` uses it: `StartTransientUnit` with mode
`fail` needs a name that is not loaded, `StopUnit` with mode `replace` cancels a
queued start job, a second stop joins the first (and the client library then
answers only the last waiter on that job), units are collected when they end
cleanly and stay as `failed` otherwise.

`Faults` chooses what may go wrong: `"crash"` (the daemon dies and comes back),
`"dbus"` (a call whose outcome the daemon does not learn, also because the client
has gone away), `"disk"` (a save or a read of the registry fails). `Serial` says
that clients have at most one request about an agent open, as one operator with
`atomic-agent-ctl` does (cmd/atomic-agent-ctl/main.go:361-406). Falco's kills count as requests:
a serial run leaves out those that fall into another request, the concurrent runs
have them.

Two abstract specifications are implemented. `AgentContract` is for clients that
wait for their answers. `SandboxContract` is for all: it sees the profile of each record
(`known <- profile`), the Start or Stop that each handler serves and how far it is
(`asked <- Asked`, from the program counter by `Stage`; a Kill asks for nothing), and the profile
each unit with processes was launched with (`live <- Live`). What it leaves out is the runtime
state, which overlapping requests may leave wrong.

### RegistryFile

The same Register and Unregister, cut at each change of a directory, the map or a
file; the units are left out. `told` is what the client was answered after a save that
worked, `orphaned` the agents that were purged although the save before had
failed. `Restart` can fall between any two steps and into a write, which
leaves a `Torn` temporary file. `DurableRegistry` is the abstract specification
for both granularities: with `memory <- agents, saved <- file` here and
`memory <- profile, saved <- registryFile` in `AgentLifecycle`, which is the reason why taking
a save as one step there is sound.

### PolicyEngine

A query is known by the files it was compiled from; each edit stamps its file, so
"older" and "newer" are comparisons of stamps. `writer` is the RWMutex as Go
has it: a writer that waits keeps new readers out, and readers that were kept out
get the lock before the next writer. `prepareQuery` reads the image's files and
the operator's at two moments, with edits in between. `dirs` is fixed at start-up.

### PolicyRules

The rules compare strings: `startswith` and equality on the resource as the request has it
(agent_permissions.rego:64-133), and nothing on the way cleans or resolves it
(server.go:253-257). So a resource of the model is a class of strings, by what they
start with or are (`Paths`) and by the ranges and lists they fall into (`Endpoints`), and
the properties speak of these strings. What a string leads to is a different question (see
the disagreements). The agents' directory is the literal one of the rules, the default of `workspace_root`.

`action` is what is asked about, of every type; every agent under every profile is
taken to ask (`Callers`). `overlay` holds the rules of the override directory whose
conditions on this action are true, up to `MaxRules`, each with a head of the package and the
agents and profiles it covers: any sets of them, since a rule may test `input.agent`
and a rule in `profiles/<p>.rego` is loaded for p alone (engine.go:80-84). A rule with any
other condition on the agent is several of these. Rules about other actions change
nothing. A second value for `allowed_binaries` conflicts with the first; the engine asks for the whole
document, so the evaluation fails.

### DaemonServer

`phase` is where `run()` is: the steps of start-up in their order, the signal loop
(`serving`, `reloading`), the two drains of `Shutdown` (Falco's server, then the
API's, with one timer of 30 seconds for both), the farewell event and the deferred
calls, which close the D-Bus connection and then the log file. `signals` is
`sigCh`, which holds one signal; the runtime drops what finds it full
(`Deliver`), and before `signal.Notify` any signal ends the process
(`KilledByDefault`).

A request is one of the five `Kinds` the handlers do not treat alike: reads, calls
with an event, calls that wait for a job of systemd, alerts, and critical alerts,
which are logged, kill, and log the kill. `trail` is what the journal has, `missing`
what the file has not got because it was closed, `late` what came after
`daemon.shutdown`. What the manager or the engine do for a request is in
`AgentLifecycle` and `PolicyEngine`; here such a call succeeds, fails or waits.

### DaemonLocks

A goroutine is `before` a critical section, has `asked` for its lock (the first half
of a Go `Lock`, which shuts out new readers) or is `inside`. `Inner` and `After` are
the order the code takes locks in: Register and Unregister enter the engine's section
and the logger's with the manager's lock held; everybody else has one at a time.
A goroutine at `call` waits for systemd and holds none.

## The runs

| Run | Instance | States | Shows |
|---|---|---|---|
| `lifecycle_concurrent` | 1 agent, 2 handlers, 2 profiles, all faults, fair | 340 thousand | types; `StartingOwned`; every start is settled and every request answered; `SandboxContract` |
| `lifecycle_registry` | 2 agents, 2 profiles, limit 1, crashes, failed saves | 642 thousand | engine and manager in sync, the limit on map and file, `DurableRegistry` |
| `lifecycle_serial` | 2 agents, 2 handlers, 2 profiles, limit 1, failed saves | 347 thousand | live sandboxes are accounted for, and are what the records say; a Stop stops; the limit and the trail; `AgentContract` |
| `registry_crash` | 3 agents, 2 handlers, limit 2, all faults | 281 thousand | the four invariants of the file, `DurableRegistry` |
| `policy_reload` | 2 profiles, 2 reloaders, 2 edits | 122 thousand | reloads are atomic, take effect and never go back |
| `policy_serving` | 1 agent, a known and a custom profile, 1 evaluator, 2 reloaders, 1 edit, fair | 94 thousand | decisions by what was in force; nothing waits for ever |
| `rules_overlay` | any action, 2 agents, 3 profiles, any 2 added rules for any of them | 502 thousand | the rules under additions |
| `daemon_shutdown` | 2 requests of any kind, 3 signals, fair | 689 thousand | answers are in the trail, a shutdown is graceful, last and certain |
| `lock_order` | 3 goroutines, fair | 14 thousand | each lock is given back and granted, nobody waits in a circle |
| `unregister_race`, `stuck_stopping`, `custom_profile` | smallest that show it | | disagreements, see below |

Why the bounds are enough. One agent and two handlers give every overlap of two
requests, which is where the lock is released; agents meet only in the limit, in
the map and in the file, for which there are runs with two and three. One sleeping reset
per unit (`MaxResets`) is enough to hit the next incarnation. Two edits let a file
change during each of two reloads, and let a broken file be repaired. Two added rules
are the smallest set with one for and one against. Two requests, one through each
listener, are what the two drains can tell apart; three signals are one in the
channel, one that finds it full and one for after. Three goroutines are the
smallest number with a writer inside, a writer that has asked and a reader kept out
behind it. What is proved (below) does not depend on any of these bounds.

Deadlock is checked in every run but `daemon_shutdown`, whose process ends: clients
can always ask again.

Fairness. `lifecycle_concurrent` assumes that a goroutine that can run runs
(weak fairness of each handler's next step) and that systemd ends each job it
has accepted (weak fairness of `JobEnds`: activation either succeeds or fails,
and systemd's default timeouts bound both). Neither requests, crashes, exits nor delayed
resets are assumed to happen. `policy_serving` assumes that goroutines run and, for the
write lock, strong fairness of `ReloadAcquire`: Go's mutex hands the lock over to a
waiter that has starved for a millisecond. Edits and new requests are never
forced. `daemon_shutdown` assumes that `run()` goes on and that the 30 seconds pass,
and nothing of requests: a client may never send its body and systemd may never
answer. `lock_order` assumes that whoever holds a lock goes on, and strong fairness
of `Ask` and `RLock`, because Go's mutexes starve nobody; no call to systemd has to
return.

Definitions marked *Mutant* are plausible bugs of the definition that follows
them (a dropped guard, a missing reset); each property was seen to fail for one.

## Disagreements found

- `unregister_race`: two overlapping Starts and a Stop leave a live unit under a
  record that says `failed`, which Unregister then removes, although "the agent must
  not be running or starting" (lifecycle.go:117).
- `stuck_stopping`: Stop of an agent without a unit leaves `stopping`, which
  Unregister refuses with an advice that cannot be followed (lifecycle.go:128).
- `custom_profile`: the list of profiles is fixed in the code (engine.go:49,
  engine.go:196), while docs/agent-profiles.md:72 says they can be added.

Met while modelling, without a run of their own:

- A restart restores a running agent as `registered` (lifecycle.go:173), and
  Unregister removes it; a D-Bus reply that is lost has the same effect through
  `failed`. Both break `UnregisterOnlyWhenDown`, as `unregister_race` does.
- Evaluate reads `allow` alone (engine.go:148), while docs/architecture.md:79 says
  that an action is allowed only if `deny_rule_matches` is false as well: a rule that
  sets `allow`, as the example at docs/policy-reference.md:61 does, overrides every
  deny rule. `AreasKept` excepts exactly those rules.
- A SIGTERM that arrives during a reload behind a SIGHUP that fills `sigCh` is
  dropped (main.go:168): `TermObeyed` speaks of a SIGTERM that has found room.
- A SIGHUP between READY and `signal.Notify` (main.go:161-169) kills the daemon with
  its requests: `GracefulCutsNobody` excepts `killed`.
- An evaluation that fails leaves no audit event (server.go:262), while
  docs/architecture.md:89 says "Every decision produces a JSON event".
- `atomic-agent-ctl` gives up after 30 seconds (main.go:368 there) and a Stop may last
  longer: an operator who then asks again has two requests open, which `Serial` excludes.
- A Stop whose job another Stop has joined is not answered before the process ends,
  and makes a shutdown take all of its 30 seconds.
- No rule allows `exec` (docs/agent-profiles.md promises toolchains to
  two profiles) or `filesystem_delete`; private ranges and `/etc` are closed to the
  infrastructure profile too (docs/agent-profiles.md says open); minimal agents are
  allowed tool calls and localhost; filesystem_policy.rego and the profile files are
  read by no rule of the decision.
- The rules judge a path by its spelling. docs/architecture.md:135 names them as a protection of
  one agent's workspace from another, but a path that is not in its shortest form, or a link, may
  start with one directory and lead to another; a name may stand for an address that is
  blocked. What then remains is the sandbox, in which only the agent's own workspace is writable
  (sandbox.go:118-123, 146), and Falco; the iptables rules that infrastructure.rego:27 and
  docs/architecture.md:134 name for the metadata service are set by no code of the repository.
  `AreasKept` and `UngrantedStaysOut` say nothing of this.
- `/etc/shadow` and `/etc/gshadow` are "always denied for reads" (docs/policy-reference.md:111-114),
  by an "OPA deny rule" (docs/architecture.md:131): the deny rule for them is for writes and
  deletions (agent_permissions.rego:119-122), reads are refused only because no rule of the image
  allows them, and an added `some_allow_rule_matches` opens them.
- "Profile-specific files in `profiles/` can only expand permissions"
  (docs/policy-reference.md:91): a file of that directory may set `deny_rule_matches`, or a value
  that conflicts, and then refuses what the base allows. `AddedRulesAct` tells the two kinds of rules apart.
- `auto_kill_on_critical` of the configuration is parsed and never read.
- A record of `running` outlives a process that has ended by itself.
- An override directory that is created after start-up is not searched before a
  restart (engine.go:33).

## The proofs

`AgentLifecycleProofs` (any finite set of agents, any handlers, profiles and
limit):

- `TypeCorrect`: from `Typed`, which adds to `TypeOK` that a handler between its claim
  and its answer has an agent to work on. Without it the next record could
  not be typed.
- `PolicyAlwaysInSync`, `CapAlwaysHolds` and `RegistryKeepsDurable` need no strengthening but types:
  `EntriesUnchanged` shows that only Register, Unregister and Restart touch the
  entries, and each is looked at in turn.
- `StartingAlwaysOwned`: an agent in `starting` has a Start under way that holds its
  current record. Steps of other handlers cannot take it away (`OwnerStays`).
- `StoppedAlwaysDown` assumes `Serial`, one request per agent at a time, and no more: crashes,
  lost replies and failed saves are all allowed. The invariant is
  `SerialInv`: no two handlers name one agent (`Apart`), what the unit and the state
  of an agent can be at each point of its handler (`Phase`), and what they can be when
  there is none (`Settled`). The pair of state and unit alone is not
  inductive: `stopped` beside a live unit is excluded only by knowing that the
  Stop that wrote it saw the job end.
- `SandboxAlwaysAccounted`, `RunningAlwaysCapped`, `ManagerKeepsContract`,
  `SandboxAlwaysAsRecorded` and `RemovedOnlyWhenDown` assume `Orderly`: `Serial`, and no fault
  but a full disk (`Clean`). They are false without either (see the disagreements). They rest
  on the conjuncts of `SerialInv` that begin with `Clean`. `RemovedOnlyWhenDown` is the property
  that `unregister_race` violates: the theorem says for which clients the documentation is right.
  `Launched` says of a Start that it still holds the profile of the entry it
  will launch for, which is what reading it long before the launch needs.
- `AuditAlwaysAgrees` assumes `Serial` and that the daemon does not die; replies may be
  lost. `Trail` adds to `AuditAgrees` that nobody touches a killed agent until its kill is
  logged.

`AgentOverlapProofs` has no hypothesis on clients or faults:

- `NobodyWaitsInVain`: StartAgent and StopAgent read their channels without a timeout.
  `JobsAwaited` says that whoever reads one waits for a job that is there, a Start for the unit it
  has launched itself and a Stop for a stop job, and that no two wait for the same job. It
  is inductive because a second stop job takes the waiter of the first off it (`lost`), and because
  every step that ends a unit answers those that wait for it.
- `RequestsOnlyAdvance`: every program counter has a `Distance` from `idle` that no step
  of anybody raises while the request is open. With the theorem before, this is the safety half of
  `RequestsReturn`; what is missing is that enabled steps are taken.
- `ManagerKeepsSandboxContract`: each action is a step of the contract or invisible to it. Beside
  `JobsAwaited` this needs `ProfilesGiven` (a Start that is to launch has a profile, and so has a unit
  with processes), because the contract takes a sandbox without one for none. An end of
  a unit maps to `End` with the Starts that waited for it failed and the Stops among
  `ended`; a stop job that replaces a start job fails the Start in the step in which the Stop
  goes on waiting, which is a `Return`.

`RegistryFileProofs` (any agents, handlers, limit, faults): `FileAlwaysWhole`, `AnswersSurvive`,
`RestoredHaveWorkspaces`, `FileKeepsDurable` and `TypeCorrect`, from one
invariant `Inv`. `Progress` says what the request that holds the lock has done
so far, in particular that what it has collected and written is still the map (nobody else
could change it); `Kept` adds the map to what `AnsweredSurvives` says of the file,
because the next save about another agent writes the map; `Provided` does the
same for workspaces. The argument rests on mutual exclusion alone (`Alone`).

`PolicyEngineProofs` (any profiles, agents, evaluators and reloaders, any number of
edits): `TypeCorrect`, `QueriesAlwaysCompile`, `ReloadsTakeEffect`, `DecisionsInForce`,
`ReloadsAllOrNothing` and `ReloadsNeverOlder`, from one invariant `Inv`. Its heart is
`Stamped`: no query is newer than the files, and what a reload has collected lies
between what is in force and what is on disk, because only the holder of the lock
changes queries. `NeverOlder` compares two states and is not a consequence of the
stamps of one; without `Stamped` a reload could install what another has overtaken. `ReloadAllOrNothing`
says of the step in which queries change that a reload with the lock succeeds in it, that all of
what it has prepared and nothing else is in force after it, and that none of it is older than its request.
`Seen` carries an evaluation from its lock to its decision: what it goes by is in
`inForce`, which only grows. What liveness rests on: `NoLostWakeup` (`LockKept`: a blocked
evaluation has a reload that will wake it, and nobody reads while a reload works) and
`ReloadsOnlyAdvance` (`Advances`: each step under the write lock prepares a profile that is not yet
prepared, `Ahead`, or gives the lock back).

`PolicyRulesProofs` (any agents, any number of added rules for any agents and profiles, no
bound on the overlay): `AreasAlwaysKept`, `UngrantedAlwaysOut`, `ProfilesAlwaysNested` and
`AddedRulesAlwaysAct`. The three invariants hold for every overlay, by the rules alone.
`ProfilesNested` is not unconditional: an operator can give a narrow profile more than a wide one. The
theorem says that this takes a rule that covers one of the two and not the other, because the
image's own rules name profiles upwards closed. `AddedRulesAct` compares the decision before and
after an addition and rests on each head occurring with one sign only on its way to `allow`; that a
rule leaves other callers alone holds for the failing evaluation too.

`DaemonServerProofs` (any requests, any number of signals): `TypeCorrect`,
`AnswersLogged`, `FarewellLast` and `ShutdownGraceful`. `Reachable` says in which phases
a listener is open and a request can be under way; `Served` that a request which came
through a listener is done once that listener's drain is over, unless the timer has
expired; `Farewelled` and `Recorded` place the events. `SignalsStand`: a SIGHUP that has been sent
is served or stands behind a signal in the channel, although one that finds it full is dropped, and
a drain always has its deadline. `ShutdownOnlyAdvances`: a SIGTERM in the channel stays until the
shutdown begins, and the phases that follow go one way only.

`DaemonLocksProofs` (any goroutines): `TypeCorrect` and `CirclesImpossible`. Every
goroutine has a `Distance` from going on by itself that goes down along who waits for whom:
whoever waits for the manager's lock is further away than its holder, that one than
the holders of the engine's lock and the logger's, and a writer that has asked further
than the readers it waits for. A group that waits in a circle has a member of least
distance, and that one waits for none of them. The same argument gives
`LocksNeverStandStill`: whenever somebody waits, somebody who has a lock or has asked for one waits for nobody, and
no call to systemd is made under a lock. `SectionsExclusive` is mutual
exclusion: whoever is inside a section with a writer is that writer, also while Register and
Unregister are in the nested sections of the engine and the logger, which takes
`EntryAlone` (the readers have left before an entry is changed). This grounds the grain of the other modules:
Register and Unregister are one action each in `AgentLifecycle`, and an evaluation in
`PolicyEngine` reads record and query in one.

The assumptions on constants are those stated in the modules: distinct
placeholders, finite `Agents`, limits in `Nat`, and in `PolicyEngine` that no profile
is named `base` or `override`, because it would share a file of the model with a
directory.

Only model-checked: liveness (`StartingResolves`, `RequestsReturn`,
`EvaluationReturns`, `ReloadReturns`, `TermObeyed`, `HangupServed`, `LocksGranted`),
which needs ENABLED and is out of the prover's reach. The safety halves they rest on are proved:
`StartingAlwaysOwned`, `NobodyWaitsInVain` and `RequestsOnlyAdvance` for the first two, `NoLostWakeup` and
`ReloadsOnlyAdvance` for the engine, `SignalsStand` and `ShutdownOnlyAdvances` for the
signals, `LocksNeverStandStill` for the locks. Every other property of a
passing run is also the statement of a theorem. No module declares a RECURSIVE operator
and nothing needs induction over data.

## Not modelled

- What a path or a name leads to: links, `..`, name resolution and other spellings of an address are
  not seen by the rules and not by `PolicyRules`; nor a `workspace_root` other than the default, under which the
  literal directory of agent_permissions.rego:133 would be another one.
- The form of identifiers and tokens (identity.go), the hardening options of a unit,
  formats of files and messages, arguments and output of `atomic-agent-ctl`: functions on
  data without state.
- Falco's own rules, the operating system image, build scripts and the demo agent:
  other programs and static configuration.
- Losing power, as opposed to losing the process: neither file nor directory is synced
  before the rename (registry.go:54), and what remains is up to the file system.
- What a client is shown of a record that is read without the lock (server.go:174).
- An error of the journal or of the log file while both are open: the code falls back to
  stderr for the one and ignores the other.
- A crash of the process in `DaemonServer`: nothing of that module survives it; what does is
  in `AgentLifecycle` and `RegistryFile`.
- The values that filesystem_policy.rego and the profile files declare: the decision reads none.
- LoadPersistedAgents in `DaemonLocks`: it takes the manager's lock and then the engine's, in
  the order of Register, before there is a second goroutine.

## State of the plan

Done: every component with state of its own (`AgentLifecycle`, `RegistryFile`,
`PolicyEngine`, `PolicyRules`, `DaemonServer`, `DaemonLocks`), the three abstract
specifications with their refinements, and a proof of each safety property that a
passing run checks.

Left, in the order of what it would add: an abstract specification of the engine, in which
evaluations and reloads are one step each, and its refinement; a finer `DaemonServer` in which
the trail's journal and file fail separately.
