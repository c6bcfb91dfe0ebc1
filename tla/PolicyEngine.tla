---------------------------- MODULE PolicyEngine ----------------------------
(***************************************************************************)
(* policy.Engine: the prepared query of each profile and the record of     *)
(* each agent behind one RWMutex, evaluations that run against them, and   *)
(* reloads that read the policy files again while operators edit them.     *)
(*                                                                         *)
(* What a query answers is the subject of the rules and not of this        *)
(* module: a query is known by the files it was compiled from.             *)
(***************************************************************************)
EXTENDS Naturals

CONSTANTS
    Agents,      \* agent identifiers
    Profiles,    \* profile names: Register accepts any string
    Loaded,      \* the three names loadPolicies and Reload go through
    Evaluators,  \* goroutines serving Evaluate
    Reloaders,   \* goroutines serving Reload: API requests and SIGHUP
    MaxEdits,    \* bound of the model: edits of policy files
    NoProfile,   \* the profile of an agent that has no record
    NoReloader   \* holder of the write lock when nobody holds it

ASSUME EngineAssumption ==
    /\ Loaded \subseteq Profiles
    /\ MaxEdits \in Nat
    /\ NoProfile \notin Profiles
    /\ NoReloader \notin Reloaders

ASSUME FilesAssumption == "base" \notin Profiles /\ "override" \notin Profiles

\* The base files of the image, those of the operator, and one overlay for
\* each profile.
Files == {"base", "override"} \cup Profiles

Kinds == {"good", "broken", "absent"}

Content == [stamp : 0..MaxEdits, kind : Kinds]

Absent == [stamp |-> 0, kind |-> "absent"]

Query == [base : Content, override : Content, overlay : Content]

VARIABLES
    disk,      \* the policy files
    edits,     \* how many edits there have been: stamps the next one
    dirs,      \* Engine.dirs, fixed by NewEngine
    queries,   \* Engine.queries
    agents,    \* Engine.agents: the profile of each record
    writer,    \* the reloader that holds, or drains, the write lock
    eval,      \* what each evaluator is doing
    inForce,   \* ghost: records and queries in force since it began
    load,      \* what each reloader is doing
    fresh      \* newQueries of each reloader

vars == <<disk, edits, dirs, queries, agents, writer, eval, inForce, load, fresh>>

files == <<disk, edits, dirs>>

Compiles(q) ==
    /\ "broken" \notin {q.base.kind, q.override.kind, q.overlay.kind}
    /\ "good" \in {q.base.kind, q.override.kind, q.overlay.kind}

\* Only directories that were there when the daemon started are searched.
OnPath(f) == IF f = "override" /\ "override" \notin dirs THEN Absent ELSE disk[f]

Prepared(p) == [base |-> OnPath("base"), override |-> OnPath("override"),
                overlay |-> OnPath(p)]

NoQuery == [base |-> Absent, override |-> Absent, overlay |-> Absent]

\* What an evaluation for agent a goes by, given records r and queries q.
Basis(a, r, q) ==
    [profile |-> r[a], query |-> IF r[a] \in Loaded THEN q[r[a]] ELSE NoQuery]

\* Evaluate denies an agent without a record and a profile without a query
\* before it runs any rule.
Verdict(b) ==
    CASE b.profile = NoProfile -> "not registered"
      [] b.profile \notin Loaded \cup {NoProfile} -> "unknown profile"
      [] OTHER -> "by rules"

EvalIdle == [pc |-> "idle", agent |-> NoProfile,
             basis |-> [profile |-> NoProfile, query |-> NoQuery]]

LoadIdle == [pc |-> "idle", profile |-> NoProfile, base |-> Absent,
             start |-> [f \in Files |-> 0]]

\* NewEngine: the daemon does not start unless every query compiles.
Init ==
    /\ edits = 0
    /\ dirs \in {{"builtin"}, {"builtin", "override"}}
    /\ disk = [f \in Files |->
                 IF f \in {"base"} \cup Loaded \/ (f = "override" /\ f \in dirs)
                 THEN [stamp |-> 0, kind |-> "good"] ELSE Absent]
    /\ queries = [p \in Loaded |-> Prepared(p)]
    /\ agents = [a \in Agents |-> NoProfile]
    /\ writer = NoReloader
    /\ eval = [e \in Evaluators |-> EvalIdle]
    /\ inForce = [e \in Evaluators |-> {}]
    /\ load = [r \in Reloaders |-> LoadIdle]
    /\ fresh = [r \in Reloaders |-> <<>>]

-----------------------------------------------------------------------------
(* Operators and the manager *)

\* Somebody saves or removes a policy file.
Edit(f, k) ==
    /\ edits < MaxEdits
    /\ edits' = edits + 1
    /\ disk' = [disk EXCEPT ![f] = [stamp |-> edits + 1, kind |-> k]]
    /\ UNCHANGED <<dirs, queries, agents, writer, eval, inForce, load, fresh>>

\* inForce once records and queries become r and q.
Witnessed(r, q) ==
    [e \in Evaluators |->
        IF eval[e].pc \in {"blocked", "reading"}
        THEN inForce[e] \cup {Basis(eval[e].agent, r, q)} ELSE inForce[e]]

Readers == {e \in Evaluators : eval[e].pc = "reading"}

\* RegisterAgent and UnregisterAgent take the write lock for one assignment.
SetRecord(a, p) ==
    /\ writer = NoReloader
    /\ Readers = {}
    /\ agents' = [agents EXCEPT ![a] = p]
    /\ inForce' = Witnessed(agents', queries)
    /\ UNCHANGED <<files, queries, writer, eval, load, fresh>>

RegisterAgent(a, p) == agents[a] = NoProfile /\ SetRecord(a, p)

UnregisterAgent(a) == agents[a] # NoProfile /\ SetRecord(a, NoProfile)

-----------------------------------------------------------------------------
(* Evaluate *)

\* RLock: a reader waits while a writer has, or waits for, the lock.
EvalBegin(e, a) ==
    /\ eval[e].pc = "idle"
    /\ eval' = [eval EXCEPT ![e].pc = IF writer = NoReloader THEN "reading"
                                                             ELSE "blocked",
                            ![e].agent = a]
    /\ inForce' = [inForce EXCEPT ![e] = {Basis(a, agents, queries)}]
    /\ UNCHANGED <<files, queries, agents, writer, load, fresh>>

\* Both maps are read under one RLock; the rules run after RUnlock.
EvalSnapshot(e) ==
    /\ eval[e].pc = "reading"
    /\ eval' = [eval EXCEPT ![e].pc = "deciding",
                            ![e].basis = Basis(eval[e].agent, agents, queries)]
    /\ UNCHANGED <<files, queries, agents, writer, inForce, load, fresh>>

\* Mutant: the query is looked up again when the rules are run.
DecidedByLookup(e) == Basis(eval[e].agent, [agents EXCEPT ![eval[e].agent] =
                            eval[e].basis.profile], queries)

DecidedBy(e) == eval[e].basis

EvalDecide(e) ==
    /\ eval[e].pc = "deciding"
    /\ eval' = [eval EXCEPT ![e].pc = "answered", ![e].basis = DecidedBy(e)]
    /\ UNCHANGED <<files, queries, agents, writer, inForce, load, fresh>>

EvalReturn(e) ==
    /\ eval[e].pc = "answered"
    /\ eval' = [eval EXCEPT ![e] = EvalIdle]
    /\ inForce' = [inForce EXCEPT ![e] = {}]
    /\ UNCHANGED <<files, queries, agents, writer, load, fresh>>

-----------------------------------------------------------------------------
(* Reload *)

ReloadBegin(r) ==
    /\ load[r].pc = "idle"
    /\ load' = [load EXCEPT ![r].pc = "queued",
                            ![r].start = [f \in Files |-> disk[f].stamp]]
    /\ UNCHANGED <<files, queries, agents, writer, eval, inForce, fresh>>

\* Mutant: the files are read outside the lock, one reload beside another.
MayLockShared == TRUE

MayLock == writer = NoReloader

\* Lock: first among the writers, then wait until the readers have left.
ReloadAcquire(r) ==
    /\ load[r].pc = "queued"
    /\ MayLock
    /\ writer' = r
    /\ load' = [load EXCEPT ![r].pc = "draining"]
    /\ UNCHANGED <<files, queries, agents, eval, inForce, fresh>>

ReloadLocked(r) ==
    /\ load[r].pc = "draining"
    /\ Readers = {}
    /\ load' = [load EXCEPT ![r].pc = "loading"]
    /\ UNCHANGED <<files, queries, agents, writer, eval, inForce, fresh>>

\* prepareQuery(p), first half: the base files of the image.
PrepareBase(r, p) ==
    /\ load[r].pc = "loading"
    /\ p \notin DOMAIN fresh[r]
    /\ load' = [load EXCEPT ![r].pc = "preparing", ![r].profile = p,
                            ![r].base = OnPath("base")]
    /\ UNCHANGED <<files, queries, agents, writer, eval, inForce, fresh>>

\* Mutant: the overlay of the last load is used again.
CompiledCached(r) == [Prepared(load[r].profile) EXCEPT
    !.base = load[r].base, !.overlay = queries[load[r].profile].overlay]

\* The query the second half compiles, from the overlay and the operator's
\* files; an overlay that cannot be read is skipped as if it were absent.
Compiled(r) == [Prepared(load[r].profile) EXCEPT !.base = load[r].base]

\* Mutant: the error of prepareQuery is not looked at.
SucceedsAlways(r) == TRUE

Succeeds(r) == Compiles(Compiled(r))

With(f, p, q) == [x \in DOMAIN f \cup {p} |-> IF x = p THEN q ELSE f[x]]

PrepareRest(r) ==
    /\ load[r].pc = "preparing"
    /\ Succeeds(r)
    /\ fresh' = [fresh EXCEPT ![r] = With(@, load[r].profile, Compiled(r))]
    /\ load' = [load EXCEPT ![r].pc = "loading"]
    /\ UNCHANGED <<files, queries, agents, writer, eval, inForce>>

\* Mutant: a return without the deferred Unlock.
UnlockForgotten == UNCHANGED <<writer, eval>>

\* Unlock: readers that were held back get the lock before the next writer.
Unlock ==
    /\ writer' = NoReloader
    /\ eval' = [e \in Evaluators |-> IF eval[e].pc = "blocked"
                                     THEN [eval[e] EXCEPT !.pc = "reading"]
                                     ELSE eval[e]]

\* Mutant: the queries are replaced one by one, as loadPolicies does.
AfterFailureHalfway(r) ==
    [p \in Loaded |-> IF p \in DOMAIN fresh[r] THEN fresh[r][p] ELSE queries[p]]

AfterFailure(r) == queries

\* The error is answered and Engine.queries stays as it was.
ReloadFail(r) ==
    /\ load[r].pc = "preparing"
    /\ ~Succeeds(r)
    /\ queries' = AfterFailure(r)
    /\ load' = [load EXCEPT ![r] = LoadIdle]
    /\ fresh' = [fresh EXCEPT ![r] = <<>>]
    /\ inForce' = Witnessed(agents, queries')
    /\ Unlock
    /\ UNCHANGED <<files, agents>>

ReloadCommit(r) ==
    /\ load[r].pc = "loading"
    /\ DOMAIN fresh[r] = Loaded
    /\ queries' = fresh[r]
    /\ fresh' = [fresh EXCEPT ![r] = <<>>]
    /\ load' = [load EXCEPT ![r].pc = "done"]
    /\ inForce' = Witnessed(agents, queries')
    /\ Unlock
    /\ UNCHANGED <<files, agents>>

ReloadReturn(r) ==
    /\ load[r].pc = "done"
    /\ load' = [load EXCEPT ![r] = LoadIdle]
    /\ UNCHANGED <<files, queries, agents, writer, eval, inForce, fresh>>

-----------------------------------------------------------------------------

EvalStep(e) == EvalSnapshot(e) \/ EvalDecide(e) \/ EvalReturn(e)

ReloadStep(r) ==
    \/ ReloadLocked(r) \/ PrepareRest(r) \/ ReloadFail(r)
    \/ ReloadCommit(r) \/ ReloadReturn(r)
    \/ \E p \in Loaded : PrepareBase(r, p)

Next ==
    \/ \E f \in Files, k \in Kinds : Edit(f, k)
    \/ \E a \in Agents :
          \/ \E p \in Profiles : RegisterAgent(a, p)
          \/ UnregisterAgent(a)
          \/ \E e \in Evaluators : EvalBegin(e, a)
    \/ \E e \in Evaluators : EvalStep(e)
    \/ \E r \in Reloaders : ReloadBegin(r) \/ ReloadAcquire(r) \/ ReloadStep(r)

\* Goroutines run, and sync.Mutex, which orders the writers, starves nobody.
Fairness ==
    /\ \A e \in Evaluators : WF_vars(EvalStep(e))
    /\ \A r \in Reloaders : WF_vars(ReloadStep(r)) /\ SF_vars(ReloadAcquire(r))

Spec == Init /\ [][Next]_vars

FairSpec == Spec /\ Fairness

-----------------------------------------------------------------------------
(* Properties *)

Locked == {"draining", "loading", "preparing"}

\* Every variable has its type, and the write lock is held by the reloader
\* that is between Lock and Unlock.
TypeOK ==
    /\ disk \in [Files -> Content]
    /\ edits \in 0..MaxEdits
    /\ queries \in [Loaded -> Query]
    /\ agents \in [Agents -> Profiles \cup {NoProfile}]
    /\ writer \in Reloaders \cup {NoReloader}
    /\ \A e \in Evaluators :
          eval[e].pc \in {"idle", "blocked", "reading", "deciding", "answered"}
    /\ \A r \in Reloaders :
          /\ load[r].pc \in Locked \cup {"idle", "queued", "done"}
          /\ writer = r <=> load[r].pc \in Locked

\* Whatever operators write and however reloads fail, every loaded profile
\* keeps a query that compiled.
QueriesCompile == \A p \in Loaded : Compiles(queries[p])

NotOlder(q, start, p) ==
    /\ q.base.stamp >= start["base"]
    /\ q.override.stamp >= start["override"] \/ "override" \notin dirs
    /\ q.overlay.stamp >= start[p]

\* Queries change only in the step in which a reload that has the lock
\* succeeds, and then for all profiles at once: what is in force after it is
\* what this reload has prepared itself, none of it from before it was asked
\* for.  A reload that fails at one profile changes none, and concurrent
\* reloads do not mix.
ReloadAllOrNothing ==
    [][queries' # queries =>
          \E r \in Reloaders :
             /\ writer = r
             /\ load'[r].pc = "done"
             /\ queries' = fresh[r]
             /\ \A p \in Loaded : NotOlder(fresh[r][p], load[r].start, p)]_vars

\* Once a reload has reported success, the queries in force are at least as
\* new as the files were when it was asked for, even with another reload in
\* the queue before or after it.
ReloadTakesEffect ==
    \A r \in Reloaders : load[r].pc = "done" =>
        \A p \in Loaded : NotOlder(queries[p], load[r].start, p)

\* No reload ever brings back an older state of a file.
NeverOlder ==
    [][\A p \in Loaded :
          /\ queries'[p].base.stamp >= queries[p].base.stamp
          /\ queries'[p].override.stamp >= queries[p].override.stamp
          /\ queries'[p].overlay.stamp >= queries[p].overlay.stamp]_vars

\* A decision goes by a record and a query that were in force together at one
\* moment of the evaluation: a reload or a registration in between is seen
\* whole or not at all.
DecidedInForce ==
    \A e \in Evaluators :
        eval[e].pc = "answered" => eval[e].basis \in inForce[e]

\* Every evaluation is answered, however many reloads are asked for.
EvaluationReturns ==
    \A e \in Evaluators : eval[e].pc # "idle" ~> eval[e].pc = "idle"

\* Every reload ends.
ReloadReturns ==
    \A r \in Reloaders : load[r].pc # "idle" ~> load[r].pc = "idle"

\* "Custom profiles can be added by dropping a .rego file in
\* /etc/atomic/policy/profiles/ and reloading" (docs/agent-profiles.md:72):
\* an agent of a profile whose file was there when a successful reload began
\* is not answered that its profile is unknown.
CustomProfileServed ==
    \A r \in Reloaders, p \in Profiles, e \in Evaluators :
        /\ load[r].pc = "done"
        /\ "override" \in dirs
        /\ disk[p].kind = "good" /\ disk[p].stamp <= load[r].start[p]
        /\ eval[e].pc = "reading" /\ agents[eval[e].agent] = p
        => Verdict(Basis(eval[e].agent, agents, queries)) # "unknown profile"
=============================================================================
