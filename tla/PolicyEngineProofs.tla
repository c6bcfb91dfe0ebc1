------------------------- MODULE PolicyEngineProofs -------------------------
(***************************************************************************)
(* Proofs about PolicyEngine for any profiles, agents, evaluators and      *)
(* reloaders and any number of edits: what a reload does to the queries in *)
(* force, and what a decision goes by.                                     *)
(***************************************************************************)
EXTENDS PolicyEngine, TLAPS

USE EngineAssumption
USE DEF vars, files, Files, Locked

\* What an evaluator and a reloader remember.
EvalStates == [pc : {"idle", "blocked", "reading", "deciding", "answered"},
               agent : Agents \cup {NoProfile},
               basis : [profile : Profiles \cup {NoProfile}, query : Query]]

LoadStates == [pc : Locked \cup {"idle", "queued", "done"},
               profile : Loaded \cup {NoProfile},
               base : Content,
               start : [Files -> 0..MaxEdits]]

\* The types of all variables: those of TypeOK and those of the goroutines.
Typed ==
    /\ TypeOK
    /\ eval \in [Evaluators -> EvalStates]
    /\ load \in [Reloaders -> LoadStates]
    /\ \A e \in Evaluators : eval[e].pc # "idle" => eval[e].agent \in Agents
    /\ \A r \in Reloaders : load[r].pc = "preparing" => load[r].profile \in Loaded

\* newQueries is a map from some of the loaded profiles to queries.
Collected ==
    /\ fresh = [r \in Reloaders |-> fresh[r]]
    /\ \A r \in Reloaders :
          /\ \E D \in SUBSET Loaded : fresh[r] \in [D -> Query]
          /\ load[r].pc \notin {"loading", "preparing"} => DOMAIN fresh[r] = {}

\* Query q was compiled from no newer files than s.
NotNewer(q, s) ==
    /\ q.base.stamp <= s.base.stamp
    /\ q.override.stamp <= s.override.stamp
    /\ q.overlay.stamp <= s.overlay.stamp

\* No query is newer than the files, and a reload is newer than what is in
\* force while it has the lock.
Stamped ==
    /\ \A f \in Files : disk[f].stamp <= edits
    /\ \A p \in Loaded : NotNewer(queries[p], Prepared(p))
    /\ \A r \in Reloaders : \A f \in Files : load[r].start[f] <= disk[f].stamp
    /\ \A r \in Reloaders : load[r].pc = "preparing" =>
          /\ load[r].base.stamp <= disk["base"].stamp
          /\ load[r].start["base"] <= load[r].base.stamp
          /\ \A p \in Loaded : queries[p].base.stamp <= load[r].base.stamp
    /\ \A r \in Reloaders : \A p \in DOMAIN fresh[r] :
          /\ NotNewer(fresh[r][p], Prepared(p))
          /\ NotNewer(queries[p], fresh[r][p])
          /\ NotOlder(fresh[r][p], load[r].start, p)

\* What is in force compiles, and so does what is to be.
Compiling ==
    /\ QueriesCompile
    /\ \A r \in Reloaders : \A p \in DOMAIN fresh[r] : Compiles(fresh[r][p])

\* What an evaluation goes by, or would go by, has been in force since it began.
Seen ==
    /\ inForce = [e \in Evaluators |-> inForce[e]]
    /\ \A e \in Evaluators :
          /\ eval[e].pc \in {"blocked", "reading"} =>
                Basis(eval[e].agent, agents, queries) \in inForce[e]
          /\ eval[e].pc \in {"deciding", "answered"} => eval[e].basis \in inForce[e]

\* The inductive invariant.
Inv == Typed /\ Collected /\ Stamped /\ Compiling /\ ReloadTakesEffect /\ Seen

\* What a file is read as is a content, and what is read of it is as new as
\* the file.
LEMMA OnPathType ==
    ASSUME Typed, NEW f \in Files
    PROVE  OnPath(f) \in Content
BY DEF Typed, TypeOK, OnPath, Absent, Content, Kinds

\* What is read for a profile has the type of a query.
LEMMA PreparedType == ASSUME Typed, NEW p \in Loaded PROVE Prepared(p) \in Query
<1> "base" \in Files /\ "override" \in Files /\ p \in Files
  OBVIOUS
<1> QED
  BY OnPathType DEF Prepared, Query

\* Stamps of a query are numbers.
LEMMA Stamps ==
    ASSUME NEW q \in Query
    PROVE  q.base.stamp \in Nat /\ q.override.stamp \in Nat /\ q.overlay.stamp \in Nat
BY DEF Query, Content

\* The parts of what a reload remembers.
LEMMA LoadType ==
    ASSUME Typed, NEW r \in Reloaders
    PROVE  /\ load[r] \in LoadStates
           /\ load[r].start \in [Files -> 0..MaxEdits]
           /\ \A f \in Files : load[r].start[f] \in Nat
           /\ load[r].base \in Content /\ load[r].base.stamp \in Nat
<1>1. load[r] \in LoadStates
  BY DEF Typed
<1>2. load[r].start \in [Files -> 0..MaxEdits] /\ load[r].base \in Content
  BY <1>1 DEF LoadStates
<1>3. \A f \in Files : load[r].start[f] \in Nat
  BY <1>2
<1> QED
  BY <1>1, <1>2, <1>3 DEF Content

\* A query that is newer than one which is not too old is not too old either.
LEMMA Later ==
    ASSUME Typed, NEW r \in Reloaders, NEW p \in Loaded,
           NEW q \in Query, NEW s \in Query,
           NotOlder(q, load[r].start, p), NotNewer(q, s)
    PROVE  NotOlder(s, load[r].start, p)
<1>1. /\ load[r].start["base"] \in Nat /\ load[r].start["override"] \in Nat
      /\ load[r].start[p] \in Nat
  BY LoadType
<1>2. /\ q.base.stamp \in Nat /\ q.override.stamp \in Nat /\ q.overlay.stamp \in Nat
      /\ s.base.stamp \in Nat /\ s.override.stamp \in Nat /\ s.overlay.stamp \in Nat
  BY Stamps
<1> QED
  BY <1>1, <1>2 DEF NotOlder, NotNewer

\* What an evaluation goes by has the type of a basis.
LEMMA BasisType ==
    ASSUME Typed, NEW a \in Agents
    PROVE  Basis(a, agents, queries) \in
               [profile : Profiles \cup {NoProfile}, query : Query]
<1> agents[a] \in Profiles \cup {NoProfile}
  BY DEF Typed, TypeOK
<1> NoQuery \in Query
  <2> Absent \in Content
    BY DEF Absent, Content, Kinds
  <2> QED
    BY DEF NoQuery, Query
<1> agents[a] \in Loaded => queries[agents[a]] \in Query
  BY DEF Typed, TypeOK
<1> QED
  BY DEF Basis

-----------------------------------------------------------------------------
(* Steps that leave files, queries and reloads alone *)

\* What is said of reloads stays true.
LEMMA ReloadsUnchanged ==
    ASSUME Inv, UNCHANGED <<files, queries, load, fresh>>
    PROVE  Collected' /\ Stamped' /\ Compiling' /\ ReloadTakesEffect'
<1>1. Collected'
  BY DEF Inv, Collected
<1>2. \A p : Prepared(p)' = Prepared(p)
  BY DEF Prepared, OnPath
<1>3. Stamped'
  BY <1>2 DEF Inv, Stamped, NotOlder
<1>4. Compiling' /\ ReloadTakesEffect'
  BY DEF Inv, Compiling, QueriesCompile, ReloadTakesEffect, NotOlder
<1> QED
  BY <1>1, <1>3, <1>4

\* RegisterAgent and UnregisterAgent.
LEMMA RecordStep ==
    ASSUME Inv, NEW a \in Agents, NEW p \in Profiles \cup {NoProfile}, SetRecord(a, p)
    PROVE  Inv'
<1>1. Typed'
  BY DEF Inv, Typed, TypeOK, SetRecord
<1>2. Seen'
  BY DEF Inv, Seen, SetRecord, Witnessed
<1> QED
  BY <1>1, <1>2, ReloadsUnchanged DEF Inv, SetRecord

\* A step of one evaluator keeps the types when it keeps its own.
LEMMA TypedEvaluator ==
    ASSUME Inv, NEW e \in Evaluators, NEW s \in EvalStates,
           UNCHANGED <<files, queries, agents, writer, load, fresh>>,
           eval' = [eval EXCEPT ![e] = s], s.pc # "idle" => s.agent \in Agents
    PROVE  Typed' /\ eval'[e] = s
<1>1. eval' \in [Evaluators -> EvalStates] /\ eval'[e] = s
  BY DEF Inv, Typed
<1>2. \A d \in Evaluators : d # e => eval'[d] = eval[d]
  BY DEF Inv, Typed
<1>3. TypeOK'
  BY <1>1 DEF Inv, Typed, TypeOK, EvalStates
<1> QED
  BY <1>1, <1>2, <1>3 DEF Inv, Typed

\* Evaluate.
LEMMA EvaluatorStep ==
    ASSUME Inv, NEW e \in Evaluators,
           (\E a \in Agents : EvalBegin(e, a)) \/ EvalStep(e)
    PROVE  Inv'
<1> USE DEF EvalStates
<1>1. CASE \E a \in Agents : EvalBegin(e, a)
  <2> PICK a \in Agents : EvalBegin(e, a)
    BY <1>1
  <2> DEFINE pc == IF writer = NoReloader THEN "reading" ELSE "blocked"
  <2>0. /\ eval[e] \in EvalStates /\ eval[e].pc = "idle"
        /\ eval' = [eval EXCEPT ![e] = [eval[e] EXCEPT !.pc = pc, !.agent = a]]
    BY DEF Inv, Typed, EvalBegin
  <2>a. eval' \in [Evaluators -> EvalStates] /\ eval'[e].agent = a /\ eval'[e].pc = pc
    BY <2>0 DEF Inv, Typed
  <2>b. \A d \in Evaluators : d # e => eval'[d] = eval[d]
    BY <2>0 DEF Inv, Typed
  <2>c. pc \in {"reading", "blocked"}
    OBVIOUS
  <2> HIDE DEF pc
  <2>1. Typed'
    <3> DEFINE s == [eval[e] EXCEPT !.pc = pc, !.agent = a]
    <3>1. s \in EvalStates /\ s.agent = a
      BY <2>0, <2>c
    <3> QED
      BY <2>0, <3>1, TypedEvaluator DEF EvalBegin
  <2>2. Seen'
    BY <2>a, <2>b, <2>c DEF Inv, Seen, EvalBegin, Basis
  <2> QED
    BY <1>1, <2>1, <2>2, ReloadsUnchanged DEF Inv, EvalBegin
<1>2. CASE EvalSnapshot(e)
  <2>0. Basis(eval[e].agent, agents, queries) \in
            [profile : Profiles \cup {NoProfile}, query : Query]
    BY <1>2, BasisType DEF Inv, Typed, EvalSnapshot
  <2>1. Typed'
    <3> DEFINE s == [eval[e] EXCEPT !.pc = "deciding",
                                    !.basis = Basis(eval[e].agent, agents, queries)]
    <3>1. eval[e] \in EvalStates /\ eval[e].pc = "reading" /\ eval[e].agent \in Agents
      BY <1>2 DEF Inv, Typed, EvalSnapshot
    <3>2. s \in EvalStates /\ s.agent = eval[e].agent
      BY <2>0, <3>1
    <3>3. eval' = [eval EXCEPT ![e] = s]
      BY <1>2 DEF EvalSnapshot
    <3> QED
      BY <1>2, <3>1, <3>2, <3>3, TypedEvaluator DEF EvalSnapshot
  <2>2. Seen'
    BY <1>2 DEF Inv, Typed, Seen, EvalSnapshot
  <2> QED
    BY <1>2, <2>1, <2>2, ReloadsUnchanged DEF Inv, EvalSnapshot
<1>3. CASE EvalDecide(e)
  <2>1. Typed'
    <3> DEFINE s == [eval[e] EXCEPT !.pc = "answered"]
    <3>1. eval[e] \in EvalStates /\ eval[e].pc = "deciding" /\ eval[e].agent \in Agents
      BY <1>3 DEF Inv, Typed, EvalDecide
    <3>2. s \in EvalStates /\ s.agent = eval[e].agent
      BY <3>1
    <3>3. eval' = [eval EXCEPT ![e] = s]
      BY <1>3, <3>1 DEF EvalDecide, DecidedBy
    <3> QED
      BY <1>3, <3>1, <3>2, <3>3, TypedEvaluator DEF EvalDecide
  <2>2. Seen'
    BY <1>3 DEF Inv, Typed, Seen, EvalDecide, DecidedBy
  <2> QED
    BY <1>3, <2>1, <2>2, ReloadsUnchanged DEF Inv, EvalDecide
<1>4. CASE EvalReturn(e)
  <2>0. EvalIdle \in EvalStates
    BY DEF EvalIdle, NoQuery, Query, Absent, Content, Kinds
  <2>1. Typed'
    BY <1>4, <2>0 DEF Inv, Typed, TypeOK, EvalReturn, EvalIdle
  <2>2. Seen'
    BY <1>4 DEF Inv, Typed, Seen, EvalReturn, EvalIdle
  <2> QED
    BY <1>4, <2>1, <2>2, ReloadsUnchanged DEF Inv, EvalReturn
<1> QED
  BY <1>1, <1>2, <1>3, <1>4 DEF EvalStep

-----------------------------------------------------------------------------
(* Edits and reloads *)

\* Seen asks nothing of files and reloads.
LEMMA EvaluatorsUnchanged ==
    ASSUME Inv, UNCHANGED <<queries, agents, eval, inForce>>
    PROVE  Seen'
BY DEF Inv, Seen, Basis

\* Files only get newer.
LEMMA EditStep ==
    ASSUME Inv, NEW f \in Files, NEW k \in Kinds, Edit(f, k)
    PROVE  Inv'
<1> USE DEF Edit
<1>1. Typed'
  BY DEF Inv, Typed, TypeOK, Content
<1>2. Collected' /\ Compiling' /\ ReloadTakesEffect'
  BY DEF Inv, Collected, Compiling, QueriesCompile, ReloadTakesEffect, NotOlder
<1>3. \A g \in Files : /\ disk[g].stamp \in Nat /\ disk'[g].stamp \in Nat
                       /\ disk[g].stamp <= disk'[g].stamp
                       /\ disk'[g].stamp <= edits'
  BY DEF Inv, Typed, TypeOK, Stamped, Content
<1>4. \A p \in Loaded : NotNewer(Prepared(p), Prepared(p)')
  <2> SUFFICES ASSUME NEW p \in Loaded PROVE NotNewer(Prepared(p), Prepared(p)')
    OBVIOUS
  <2> "base" \in Files /\ "override" \in Files /\ p \in Files
    OBVIOUS
  <2>1. /\ OnPath("base").stamp <= OnPath("base")'.stamp
        /\ OnPath("override").stamp <= OnPath("override")'.stamp
        /\ OnPath(p).stamp <= OnPath(p)'.stamp
    BY <1>3 DEF OnPath, Absent
  <2> QED
    BY <2>1 DEF NotNewer, Prepared
<1>5. \A p \in Loaded : Prepared(p) \in Query /\ Prepared(p)' \in Query
  <2> SUFFICES ASSUME NEW p \in Loaded
               PROVE  Prepared(p) \in Query /\ Prepared(p)' \in Query
    OBVIOUS
  <2> "base" \in Files /\ "override" \in Files /\ p \in Files
    OBVIOUS
  <2>1. Prepared(p) \in Query
    BY PreparedType DEF Inv
  <2>2. disk' \in [Files -> Content] /\ Absent \in Content
    BY <1>1 DEF Typed, TypeOK, Absent, Content, Kinds
  <2>3. Prepared(p)' \in Query
    BY <2>2 DEF Prepared, OnPath, Query
  <2> QED
    BY <2>1, <2>3
<1>6. ASSUME NEW q \in Query, NEW p \in Loaded, NotNewer(q, Prepared(p))
      PROVE  NotNewer(q, Prepared(p)')
  BY <1>4, <1>5, <1>6, Stamps DEF NotNewer
<1>7. Stamped'
  <2>1. ASSUME NEW r \in Reloaders, NEW g \in Files
        PROVE  load[r].start[g] \in Nat /\ load[r].start[g] <= disk'[g].stamp
    <3>1. load[r].start[g] \in Nat
      BY LoadType DEF Inv
    <3>2. load[r].start[g] <= disk[g].stamp
      BY DEF Inv, Stamped
    <3> QED
      BY <1>3, <3>1, <3>2
  <2>2. \A p \in Loaded : NotNewer(queries[p], Prepared(p)')
    BY <1>6 DEF Inv, Typed, TypeOK, Stamped
  <2>3. \A r \in Reloaders : load[r].base.stamp \in Nat
    BY LoadType DEF Inv
  <2>4. \A r \in Reloaders : \A p \in DOMAIN fresh[r] :
            p \in Loaded /\ fresh[r][p] \in Query
    BY DEF Inv, Collected
  <2>5. \A r \in Reloaders : \A p \in DOMAIN fresh[r] : NotNewer(fresh[r][p], Prepared(p)')
    BY <1>6, <2>4 DEF Inv, Stamped
  <2>6. \A r \in Reloaders : load[r].pc = "preparing" =>
            load[r].base.stamp <= disk'["base"].stamp
    BY <1>3, <2>3 DEF Inv, Stamped
  <2> QED
    BY <1>3, <2>1, <2>2, <2>5, <2>6 DEF Inv, Stamped, NotOlder
<1> QED
  BY <1>1, <1>2, <1>7, EvaluatorsUnchanged DEF Inv

\* Steps of reloader r that only change what it remembers.
Remembers(r) ==
    /\ UNCHANGED <<files, queries, agents, eval, inForce, fresh>>
    /\ load'[r] \in LoadStates
    /\ load' = [load EXCEPT ![r] = load'[r]]

\* Such a step keeps the invariant if what it remembers is new enough.
LEMMA RememberStep ==
    ASSUME Inv, NEW r \in Reloaders, Remembers(r),
           \/ writer' = writer /\ (load[r].pc \in Locked <=> load'[r].pc \in Locked)
           \/ writer = NoReloader /\ writer' = r /\ load'[r].pc \in Locked,
           load'[r].pc = "preparing" => load'[r].profile \in Loaded,
           load'[r].pc \notin {"loading", "preparing"} => DOMAIN fresh[r] = {},
           DOMAIN fresh[r] = {} \/ load'[r].start = load[r].start,
           \A f \in Files : load'[r].start[f] <= disk[f].stamp,
           load'[r].pc = "preparing" =>
               /\ load'[r].base.stamp <= disk["base"].stamp
               /\ load'[r].start["base"] <= load'[r].base.stamp
               /\ \A p \in Loaded : queries[p].base.stamp <= load'[r].base.stamp,
           load'[r].pc # "done"
    PROVE  Inv'
<1> USE DEF Remembers
<1>0. /\ load' \in [Reloaders -> LoadStates]
      /\ \A s \in Reloaders : s # r => load'[s] = load[s]
  BY DEF Inv, Typed
<1>1. Typed'
  BY <1>0 DEF Inv, Typed, TypeOK, LoadStates
<1>2. Collected'
  BY <1>0 DEF Inv, Collected
<1>3. \A p : Prepared(p)' = Prepared(p)
  BY DEF Prepared, OnPath
<1>4. Stamped'
  BY <1>0, <1>3 DEF Inv, Stamped, NotOlder
<1>5. Compiling' /\ ReloadTakesEffect'
  BY <1>0 DEF Inv, Compiling, QueriesCompile, ReloadTakesEffect, NotOlder
<1> QED
  BY <1>1, <1>2, <1>4, <1>5, EvaluatorsUnchanged DEF Inv

\* Lock, reading the base files, and the end of a reload.
LEMMA ReloadQuiet ==
    ASSUME Inv, NEW r \in Reloaders,
           \/ ReloadBegin(r) \/ ReloadAcquire(r) \/ ReloadLocked(r)
           \/ ReloadReturn(r) \/ \E p \in Loaded : PrepareBase(r, p)
    PROVE  Inv'
<1> USE LoadType DEF Inv
<1>0. \A f \in Files : disk[f] \in Content /\ disk[f].stamp \in 0..MaxEdits
  BY DEF Typed, TypeOK, Content
<1>1. CASE ReloadBegin(r)
  <2>1. load'[r] = [load[r] EXCEPT !.pc = "queued",
                                   !.start = [f \in Files |-> disk[f].stamp]]
    BY <1>1 DEF ReloadBegin, Typed
  <2>2. Remembers(r)
    BY <1>0, <1>1, <2>1 DEF ReloadBegin, Remembers, Typed, LoadStates
  <2>3. load'[r].pc = "queued" /\ \A f \in Files : load'[r].start[f] = disk[f].stamp
    BY <2>1, LoadType DEF LoadStates
  <2>4. load[r].pc = "idle" /\ writer' = writer /\ DOMAIN fresh[r] = {}
    BY <1>1 DEF ReloadBegin, Collected
  <2>5. \A f \in Files : load'[r].start[f] <= disk[f].stamp
    BY <1>0, <2>3
  <2> QED
    BY <2>2, <2>3, <2>4, <2>5, RememberStep
<1>2. CASE ReloadAcquire(r)
  <2>1. load'[r] = [load[r] EXCEPT !.pc = "draining"]
    BY <1>2 DEF ReloadAcquire, Typed
  <2>2. Remembers(r)
    BY <1>2, <2>1 DEF ReloadAcquire, Remembers, Typed, LoadStates
  <2> QED
    BY <1>2, <2>1, <2>2, RememberStep
       DEF ReloadAcquire, MayLock, Collected, LoadStates, Stamped
<1>3. CASE ReloadLocked(r)
  <2>1. load'[r] = [load[r] EXCEPT !.pc = "loading"]
    BY <1>3 DEF ReloadLocked, Typed
  <2>2. Remembers(r)
    BY <1>3, <2>1 DEF ReloadLocked, Remembers, Typed, LoadStates
  <2> QED
    BY <1>3, <2>1, <2>2, RememberStep DEF ReloadLocked, LoadStates, Stamped, Collected
<1>4. CASE ReloadReturn(r)
  <2>1. load'[r] = LoadIdle
    BY <1>4 DEF ReloadReturn, Typed
  <2>2. LoadIdle \in LoadStates
    BY DEF LoadIdle, LoadStates, Absent, Content, Kinds
  <2>3. Remembers(r)
    BY <1>4, <2>1, <2>2 DEF ReloadReturn, Remembers, Typed
  <2>4. /\ load'[r].pc = "idle"
        /\ \A f \in Files : load'[r].start[f] = 0
    BY <2>1 DEF LoadIdle
  <2>5. load[r].pc = "done" /\ writer' = writer /\ DOMAIN fresh[r] = {}
    BY <1>4 DEF ReloadReturn, Collected
  <2>6. \A f \in Files : load'[r].start[f] <= disk[f].stamp
    BY <1>0, <2>4
  <2> QED
    BY <2>3, <2>4, <2>5, <2>6, RememberStep
<1>5. CASE \E p \in Loaded : PrepareBase(r, p)
  <2> PICK p \in Loaded : PrepareBase(r, p)
    BY <1>5
  <2>1. load'[r] = [load[r] EXCEPT !.pc = "preparing", !.profile = p,
                                   !.base = disk["base"]]
    BY DEF PrepareBase, Typed, OnPath
  <2>2. Remembers(r)
    BY <1>0, <2>1 DEF PrepareBase, Remembers, Typed, LoadStates
  <2>3. \A q \in Loaded : queries[q].base.stamp <= disk["base"].stamp
    BY DEF Stamped, NotNewer, Prepared, OnPath
  <2>4. /\ load'[r].pc = "preparing" /\ load'[r].profile = p
        /\ load'[r].base = disk["base"] /\ load'[r].start = load[r].start
    BY <2>1, LoadType DEF LoadStates
  <2>5. load[r].pc = "loading" /\ writer' = writer
    BY DEF PrepareBase
  <2>6. /\ \A f \in Files : load'[r].start[f] <= disk[f].stamp
        /\ load'[r].base.stamp <= disk["base"].stamp
        /\ load'[r].start["base"] <= load'[r].base.stamp
    BY <1>0, <2>4 DEF Stamped
  <2> QED
    BY <2>2, <2>3, <2>4, <2>5, <2>6, RememberStep
<1> QED
  BY <1>1, <1>2, <1>3, <1>4, <1>5

\* What is compiled for a profile is as new as the files, newer than what is
\* in force and than the beginning of the reload.
LEMMA CompiledNew ==
    ASSUME Inv, NEW r \in Reloaders, load[r].pc = "preparing"
    PROVE  LET p == load[r].profile IN
           /\ p \in Loaded /\ Compiled(r) \in Query
           /\ NotNewer(Compiled(r), Prepared(p))
           /\ NotNewer(queries[p], Compiled(r))
           /\ NotOlder(Compiled(r), load[r].start, p)
<1> DEFINE p == load[r].profile
<1>0. p \in Loaded
  BY DEF Inv, Typed
<1>1. Prepared(p) \in Query
  BY <1>0, PreparedType DEF Inv
<1>2. /\ Compiled(r) = [Prepared(p) EXCEPT !.base = load[r].base]
      /\ Compiled(r) \in Query
  BY <1>1, LoadType DEF Inv, Compiled, Query
<1>3. /\ Compiled(r).base = load[r].base
      /\ Compiled(r).override = OnPath("override")
      /\ Compiled(r).overlay = OnPath(p)
      /\ Prepared(p).base = OnPath("base")
      /\ Prepared(p).override = OnPath("override")
      /\ Prepared(p).overlay = OnPath(p)
  BY <1>2 DEF Prepared
<1>4. OnPath("base") = disk["base"] /\ ("override" \in dirs => OnPath("override") = disk["override"])
  BY DEF OnPath
<1>5. OnPath(p) = disk[p]
  BY <1>0, FilesAssumption DEF OnPath
<1>6. /\ load[r].base.stamp <= disk["base"].stamp
      /\ load[r].start["base"] <= load[r].base.stamp
      /\ queries[p].base.stamp <= load[r].base.stamp
      /\ \A f \in Files : load[r].start[f] <= disk[f].stamp
      /\ NotNewer(queries[p], Prepared(p))
  BY <1>0 DEF Inv, Stamped
<1>7. NotNewer(Compiled(r), Prepared(p))
  BY <1>1, <1>3, <1>4, <1>6, Stamps DEF NotNewer
<1>8. NotNewer(queries[p], Compiled(r))
  BY <1>3, <1>6 DEF NotNewer
<1>9. NotOlder(Compiled(r), load[r].start, p)
  BY <1>0, <1>3, <1>4, <1>5, <1>6 DEF NotOlder
<1> QED
  BY <1>0, <1>2, <1>7, <1>8, <1>9

\* The second half of prepareQuery adds one query to those collected.
LEMMA PrepareRestStep ==
    ASSUME Inv, NEW r \in Reloaders, PrepareRest(r)
    PROVE  Inv'
<1> DEFINE p == load[r].profile
           q == Compiled(r)
<1>0. /\ load[r].pc = "preparing" /\ Compiles(q)
      /\ UNCHANGED <<files, queries, agents, writer, eval, inForce>>
  BY DEF PrepareRest, Succeeds
<1>1. /\ p \in Loaded /\ q \in Query
      /\ NotNewer(q, Prepared(p)) /\ NotNewer(queries[p], q)
      /\ NotOlder(q, load[r].start, p)
  BY <1>0, CompiledNew
<1>2. /\ load'[r] = [load[r] EXCEPT !.pc = "loading"]
      /\ load' \in [Reloaders -> LoadStates]
      /\ \A s \in Reloaders : s # r => load'[s] = load[s]
  BY DEF Inv, Typed, PrepareRest, LoadStates
<1>3. load'[r].pc = "loading" /\ load'[r].start = load[r].start
  BY <1>2, LoadType DEF Inv, LoadStates
<1>4. /\ fresh'[r] = [x \in DOMAIN fresh[r] \cup {p} |->
                         IF x = p THEN q ELSE fresh[r][x]]
      /\ fresh' = [s \in Reloaders |-> fresh'[s]]
      /\ \A s \in Reloaders : s # r => fresh'[s] = fresh[s]
  BY DEF Inv, Collected, PrepareRest, With
<1> HIDE DEF p, q
<1>5. Typed'
  BY <1>0, <1>2, <1>3 DEF Inv, Typed, TypeOK
<1>6. Collected'
  <2>1. \E D \in SUBSET Loaded : fresh'[r] \in [D -> Query]
    <3> PICK D \in SUBSET Loaded : fresh[r] \in [D -> Query]
      BY DEF Inv, Collected
    <3>1. fresh'[r] \in [D \cup {p} -> Query] /\ D \cup {p} \in SUBSET Loaded
      BY <1>1, <1>4
    <3> QED
      BY <3>1
  <2> QED
    BY <1>2, <1>3, <1>4, <2>1 DEF Inv, Collected
<1>7. \A x : Prepared(x)' = Prepared(x)
  BY <1>0 DEF Prepared, OnPath
<1>a. dirs' = dirs /\ disk' = disk /\ edits' = edits
  BY <1>0
<1>b. \A s \in Reloaders : load'[s].start = load[s].start
  BY <1>2, <1>3
<1>c. \A s \in Reloaders : load'[s].pc # load[s].pc => load'[s].pc = "loading"
  BY <1>2, <1>3
<1>d. DOMAIN fresh'[r] = DOMAIN fresh[r] \cup {p} /\ fresh'[r][p] = q
  BY <1>4
<1>e. \A s \in Reloaders : \A x \in DOMAIN fresh'[s] :
          \/ s = r /\ x = p /\ fresh'[s][x] = q
          \/ x \in DOMAIN fresh[s] /\ fresh'[s][x] = fresh[s][x]
  BY <1>4
<1>8. Stamped'
  <2>1. \A s \in Reloaders : \A x \in DOMAIN fresh'[s] :
            /\ NotNewer(fresh'[s][x], Prepared(x))
            /\ NotNewer(queries[x], fresh'[s][x])
            /\ NotOlder(fresh'[s][x], load[s].start, x)
    BY <1>1, <1>e DEF Inv, Stamped, p
  <2>2. \A s \in Reloaders : load'[s].pc = "preparing" => load'[s] = load[s]
    BY <1>2, <1>3
  <2> QED
    BY <1>0, <1>a, <1>b, <1>7, <2>1, <2>2 DEF Inv, Stamped, NotOlder
<1>9. Compiling' /\ ReloadTakesEffect'
  BY <1>0, <1>1, <1>a, <1>b, <1>c, <1>e
     DEF Inv, Compiling, QueriesCompile, ReloadTakesEffect, NotOlder
<1> QED
  BY <1>0, <1>5, <1>6, <1>8, <1>9, EvaluatorsUnchanged DEF Inv

\* What Unlock and Witnessed leave behind.
LEMMA UnlockSeen ==
    ASSUME Inv, Unlock, agents' = agents, inForce' = Witnessed(agents, queries')
    PROVE  /\ eval' \in [Evaluators -> EvalStates]
           /\ \A e \in Evaluators : eval'[e].pc # "idle" => eval'[e].agent \in Agents
           /\ Seen'
<1>1. ASSUME NEW e \in Evaluators
      PROVE  /\ eval'[e] \in EvalStates
             /\ eval'[e].agent = eval[e].agent /\ eval'[e].basis = eval[e].basis
             /\ eval'[e].pc = IF eval[e].pc = "blocked" THEN "reading" ELSE eval[e].pc
  <2>1. eval[e] \in EvalStates
    BY DEF Inv, Typed
  <2> QED
    BY <2>1 DEF Unlock, EvalStates
<1>2. eval' \in [Evaluators -> EvalStates]
  BY <1>1 DEF Unlock
<1>3. \A e \in Evaluators : eval'[e].pc # "idle" => eval'[e].agent \in Agents
  BY <1>1 DEF Inv, Typed
<1>4. Seen'
  BY <1>1 DEF Inv, Seen, Witnessed, Basis
<1> QED
  BY <1>2, <1>3, <1>4

\* A reload that fails changes nothing but the lock.
LEMMA ReloadFailStep ==
    ASSUME Inv, NEW r \in Reloaders, ReloadFail(r)
    PROVE  Inv'
<1>0. /\ load[r].pc = "preparing" /\ writer' = NoReloader
      /\ UNCHANGED <<files, agents, queries>>
  BY DEF ReloadFail, AfterFailure, Unlock
<1>1. /\ eval' \in [Evaluators -> EvalStates]
      /\ \A e \in Evaluators : eval'[e].pc # "idle" => eval'[e].agent \in Agents
      /\ Seen'
  BY UnlockSeen DEF ReloadFail
<1>2. LoadIdle \in LoadStates
  BY DEF LoadIdle, LoadStates, Absent, Content, Kinds
<1>3. /\ load'[r] = LoadIdle /\ load' \in [Reloaders -> LoadStates]
      /\ \A s \in Reloaders : s # r => load'[s] = load[s]
  BY <1>2 DEF Inv, Typed, ReloadFail
<1>4. load'[r].pc = "idle" /\ \A f \in Files : load'[r].start[f] = 0
  BY <1>3 DEF LoadIdle
<1>5. /\ fresh'[r] = <<>> /\ fresh' = [s \in Reloaders |-> fresh'[s]]
      /\ \A s \in Reloaders : s # r => fresh'[s] = fresh[s]
  BY DEF Inv, Collected, ReloadFail
<1>6. DOMAIN fresh'[r] = {} /\ fresh'[r] \in [{} -> Query]
  BY <1>5
<1>7. \A s \in Reloaders : s # r => load[s].pc \notin Locked
  BY <1>0 DEF Inv, Typed, TypeOK
<1>8. Typed'
  <2>1. \A e \in Evaluators : eval'[e] \in EvalStates
    BY <1>1
  <2>2. \A s \in Reloaders : /\ load'[s].pc \in {"idle", "queued", "done"}
                             /\ writer' # s
    BY <1>0, <1>3, <1>4, <1>7 DEF Inv, Typed, LoadStates
  <2> QED
    BY <1>0, <1>1, <1>3, <2>1, <2>2 DEF Inv, Typed, TypeOK, EvalStates
<1>9. Collected'
  BY <1>3, <1>5, <1>6 DEF Inv, Collected
<1>10. \A x : Prepared(x)' = Prepared(x)
  BY <1>0 DEF Prepared, OnPath
<1>11. \A f \in Files : disk[f].stamp >= 0
  BY DEF Inv, Typed, TypeOK, Content
<1>12. Stamped'
  BY <1>0, <1>3, <1>4, <1>5, <1>6, <1>10, <1>11 DEF Inv, Stamped, NotOlder
<1>13. Compiling' /\ ReloadTakesEffect'
  BY <1>0, <1>3, <1>4, <1>5, <1>6
     DEF Inv, Compiling, QueriesCompile, ReloadTakesEffect, NotOlder
<1> QED
  BY <1>1, <1>8, <1>9, <1>12, <1>13 DEF Inv

\* A reload that succeeds puts all of newQueries in force.
LEMMA ReloadCommitStep ==
    ASSUME Inv, NEW r \in Reloaders, ReloadCommit(r)
    PROVE  Inv'
<1>0. /\ load[r].pc = "loading" /\ writer' = NoReloader
      /\ DOMAIN fresh[r] = Loaded /\ queries' = fresh[r]
      /\ UNCHANGED <<files, agents>>
  BY DEF ReloadCommit, Unlock
<1>1. /\ eval' \in [Evaluators -> EvalStates]
      /\ \A e \in Evaluators : eval'[e].pc # "idle" => eval'[e].agent \in Agents
      /\ Seen'
  BY UnlockSeen DEF ReloadCommit
<1>2. queries' \in [Loaded -> Query]
  BY <1>0 DEF Inv, Collected
<1>3. /\ load'[r] = [load[r] EXCEPT !.pc = "done"]
      /\ load' \in [Reloaders -> LoadStates]
      /\ \A s \in Reloaders : s # r => load'[s] = load[s]
  <2>1. /\ load \in [Reloaders -> LoadStates]
        /\ load' = [load EXCEPT ![r] = [load[r] EXCEPT !.pc = "done"]]
    BY DEF Inv, Typed, ReloadCommit
  <2>2. [load[r] EXCEPT !.pc = "done"] \in LoadStates
    BY <2>1 DEF LoadStates
  <2> QED
    BY <2>1, <2>2
<1>4. load'[r].pc = "done" /\ load'[r].start = load[r].start
  BY <1>3, LoadType DEF Inv, LoadStates
<1>5. /\ fresh'[r] = <<>> /\ fresh' = [s \in Reloaders |-> fresh'[s]]
      /\ \A s \in Reloaders : s # r => fresh'[s] = fresh[s]
  BY DEF Inv, Collected, ReloadCommit
<1>6. DOMAIN fresh'[r] = {} /\ fresh'[r] \in [{} -> Query]
  BY <1>5
<1>7. \A s \in Reloaders : s # r => load[s].pc \notin Locked
  BY <1>0 DEF Inv, Typed, TypeOK
<1>8. Typed'
  <2>1. \A e \in Evaluators : eval'[e] \in EvalStates
    BY <1>1
  <2>2. \A s \in Reloaders : /\ load'[s].pc \in {"idle", "queued", "done"}
                             /\ writer' # s
    BY <1>0, <1>3, <1>4, <1>7 DEF Inv, Typed, LoadStates
  <2> QED
    BY <1>0, <1>1, <1>2, <1>3, <2>1, <2>2 DEF Inv, Typed, TypeOK, EvalStates
<1>9. Collected'
  BY <1>3, <1>4, <1>5, <1>6 DEF Inv, Collected
<1>10. \A x : Prepared(x)' = Prepared(x)
  BY <1>0 DEF Prepared, OnPath
<1>11. \A p \in Loaded : /\ NotNewer(queries'[p], Prepared(p))
                         /\ NotNewer(queries[p], queries'[p])
                         /\ NotOlder(queries'[p], load[r].start, p)
                         /\ Compiles(queries'[p])
  BY <1>0 DEF Inv, Stamped, Compiling
<1>12. \A s \in Reloaders : s # r => DOMAIN fresh[s] = {} /\ load[s].pc # "preparing"
  BY <1>7 DEF Inv, Collected
<1>13. Stamped'
  <2>1. \A s \in Reloaders : /\ DOMAIN fresh'[s] = {}
                             /\ load'[s].pc # "preparing"
                             /\ load'[s].start = load[s].start
    BY <1>3, <1>4, <1>5, <1>6, <1>12
  <2>2. \A p \in Loaded : NotNewer(queries[p], Prepared(p))'
    BY <1>10, <1>11 DEF NotNewer
  <2> QED
    BY <1>0, <2>1, <2>2 DEF Inv, Stamped
<1>14. ReloadTakesEffect'
  <2> SUFFICES ASSUME NEW s \in Reloaders, load'[s].pc = "done", NEW p \in Loaded
               PROVE  NotOlder(queries[p], load[s].start, p)'
    BY DEF ReloadTakesEffect
  <2> dirs' = dirs
    BY <1>0
  <2>1. CASE s = r
    BY <1>4, <1>11, <2>1 DEF NotOlder
  <2>2. CASE s # r
    <3>1. load'[s] = load[s] /\ NotOlder(queries[p], load[s].start, p)
      BY <1>3, <2>2 DEF Inv, ReloadTakesEffect
    <3>2. queries[p] \in Query /\ queries'[p] \in Query
      BY <1>2 DEF Inv, Typed, TypeOK
    <3>3. NotOlder(queries'[p], load[s].start, p)
      BY <1>11, <3>1, <3>2, Later DEF Inv
    <3> QED
      BY <3>1, <3>3 DEF NotOlder
  <2> QED
    BY <2>1, <2>2
<1>15. Compiling'
  BY <1>5, <1>6, <1>11, <1>12 DEF Compiling, QueriesCompile
<1> QED
  BY <1>1, <1>8, <1>9, <1>13, <1>14, <1>15 DEF Inv

-----------------------------------------------------------------------------

\* The queries of a daemon that has started are those of its files, and compile.
LEMMA InvInit == Init => Inv
<1> SUFFICES ASSUME Init PROVE Inv
  OBVIOUS
<1>0. Absent \in Content /\ [stamp |-> 0, kind |-> "good"] \in Content
  BY DEF Absent, Content, Kinds
<1>1. /\ disk \in [Files -> Content] /\ \A f \in Files : disk[f].stamp = 0
      /\ disk["base"].kind = "good"
      /\ \A f \in {"base", "override"} \cup Loaded : OnPath(f).kind # "broken"
  BY <1>0 DEF Init, OnPath, Absent
<1>2. \A p \in Loaded : Prepared(p) \in Query
  BY <1>0, <1>1 DEF Prepared, OnPath, Query
<1>3. TypeOK
  <2>1. queries \in [Loaded -> Query] /\ agents \in [Agents -> Profiles \cup {NoProfile}]
    BY <1>2 DEF Init
  <2>2. edits \in 0..MaxEdits /\ writer = NoReloader
    BY DEF Init
  <2>3. /\ \A e \in Evaluators : eval[e].pc = "idle"
        /\ \A r \in Reloaders : load[r].pc = "idle"
    BY DEF Init, EvalIdle, LoadIdle
  <2> QED
    BY <1>1, <2>1, <2>2, <2>3 DEF TypeOK
<1>4. Typed
  <2>1. EvalIdle \in EvalStates
    BY <1>0 DEF EvalIdle, EvalStates, NoQuery, Query
  <2>2. LoadIdle \in LoadStates
    BY <1>0 DEF LoadIdle, LoadStates
  <2> QED
    BY <1>3, <2>1, <2>2 DEF Typed, Init, EvalIdle, LoadIdle
<1>5. \A r \in Reloaders : DOMAIN fresh[r] = {} /\ fresh[r] \in [{} -> Query]
  BY DEF Init
<1>6. Collected
  BY <1>5 DEF Collected, Init
<1>7. \A p \in Loaded : queries[p] = Prepared(p)
  BY DEF Init
<1>8. Stamped
  <2>1. \A p \in Loaded : NotNewer(queries[p], Prepared(p))
    BY <1>2, <1>7, Stamps DEF NotNewer
  <2>2. edits = 0
    BY DEF Init
  <2>3. \A r \in Reloaders : load[r].pc = "idle" /\ \A f \in Files : load[r].start[f] = 0
    BY DEF Init, LoadIdle
  <2> QED
    BY <1>1, <1>5, <2>1, <2>2, <2>3 DEF Stamped
<1>9. Compiling
  <2>1. \A p \in Loaded : Compiles(Prepared(p))
    BY <1>1 DEF Compiles, Prepared, OnPath
  <2> QED
    BY <1>5, <1>7, <2>1 DEF Compiling, QueriesCompile
<1>10. ReloadTakesEffect /\ Seen
  BY DEF ReloadTakesEffect, Seen, Init, LoadIdle, EvalIdle
<1> QED
  BY <1>4, <1>6, <1>8, <1>9, <1>10 DEF Inv

\* Every step keeps the invariant.
LEMMA InvNext == Inv /\ [Next]_vars => Inv'
<1> SUFFICES ASSUME Inv, [Next]_vars PROVE Inv'
  OBVIOUS
<1>1. CASE UNCHANGED vars
  <2>1. Typed'
    BY <1>1 DEF Inv, Typed, TypeOK
  <2> QED
    BY <1>1, <2>1, ReloadsUnchanged, EvaluatorsUnchanged DEF Inv
<1>2. CASE \E f \in Files, k \in Kinds : Edit(f, k)
  BY <1>2, EditStep
<1>3. CASE \E a \in Agents : (\E p \in Profiles : RegisterAgent(a, p)) \/ UnregisterAgent(a)
  BY <1>3, RecordStep DEF RegisterAgent, UnregisterAgent
<1>4. CASE \E e \in Evaluators : (\E a \in Agents : EvalBegin(e, a)) \/ EvalStep(e)
  BY <1>4, EvaluatorStep
<1>5. CASE \E r \in Reloaders : ReloadBegin(r) \/ ReloadAcquire(r) \/ ReloadStep(r)
  BY <1>5, ReloadQuiet, PrepareRestStep, ReloadFailStep, ReloadCommitStep DEF ReloadStep
<1> QED
  BY <1>1, <1>2, <1>3, <1>4, <1>5 DEF Next

\* The invariant holds in every reachable state.
LEMMA InvAlways == Spec => []Inv
BY InvInit, InvNext, PTL DEF Spec

\* Every variable has its type, and the write lock is with the reload that is
\* between Lock and Unlock.
THEOREM TypeCorrect == Spec => []TypeOK
BY InvAlways, PTL DEF Inv, Typed

\* Every loaded profile always has a query that compiled.
THEOREM QueriesAlwaysCompile == Spec => []QueriesCompile
BY InvAlways, PTL DEF Inv, Compiling

\* A reload that has reported success has taken effect, whatever other reloads
\* are queued and whatever is edited meanwhile.
THEOREM ReloadsTakeEffect == Spec => []ReloadTakesEffect
BY InvAlways, PTL DEF Inv

\* A decision goes by a record and a query that were in force together.
THEOREM DecisionsInForce == Spec => []DecidedInForce
<1>1. Inv => DecidedInForce
  BY DEF Inv, Seen, DecidedInForce
<1> QED
  BY <1>1, InvAlways, PTL

\* Only the end of a reload changes the queries.
LEMMA QueriesChange ==
    ASSUME Next
    PROVE  queries' = queries \/ \E r \in Reloaders : ReloadCommit(r)
BY DEF Next, Edit, RegisterAgent, UnregisterAgent, SetRecord, EvalBegin, EvalStep,
       EvalSnapshot, EvalDecide, EvalReturn, ReloadBegin, ReloadAcquire,
       ReloadStep, ReloadLocked, PrepareBase, PrepareRest, ReloadFail,
       AfterFailure, ReloadReturn

\* What a reload puts in force is all that it has prepared, neither older than
\* its request nor older than what it replaces.
LEMMA CommitNewer ==
    ASSUME Inv, NEW r \in Reloaders, ReloadCommit(r)
    PROVE  /\ writer = r
           /\ load'[r].pc = "done"
           /\ queries' = fresh[r]
           /\ \A p \in Loaded : /\ NotOlder(fresh[r][p], load[r].start, p)
                                /\ NotNewer(queries[p], queries'[p])
<1>1. load[r].pc = "loading" /\ DOMAIN fresh[r] = Loaded /\ queries' = fresh[r]
  BY DEF ReloadCommit
<1>2. writer = r
  BY <1>1 DEF Inv, Typed, TypeOK
<1>3. load'[r].pc = "done"
  BY DEF ReloadCommit, Inv, Typed
<1> QED
  BY <1>1, <1>2, <1>3 DEF Inv, Stamped

\* Queries change for all profiles at once, by a reload that holds the lock and
\* succeeds in the same step, to what it has prepared itself.
THEOREM ReloadsAllOrNothing == Spec => ReloadAllOrNothing
<1> DEFINE Change == queries' # queries =>
               \E r \in Reloaders :
                  /\ writer = r
                  /\ load'[r].pc = "done"
                  /\ queries' = fresh[r]
                  /\ \A p \in Loaded : NotOlder(fresh[r][p], load[r].start, p)
<1>1. Inv /\ [Next]_vars => [Change]_vars
  <2> SUFFICES ASSUME Inv, Next PROVE Change
    OBVIOUS
  <2> QED
    BY QueriesChange, CommitNewer
<1> HIDE DEF Change
<1>2. Spec => [][Change]_vars
  BY <1>1, InvAlways, PTL DEF Spec
<1> QED
  BY <1>2 DEF ReloadAllOrNothing, Change

\* No reload brings back an older state of a file.
THEOREM ReloadsNeverOlder == Spec => NeverOlder
<1> DEFINE Forward ==
        \A p \in Loaded :
           /\ queries'[p].base.stamp >= queries[p].base.stamp
           /\ queries'[p].override.stamp >= queries[p].override.stamp
           /\ queries'[p].overlay.stamp >= queries[p].overlay.stamp
<1>1. Inv /\ [Next]_vars => [Forward]_vars
  <2> SUFFICES ASSUME Inv, Next PROVE Forward
    OBVIOUS
  <2>1. \A p \in Loaded : queries[p] \in Query
    BY DEF Inv, Typed, TypeOK
  <2>2. CASE queries' = queries
    BY <2>1, <2>2, Stamps
  <2>3. CASE \E r \in Reloaders : ReloadCommit(r)
    <3>1. \A p \in Loaded : NotNewer(queries[p], queries'[p])
      BY <2>3, CommitNewer
    <3>2. \A p \in Loaded : queries'[p] \in Query
      BY <2>3, InvNext DEF Inv, Typed, TypeOK
    <3> QED
      BY <2>1, <3>1, <3>2, Stamps DEF NotNewer
  <2> QED
    BY <2>2, <2>3, QueriesChange
<1> HIDE DEF Forward
<1>2. Spec => [][Forward]_vars
  BY <1>1, InvAlways, PTL DEF Spec
<1> QED
  BY <1>2 DEF NeverOlder, Forward

-----------------------------------------------------------------------------
(* What EvaluationReturns and ReloadReturns rest on *)

\* An evaluation that is held back waits for a reload that has the lock or has
\* asked for it, and none reads while a reload works.
LockKept ==
    /\ \A e \in Evaluators : eval[e].pc = "blocked" => writer \in Reloaders
    /\ \A r \in Reloaders : load[r].pc \in {"loading", "preparing"} => Readers = {}

\* Unlock wakes all that were held back, and a reader that comes while a
\* reload has asked for the lock waits.
LEMMA LockKeptStep == Inv /\ LockKept /\ [Next]_vars => LockKept'
<1> SUFFICES ASSUME Inv, LockKept, [Next]_vars PROVE LockKept'
  OBVIOUS
<1> USE DEF LockKept, Readers
<1>1. CASE UNCHANGED <<writer, eval, load>>
  BY <1>1
<1>2. ASSUME NEW e \in Evaluators, NEW a \in Agents, EvalBegin(e, a)
      PROVE  LockKept'
  <2>1. /\ eval' = [eval EXCEPT ![e] = eval'[e]]
        /\ eval'[e].pc = IF writer = NoReloader THEN "reading" ELSE "blocked"
        /\ UNCHANGED <<writer, load>>
    BY <1>2 DEF EvalBegin, Inv, Typed, EvalStates
  <2>2. writer \in Reloaders \cup {NoReloader}
    BY DEF Inv, Typed, TypeOK
  <2>3. \A r \in Reloaders : load[r].pc \in {"loading", "preparing"} => writer = r
    BY DEF Inv, Typed, TypeOK
  <2>4. \A d \in Evaluators : d # e => eval'[d] = eval[d]
    BY <2>1 DEF Inv, Typed
  <2> QED
    BY <2>1, <2>2, <2>3, <2>4
<1>3. ASSUME NEW e \in Evaluators, EvalStep(e)
      PROVE  LockKept'
  <2>1. /\ \A d \in Evaluators : eval'[d].pc \in {"blocked", "reading"} => eval'[d] = eval[d]
        /\ UNCHANGED <<writer, load>>
    BY <1>3 DEF EvalStep, EvalSnapshot, EvalDecide, EvalReturn, EvalIdle,
                Inv, Typed, EvalStates
  <2> QED
    BY <2>1
<1>4. ASSUME NEW r \in Reloaders,
             \/ ReloadBegin(r) \/ ReloadAcquire(r) \/ ReloadLocked(r) \/ PrepareRest(r)
             \/ ReloadReturn(r) \/ \E p \in Loaded : PrepareBase(r, p)
      PROVE  LockKept'
  <2>1. /\ eval' = eval /\ writer' \in {writer, r}
        /\ \A s \in Reloaders \ {r} : load'[s] = load[s]
        /\ load'[r].pc \in {"loading", "preparing"} =>
              load[r].pc \in {"loading", "preparing"} \/ Readers = {}
    <3> USE DEF Inv, Typed, LoadStates
    <3>1. CASE ReloadBegin(r) \/ ReloadReturn(r)
      BY <3>1 DEF ReloadBegin, ReloadReturn, LoadIdle
    <3>2. CASE ReloadAcquire(r)
      BY <3>2 DEF ReloadAcquire
    <3>3. CASE ReloadLocked(r)
      BY <3>3 DEF ReloadLocked
    <3>4. CASE PrepareRest(r)
      BY <3>4 DEF PrepareRest
    <3>5. CASE \E p \in Loaded : PrepareBase(r, p)
      BY <3>5 DEF PrepareBase
    <3> QED
      BY <1>4, <3>1, <3>2, <3>3, <3>4, <3>5
  <2> QED
    BY <2>1
<1>5. ASSUME NEW r \in Reloaders, ReloadFail(r) \/ ReloadCommit(r)
      PROVE  LockKept'
  <2>1. /\ \A e \in Evaluators : eval'[e].pc # "blocked"
        /\ load'[r].pc \notin {"loading", "preparing"}
        /\ \A s \in Reloaders \ {r} : load'[s] = load[s]
    BY <1>5 DEF ReloadFail, ReloadCommit, Unlock, LoadIdle, Inv, Typed,
                LoadStates, EvalStates
  <2>2. \A s \in Reloaders \ {r} : load[s].pc \notin Locked
    BY <1>5 DEF ReloadFail, ReloadCommit, Inv, Typed, TypeOK
  <2> QED
    BY <2>1, <2>2
<1> QED
  BY <1>1, <1>2, <1>3, <1>4, <1>5
     DEF Next, Edit, RegisterAgent, UnregisterAgent, SetRecord, ReloadStep

\* No evaluation is left behind by an Unlock, and no reload changes queries
\* under a reader: a blocked evaluation always has a reload that will wake it.
THEOREM NoLostWakeup == Spec => []LockKept
<1>1. Init => LockKept
  BY DEF Init, LockKept, Readers, EvalIdle, LoadIdle
<1> QED
  BY <1>1, LockKeptStep, InvAlways, PTL DEF Spec

\* The profile a reload works at is one it has not prepared yet.
Ahead == \A r \in Reloaders :
             load[r].pc = "preparing" => load[r].profile \notin DOMAIN fresh[r]

\* What a step does to a reload that has the lock.
Advances(r) ==
    load[r].pc \in Locked =>
        \/ UNCHANGED <<load[r], fresh[r]>>
        \/ load[r].pc = "draining" /\ load'[r].pc = "loading" /\ fresh'[r] = fresh[r]
        \/ load[r].pc = "loading" /\ load'[r].pc = "preparing" /\ fresh'[r] = fresh[r]
        \/ /\ load[r].pc = "preparing" /\ load'[r].pc = "loading"
           /\ \E p \in Loaded \ DOMAIN fresh[r] :
                 DOMAIN fresh'[r] = DOMAIN fresh[r] \cup {p}
        \/ writer = r /\ writer' = NoReloader

\* Nobody but r changes what r remembers and has prepared.
LEMMA AheadStep ==
    ASSUME Inv, Ahead, [Next]_vars
    PROVE  Ahead' /\ \A r \in Reloaders : Advances(r)
<1> USE DEF Ahead, Advances
<1>1. CASE UNCHANGED <<load, fresh>>
  BY <1>1
<1>2. ASSUME NEW r \in Reloaders, ReloadBegin(r) \/ ReloadAcquire(r) \/ ReloadStep(r)
      PROVE  Ahead' /\ \A s \in Reloaders : Advances(s)
  <2>1. load = [s \in Reloaders |-> load[s]] /\ fresh = [s \in Reloaders |-> fresh[s]]
        /\ load[r] \in LoadStates
    BY DEF Inv, Typed, Collected
  <2>2. \A s \in Reloaders \ {r} : load'[s] = load[s] /\ fresh'[s] = fresh[s]
    BY <1>2, <2>1
       DEF ReloadBegin, ReloadAcquire, ReloadStep, ReloadLocked, PrepareBase,
           PrepareRest, ReloadFail, ReloadCommit, ReloadReturn
  <2>3. /\ load'[r].pc = "preparing" => load'[r].profile \notin DOMAIN fresh'[r]
        /\ Advances(r)
    <3> USE <2>1 DEF LoadStates
    <3>1. CASE ReloadBegin(r) \/ ReloadAcquire(r)
      BY <3>1 DEF ReloadBegin, ReloadAcquire
    <3>2. CASE ReloadLocked(r) \/ ReloadReturn(r)
      BY <3>2 DEF ReloadLocked, ReloadReturn, LoadIdle
    <3>3. ASSUME NEW p \in Loaded, PrepareBase(r, p)
          PROVE  /\ load'[r].pc = "preparing" => load'[r].profile \notin DOMAIN fresh'[r]
                 /\ Advances(r)
      BY <3>3 DEF PrepareBase
    <3>4. CASE PrepareRest(r)
      <4>1. /\ load[r].pc = "preparing" /\ load'[r].pc = "loading"
            /\ fresh'[r] = With(fresh[r], load[r].profile, Compiled(r))
        BY <3>4 DEF PrepareRest
      <4>2. DOMAIN fresh'[r] = DOMAIN fresh[r] \cup {load[r].profile}
        BY <4>1 DEF With
      <4>3. load[r].profile \in Loaded \ DOMAIN fresh[r]
        BY <4>1 DEF Inv, Typed
      <4> QED
        BY <4>1, <4>2, <4>3
    <3>5. CASE ReloadFail(r) \/ ReloadCommit(r)
      <4>1. writer = r /\ writer' = NoReloader /\ load'[r].pc # "preparing"
        BY <3>5 DEF ReloadFail, ReloadCommit, Unlock, LoadIdle, Inv, Typed, TypeOK
      <4> QED
        BY <4>1
    <3> QED
      BY <1>2, <3>1, <3>2, <3>3, <3>4, <3>5 DEF ReloadStep
  <2> QED
    BY <2>2, <2>3
<1> QED
  BY <1>1, <1>2
     DEF Next, Edit, RegisterAgent, UnregisterAgent, SetRecord, EvalBegin,
         EvalStep, EvalSnapshot, EvalDecide, EvalReturn

\* A reload keeps the write lock, and evaluations waiting, for one preparation
\* of each loaded profile at most, whatever is edited meanwhile: every step
\* under the lock goes on to the next profile or gives the lock back.
THEOREM ReloadsOnlyAdvance == Spec => [][\A r \in Reloaders : Advances(r)]_vars
<1> DEFINE All == \A r \in Reloaders : Advances(r)
<1>1. Init => Ahead
  BY DEF Init, Ahead, LoadIdle
<1>2. Inv /\ Ahead /\ [Next]_vars => Ahead' /\ [All]_vars
  BY AheadStep
<1> HIDE DEF All
<1>3. Spec => [][All]_vars
  BY <1>1, <1>2, InvAlways, PTL DEF Spec
<1> QED
  BY <1>3 DEF All
==============================================================================
