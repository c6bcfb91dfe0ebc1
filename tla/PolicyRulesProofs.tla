------------------------- MODULE PolicyRulesProofs --------------------------
(***************************************************************************)
(* Proofs about PolicyRules for any agents and any number of added rules,  *)
(* for whichever profiles and agents: what the rules of the image keep     *)
(* closed whatever is added to them.                                       *)
(***************************************************************************)
EXTENDS PolicyRules, TLAPS

\* What is allowed and not by an added rule for allow itself is not denied.
LEMMA DenyWins ==
    ASSUME NEW q, Evaluate(q).allow, ~Added("allow", q)
    PROVE  SomeAllowRuleMatches(q) /\ ~DenyRuleMatches(q)
BY DEF Evaluate, Allow

\* Whatever rules are added, no agent is allowed a path that starts with the
\* directory of another, or with a sensitive prefix, nor to change a sensitive
\* path.
THEOREM AreasAlwaysKept == Spec => []AreasKept
<1>1. AreasKept
  <2> SUFFICES ASSUME NEW q \in Callers, Evaluate(q).allow, IsFile,
                      ~Added("allow", q), ~StartsWithOwnWorkspace(q)
               PROVE  /\ ~Starts({"workspace", "agents", "protected"})
                      /\ Type \in Changes => ~Starts({"sensitive"})
    BY DEF AreasKept
  <2>1. ~TargetsSensitivePath(q)
    BY DenyWins DEF DenyRuleMatches
  <2>2. ~Starts({"workspace", "agents"}) /\ ~Starts({"protected"})
    BY <2>1 DEF TargetsSensitivePath, ForeignDirectory
  <2> QED
    BY <2>1, <2>2 DEF TargetsSensitivePath, Starts
<1> QED
  BY <1>1, PTL

\* What no added rule grants to the caller is allowed only where the image
\* allows it, whatever is granted to other agents and profiles.
THEOREM UngrantedAlwaysOut == Spec => []UngrantedStaysOut
<1>1. UngrantedStaysOut
  <2> SUFFICES ASSUME NEW q \in Callers, Evaluate(q).allow, ~Granted(q)
               PROVE  /\ Type \notin {"filesystem_delete", "exec", "syscall"}
                      /\ Type = "network_connect" =>
                            /\ ~IsBlockedEndpoint
                            /\ q.profile = "minimal" => Resource = "localhost"
                      /\ Type = "filesystem_write" => StartsWithOwnWorkspace(q)
                      /\ ~Starts({"sensitive"})
    BY DEF UngrantedStaysOut
  <2>1. /\ ~Added("allow", q) /\ ~Added("some_allow_rule_matches", q)
        /\ ~Added("allow_network", q)
    BY DEF Granted, Grants
  <2>2. \/ Type \in {"filesystem_read", "filesystem_write"} /\ StartsWithOwnWorkspace(q)
        \/ Type = "filesystem_read" /\ Starts({"policy", "information"})
        \/ Type = "tool_call"
        \/ Type = "network_connect" /\ (Resource = "localhost" \/ PublicNetwork(q))
    BY <2>1, DenyWins DEF SomeAllowRuleMatches, AllowNetwork, Files
  <2>3. PublicNetwork(q) => ~IsBlockedEndpoint /\ q.profile # "minimal"
    BY DEF PublicNetwork
  <2>4. StartsWithOwnWorkspace(q) \/ Starts({"policy", "information"}) =>
           ~Starts({"sensitive"})
    BY DEF StartsWithOwnWorkspace, Starts
  <2>5. Type \in {"tool_call", "network_connect"} => ~Starts({"sensitive"})
    BY DEF Starts, IsFile, Files
  <2> QED
    BY <2>2, <2>3, <2>4, <2>5 DEF IsBlockedEndpoint
<1> QED
  BY <1>1, PTL

\* Only a rule that the operator adds for some profiles and not for others can
\* refuse a wider profile what a narrower one is allowed.
THEOREM ProfilesAlwaysNested == Spec => []ProfilesNested
<1>1. ProfilesNested
  <2> SUFFICES ASSUME NEW q \in Callers, NEW wider \in Profiles, NEW w,
                      w = [q EXCEPT !.profile = wider],
                      q.profile = "minimal" \/ wider = "infrastructure",
                      Evaluate(q).allow,
                      \A head \in Grants : Added(head, q) => Added(head, w),
                      \A head \in Restrictions : Added(head, w) => Added(head, q)
               PROVE  Evaluate(w).allow
    BY DEF ProfilesNested
  <2>1. w.agent = q.agent /\ w.profile = wider /\ q.profile \in Profiles
    BY DEF Callers
  <2>2. DenyRuleMatches(w) => DenyRuleMatches(q)
    BY <2>1 DEF DenyRuleMatches, TargetsSensitivePath, ForeignDirectory,
                StartsWithOwnWorkspace, Restrictions
  <2>3. PublicNetwork(q) => PublicNetwork(w)
    BY <2>1 DEF PublicNetwork, IsPrivateNetwork, Profiles, Restrictions
  <2>4. SomeAllowRuleMatches(q) => SomeAllowRuleMatches(w)
    BY <2>1, <2>3
       DEF SomeAllowRuleMatches, AllowNetwork, StartsWithOwnWorkspace, Grants
  <2>5. Allow(q) /\ ~Conflict(q)
    BY DEF Evaluate
  <2>6. Allow(w) /\ ~Conflict(w)
    BY <2>2, <2>4, <2>5 DEF Allow, Conflict, Grants, Restrictions
  <2> QED
    BY <2>6 DEF Evaluate
<1> QED
  BY <1>1, PTL

\* A rule that is added shows up under its own head, for the callers it covers,
\* and nowhere else.
LEMMA AddedShows ==
    ASSUME Next, NEW r \in overlay' \ overlay, NEW q \in Callers
    PROVE  /\ UNCHANGED action
           /\ \A head \in Heads :
                 /\ Added(head, q) => Added(head, q)'
                 /\ head # r.head \/ ~Covers(r, q) =>
                       (Added(head, q)' => Added(head, q))
<1>1. PICK s \in Rules : AddRule(s) \/ RemoveRule(s)
  BY DEF Next
<1>2. overlay' = overlay \cup {r} /\ UNCHANGED action
  BY <1>1 DEF AddRule, RemoveRule
<1> QED
  BY <1>2 DEF Added, Covers

\* Every added rule works in the direction it was written for and for the
\* callers it covers, beside any number of others.
THEOREM AddedRulesAlwaysAct == Spec => AddedRulesAct
<1> DEFINE Acts ==
        \A r \in overlay' \ overlay, q \in Callers :
          /\ r.head \in Grants => (Evaluate(q).allow => Evaluate(q)'.allow)
          /\ r.head \in Restrictions => (Evaluate(q)'.allow => Evaluate(q).allow)
          /\ ~Covers(r, q) => Evaluate(q)' = Evaluate(q)
<1>1. [Next]_vars => [Acts]_vars
  <2> SUFFICES ASSUME Next, NEW r \in overlay' \ overlay, NEW q \in Callers
               PROVE  /\ r.head \in Grants => (Evaluate(q).allow => Evaluate(q)'.allow)
                      /\ r.head \in Restrictions => (Evaluate(q)'.allow => Evaluate(q).allow)
                      /\ ~Covers(r, q) => Evaluate(q)' = Evaluate(q)
    OBVIOUS
  <2>1. /\ Type' = Type /\ Resource' = Resource /\ IsFile' = IsFile
        /\ IsBlockedEndpoint' = IsBlockedEndpoint
        /\ TargetsSensitivePath(q)' = TargetsSensitivePath(q)
        /\ StartsWithOwnWorkspace(q)' = StartsWithOwnWorkspace(q)
        /\ Starts({"policy", "information"})' = Starts({"policy", "information"})
    BY AddedShows
       DEF Type, Resource, IsFile, IsBlockedEndpoint, TargetsSensitivePath, Starts,
           ForeignDirectory, StartsWithOwnWorkspace
  <2> QED
    BY AddedShows, <2>1
       DEF Heads, Grants, Restrictions, Evaluate, Allow, Conflict, AuditRequired,
           SomeAllowRuleMatches, AllowNetwork, PublicNetwork, IsPrivateNetwork,
           DenyRuleMatches
<1> HIDE DEF Acts
<1>2. Spec => [][Acts]_vars
  BY <1>1, PTL DEF Spec
<1> QED
  BY <1>2 DEF AddedRulesAct, Acts
=============================================================================
