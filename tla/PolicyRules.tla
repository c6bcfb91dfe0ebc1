---------------------------- MODULE PolicyRules ----------------------------
(***************************************************************************)
(* The decision the Rego rules under policy/base make, as the engine asks  *)
(* for it (the whole document data.atomic.agent), and how the rules that   *)
(* an operator adds in the override directory join those of the image.     *)
(*                                                                         *)
(* PolicyEngine says which rules are in force when; here they are what is  *)
(* in force.  The rules see a resource as the string of the request and    *)
(* compare it as it is written: a resource stands for a class of strings   *)
(* that they do not tell apart, whatever the strings lead to.              *)
(***************************************************************************)
EXTENDS Naturals, FiniteSets

CONSTANTS
    Agents,     \* agent identifiers
    Nobody,     \* the owner of a path outside the agents' workspaces
    MaxRules    \* bound: rules in the override directory at a time

ASSUME RulesAssumption == Nobody \notin Agents /\ MaxRules \in Nat

VARIABLES
    action,     \* the action that is asked about, by whatever agent
    overlay     \* the rules of the override directory that speak of it

vars == <<action, overlay>>

Profiles == {"minimal", "developer", "infrastructure"}

Files == {"filesystem_read", "filesystem_write", "filesystem_delete"}

Changes == {"filesystem_write", "filesystem_delete"}

\* What the string of a path starts with: the workspace_path of an agent, the
\* agents' directory without such a path, the installed policy, one of the
\* sensitive_prefixes; or that it is one of the four files of runtime
\* information, or one of the sensitive_paths; or anything else.
Paths ==
    [starts : {"workspace"}, of : Agents]
    \cup [starts : {"agents", "policy", "information", "sensitive", "protected",
                    "elsewhere"},
          of : {Nobody}]

\* Strings that net.cidr_contains puts into a range of the rules, that are
\* blocked_endpoints or in their range, and all others: addresses and, since
\* net.cidr_contains is undefined on them, all names that are not listed.
Endpoints == {"localhost", "private", "blocked", "other"}

\* A binary of allowed_binaries, one a profile lists as additional, another.
Binaries == {"allowed", "additional", "unlisted"}

\* What may be asked, as far as rules can tell; "syscall" stands for the types
\* no rule names.
Actions ==
    [type : Files, resource : Paths]
    \cup [type : {"network_connect"}, resource : Endpoints]
    \cup [type : {"exec"}, resource : Binaries]
    \cup [type : {"tool_call", "syscall"}, resource : {"any"}]

\* The agent of the input document.
Callers == [agent : Agents, profile : Profiles]

\* The rules that override files may add to.  A second value for the set
\* allowed_binaries does not extend it: the two are in conflict.
Heads ==
    {"allow", "some_allow_rule_matches", "deny_rule_matches", "audit_required",
     "allow_network", "is_private_network", "allowed_binaries"}

\* An added rule whose conditions on the action hold, and the callers for which
\* its others do: a rule may test input.agent, and one in profiles/<p>.rego is
\* loaded for profile p alone.
Rules == [head : Heads, agents : SUBSET Agents, profiles : SUBSET Profiles]

Covers(r, q) == q.agent \in r.agents /\ q.profile \in r.profiles

\* Mutant: the files of all profiles are loaded into one query.
AddedUnscoped(head, q) == \E r \in overlay : r.head = head

\* Some rule of the override directory with this head applies.
Added(head, q) == \E r \in overlay : r.head = head /\ Covers(r, q)

-----------------------------------------------------------------------------
(* The rules of the image *)

Type == action.type

Resource == action.resource

IsFile == Type \in Files

Starts(with) == IsFile /\ Resource.starts \in with

StartsWithOwnWorkspace(q) ==
    IsFile /\ Resource = [starts |-> "workspace", of |-> q.agent]

\* Mutant: the prefix compared is the agents' common directory.
ForeignDirectoryNever(q) == Starts({"workspace", "agents"}) /\ Resource.of \notin Agents

\* The path starts with /var/lib/atomic/agents/, the default of
\* workspace_root, but not with the agent's own workspace_path.
ForeignDirectory(q) ==
    Starts({"workspace", "agents"}) /\ ~StartsWithOwnWorkspace(q)

TargetsSensitivePath(q) ==
    \/ Type \in Changes /\ Starts({"sensitive"})
    \/ Starts({"protected"})
    \/ ForeignDirectory(q)

DenyRuleMatches(q) ==
    \/ TargetsSensitivePath(q)
    \/ Type = "exec" /\ Resource # "allowed"
    \/ Added("deny_rule_matches", q)

IsBlockedEndpoint == Resource = "blocked"

IsPrivateNetwork(q) ==
    Resource = "private" \/ Added("is_private_network", q)

\* Mutant: the blocked endpoints are forgotten.
PublicNetworkUnblocked(q) ==
    /\ q.profile \in {"developer", "infrastructure"}
    /\ ~IsPrivateNetwork(q)

\* Mutant: the rule is written for one profile.
PublicNetworkDeveloper(q) ==
    /\ q.profile = "developer"
    /\ ~IsBlockedEndpoint
    /\ ~IsPrivateNetwork(q)

PublicNetwork(q) ==
    /\ q.profile \in {"developer", "infrastructure"}
    /\ ~IsBlockedEndpoint
    /\ ~IsPrivateNetwork(q)

AllowNetwork(q) ==
    \/ Resource = "localhost"
    \/ PublicNetwork(q)
    \/ Added("allow_network", q)

\* Nothing allows a deletion, an execution or a system call.
SomeAllowRuleMatches(q) ==
    \/ Type \in Files \ {"filesystem_delete"} /\ StartsWithOwnWorkspace(q)
    \/ Type = "filesystem_read" /\ Starts({"policy", "information"})
    \/ Type = "tool_call"
    \/ Type = "network_connect" /\ AllowNetwork(q)
    \/ Added("some_allow_rule_matches", q)

Allow(q) ==
    \/ SomeAllowRuleMatches(q) /\ ~DenyRuleMatches(q)
    \/ Added("allow", q)

AuditRequired(q) ==
    \/ q.profile = "infrastructure"
    \/ Type \in {"network_connect", "exec"}
    \/ Added("audit_required", q)

\* The document cannot be evaluated, and neither can the request, whether or
\* not it has to do with binaries.
Conflict(q) == Added("allowed_binaries", q)

\* Mutant: an evaluation that failed is taken for an answer.
EvaluateUnfailing(q) ==
    [allow |-> Allow(q) \/ Conflict(q), audit |-> AuditRequired(q)]

\* Engine.Evaluate for a registered agent with a query: an error counts as a
\* refusal.
Evaluate(q) ==
    IF Conflict(q) THEN [allow |-> FALSE, audit |-> FALSE]
                   ELSE [allow |-> Allow(q), audit |-> AuditRequired(q)]

-----------------------------------------------------------------------------
(* The override directory *)

Init == action \in Actions /\ overlay = {}

\* A rule is put into a file of the override directory, or taken out of it,
\* and the policy reloaded.
AddRule(r) ==
    /\ r \notin overlay
    /\ Cardinality(overlay) < MaxRules
    /\ overlay' = overlay \cup {r}
    /\ UNCHANGED action

RemoveRule(r) ==
    /\ r \in overlay
    /\ overlay' = overlay \ {r}
    /\ UNCHANGED action

Next == \E r \in Rules : AddRule(r) \/ RemoveRule(r)

Spec == Init /\ [][Next]_vars

-----------------------------------------------------------------------------
(* Properties *)

Grants == {"allow", "some_allow_rule_matches", "allow_network"}

Restrictions == {"deny_rule_matches", "is_private_network", "allowed_binaries"}

\* The operator has asked for this to be allowed.
Granted(q) == \E head \in Grants : Added(head, q)

\* Whatever rules are added, for whichever profiles and agents, but for those
\* that set allow themselves: no agent is allowed a path that starts with the
\* agents' directory and not with its own workspace_path, nor one that starts
\* with a sensitive prefix, nor to change a sensitive path.  The deny rules take
\* precedence over every allow rule, of the image or added
\* (agent_permissions.rego:28).  To read a sensitive path, only the absence of
\* an allow rule forbids.
AreasKept ==
    \A q \in Callers :
        Evaluate(q).allow /\ IsFile /\ ~Added("allow", q) =>
            \/ StartsWithOwnWorkspace(q)
            \/ /\ ~Starts({"workspace", "agents", "protected"})
               /\ Type \in Changes => ~Starts({"sensitive"})

\* "Deny by default" (agent_permissions.rego:5): what no added rule grants to
\* the caller is allowed only where the image does, whatever is granted to
\* others.  That is no listed endpoint of the metadata services for any profile,
\* nothing but localhost for the minimal one, no path to write that does not
\* start with the own workspace_path, no reading of a sensitive path, no
\* deletion and no execution.
UngrantedStaysOut ==
    \A q \in Callers :
        Evaluate(q).allow /\ ~Granted(q) =>
            /\ Type \notin {"filesystem_delete", "exec", "syscall"}
            /\ Type = "network_connect" =>
                  /\ ~IsBlockedEndpoint
                  /\ q.profile = "minimal" => Resource = "localhost"
            /\ Type = "filesystem_write" => StartsWithOwnWorkspace(q)
            /\ ~Starts({"sensitive"})

\* The profiles of the image are nested ("The most restrictive profile",
\* minimal.rego:2; "More permissive than minimal", developer.rego:2): where a
\* wider profile is refused what a narrower one is allowed, the operator has
\* added a rule that tells the two apart, a grant for the narrower one alone or
\* a restriction for the wider one alone.
ProfilesNested ==
    \A q \in Callers, wider \in Profiles :
        LET w == [q EXCEPT !.profile = wider] IN
        /\ q.profile = "minimal" \/ wider = "infrastructure"
        /\ Evaluate(q).allow
        /\ ~Evaluate(w).allow
        => \/ \E head \in Grants : Added(head, q) /\ ~Added(head, w)
           \/ \E head \in Restrictions : Added(head, w) /\ ~Added(head, q)

\* A rule does what it was added for, and only for the callers it covers,
\* although conditions are negated on the way: one that allows never leads to
\* a refusal, one that restricts, and one that cannot be evaluated, never to a
\* permission, and no decision about another caller changes.
AddedRulesAct ==
    [][\A r \in overlay' \ overlay, q \in Callers :
          /\ r.head \in Grants => (Evaluate(q).allow => Evaluate(q)'.allow)
          /\ r.head \in Restrictions => (Evaluate(q)'.allow => Evaluate(q).allow)
          /\ ~Covers(r, q) => Evaluate(q)' = Evaluate(q)]_vars
=============================================================================
