---------------------------- MODULE NetworkSharing ----------------------------
(***************************************************************************)
(* Who sees which network, and what protects a port: networks with their   *)
(* `shared' flag, RBAC policies that share them with a project or with all, *)
(* ports, security groups and their rules.                                 *)
(*                                                                         *)
(* Whoever may ask for a change exists (the owner, or the administrator),  *)
(* so that the caller is no parameter.  Addresses are in NetworkAddresses, *)
(* devices in ServerPorts.  RBAC policies and the flag they set are not    *)
(* saved of themselves, the rest is; as there is one file, a restart leads *)
(* where a restart at its last save would have led, to an earlier state.   *)
(***************************************************************************)
EXTENDS Integers, FiniteSets

CONSTANTS
    Project, Network, Policy, Port, Group, Rule,    \* ids
    Everyone,       \* the target "*"
    NoGroup,        \* a rule that is not there
    Absent,         \* a policy or a port that is not there
    Unborn, Gone,   \* network and group ids are never given twice
    Defaults        \* how many rules a new group has: two, in the code

ASSUME NetworkSharingAssumption ==
    /\ Everyone \notin Project
    /\ NoGroup \notin Group
    /\ Defaults \in Nat
    /\ Unborn # Gone

Action == {"access_as_shared", "access_as_external"}

NewNetwork(o, s, e) == [owner |-> o, shared |-> s, external |-> e]
NewPolicy(n, t, a) == [network |-> n, target |-> t, action |-> a]
NewPort(o, n, gs) == [owner |-> o, network |-> n, groups |-> gs]
NewGroup(o, d, rs) == [owner |-> o, default |-> d, rules |-> rs]

NetworkRecord == [owner : Project, shared : BOOLEAN, external : BOOLEAN]
PolicyRecord == [network : Network, target : Project \cup {Everyone}, action : Action]
PortRecord == [owner : Project, network : Network, groups : SUBSET Group]
GroupRecord == [owner : Project, default : BOOLEAN, rules : SUBSET Rule]

ASSUME RecordAssumption ==
    {Unborn, Gone, Absent}
        \cap (NetworkRecord \cup PolicyRecord \cup PortRecord \cup GroupRecord) = {}

VARIABLES
    network,    \* _networks
    policy,     \* _rbac_policies
    port,       \* _ports
    group,      \* _security_groups, with the rules they list
    rule,       \* _security_group_rules: the group each is of
    flagged,    \* history: networks whose flag is as a client set it
    sighted,    \* history: ports whose project saw the network, and was not cut off on purpose
    dangling    \* history: ports for which a client named a group that was not there

sharing == <<network, policy, flagged>>
filters == <<group, rule>>
vars == <<network, policy, port, group, rule, flagged, sighted, dangling>>

IsThere(x) == x \notin {Unborn, Gone, Absent}

Networks == {n \in Network : IsThere(network[n])}
Policies == {y \in Policy : IsThere(policy[y])}
Ports == {p \in Port : IsThere(port[p])}
Groups == {g \in Group : IsThere(group[g])}
FreeRules == {r \in Rule : rule[r] = NoGroup}

Init ==
    /\ network = [n \in Network |-> Unborn]
    /\ policy = [y \in Policy |-> Absent]
    /\ port = [p \in Port |-> Absent]
    /\ group = [g \in Group |-> Unborn]
    /\ rule = [r \in Rule |-> NoGroup]
    /\ flagged = {}
    /\ sighted = {}
    /\ dangling = {}

(***************************************************************************)
(* Who sees a network.                                                     *)
(***************************************************************************)

RbacTargets(n, q) ==
    \E y \in Policies : policy[y].network = n /\ policy[y].target \in {Everyone, q}

VisibleTo(n, q) ==
    /\ IsThere(network[n])
    /\ \/ network[n].owner = q
       \/ network[n].shared
       \/ network[n].external
       \/ RbacTargets(n, q)

Sees(p) == VisibleTo(port[p].network, port[p].owner)

\* Whoever loses sight of a network by this step was cut off.
CutOff == sighted' = {p \in sighted : Sees(p)'}

(***************************************************************************)
(* Networks.                                                               *)
(***************************************************************************)

CreateNetwork(n, o, s, e) ==
    /\ network[n] = Unborn
    /\ network' = [network EXCEPT ![n] = NewNetwork(o, s, e)]
    /\ flagged' = flagged \cup {n}
    /\ UNCHANGED <<policy, port, filters, sighted, dangling>>

WithFlag(n, s) == [network EXCEPT ![n] = NewNetwork(@.owner, s, @.external)]

UpdateNetwork(n, s) ==
    /\ n \in Networks
    /\ network' = WithFlag(n, s)
    /\ flagged' = flagged \cup {n}
    /\ UNCHANGED <<policy, port, filters, dangling>>
    /\ CutOff

\* Refused while a port is left.  The policies about the network stay.
DeleteNetwork(n) ==
    /\ n \in Networks
    /\ \A p \in Ports : port[p].network # n
    /\ network' = [network EXCEPT ![n] = Gone]
    /\ flagged' = flagged \ {n}
    /\ UNCHANGED <<policy, port, filters, sighted, dangling>>

(***************************************************************************)
(* RBAC policies.                                                          *)
(***************************************************************************)

Wildcards(n) == {y \in Policies : policy[y].network = n /\ policy[y].target = Everyone}

\* A policy for all, of either action, sets the flag; the last to go takes it.
Shares(n, flag) ==
    /\ network' = IF n \in Networks THEN WithFlag(n, flag) ELSE network
    /\ flagged' = flagged \ {n}

\* Refused when there is a policy for the same network, target and action.
\* That the network exists is not looked at.
CreateRbacPolicy(y, n, t, a) ==
    /\ policy[y] = Absent
    /\ network[n] # Unborn
    /\ NewPolicy(n, t, a) \notin {policy[z] : z \in Policies}
    /\ policy' = [policy EXCEPT ![y] = NewPolicy(n, t, a)]
    /\ IF t = Everyone THEN Shares(n, TRUE) ELSE UNCHANGED <<network, flagged>>
    /\ UNCHANGED <<port, filters, sighted, dangling>>

\* Neither duplicates nor ports are looked at.
UpdateRbacPolicy(y, t) ==
    /\ y \in Policies
    /\ LET n == policy[y].network
       IN  /\ policy' = [policy EXCEPT ![y] = NewPolicy(n, t, @.action)]
           /\ IF t = Everyone THEN Shares(n, TRUE)
              ELSE IF Wildcards(n) = {y} THEN Shares(n, FALSE)
              ELSE UNCHANGED <<network, flagged>>
    /\ UNCHANGED <<port, filters, dangling>>
    /\ CutOff

\* Mutant: the flag goes with any policy for all.
DropPolicyAndFlag(y) ==
    LET n == policy[y].network
    IN  /\ policy' = [policy EXCEPT ![y] = Absent]
        /\ IF y \in Wildcards(n) THEN Shares(n, FALSE) ELSE UNCHANGED <<network, flagged>>

DropPolicy(y) ==
    LET n == policy[y].network
    IN  /\ policy' = [policy EXCEPT ![y] = Absent]
        /\ IF Wildcards(n) = {y} THEN Shares(n, FALSE) ELSE UNCHANGED <<network, flagged>>

\* Mutant: the ports looked for are those of the network's owner.
DependentsOfOwner(y) ==
    {p \in Ports : /\ port[p].network = policy[y].network
                  /\ port[p].owner = network[policy[y].network].owner}

Dependents(y) ==
    {p \in Ports : port[p].network = policy[y].network /\ port[p].owner = policy[y].target}

SharedWithOne(y) ==
    /\ policy[y].action = "access_as_shared"
    /\ policy[y].target # Everyone

\* Refused while the project that the network is shared with has ports on it.
\* Policies for all, and those that share it as external, are not.
DeleteSharedPolicy(y) ==
    /\ y \in Policies
    /\ SharedWithOne(y)
    /\ Dependents(y) = {}
    /\ DropPolicy(y)
    /\ UNCHANGED <<port, filters, sighted, dangling>>

DeleteOtherPolicy(y) ==
    /\ y \in Policies
    /\ ~SharedWithOne(y)
    /\ DropPolicy(y)
    /\ UNCHANGED <<port, filters, dangling>>
    /\ CutOff

(***************************************************************************)
(* Security groups and rules.                                              *)
(***************************************************************************)

AddGroup(g, o, d, rs) ==
    /\ group[g] = Unborn
    /\ rs \subseteq FreeRules /\ Cardinality(rs) = Defaults
    /\ group' = [group EXCEPT ![g] = NewGroup(o, d, rs)]
    /\ rule' = [r \in Rule |-> IF r \in rs THEN g ELSE rule[r]]

CreateSecurityGroup(g, o, d, rs) ==
    /\ AddGroup(g, o, d, rs)
    /\ UNCHANGED <<sharing, port, sighted, dangling>>

UpdateSecurityGroup(g, d) ==
    /\ g \in Groups
    /\ group' = [group EXCEPT ![g] = NewGroup(@.owner, d, @.rules)]
    /\ UNCHANGED <<sharing, rule, port, sighted, dangling>>

DefaultsOf(q) == {g \in Groups : group[g].owner = q /\ group[g].default}

\* Whoever lists a project's groups makes sure there is a default one.
GetOrCreateDefaultSecurityGroup(q, g, rs) ==
    /\ DefaultsOf(q) = {}
    /\ AddGroup(g, q, TRUE, rs)
    /\ UNCHANGED <<sharing, port, sighted, dangling>>

\* Mutant: the ports are not asked.
InUseNever(g) == FALSE

InUse(g) == \E p \in Ports : g \in port[p].groups

\* The administrator may delete a default group too.
DeleteSecurityGroup(g) ==
    /\ g \in Groups
    /\ ~InUse(g)
    /\ group' = [group EXCEPT ![g] = Gone]
    /\ rule' = [r \in Rule |-> IF r \in group[g].rules THEN NoGroup ELSE rule[r]]
    /\ UNCHANGED <<sharing, port, sighted, dangling>>

CreateSecurityGroupRule(r, g) ==
    /\ rule[r] = NoGroup
    /\ g \in Groups
    /\ rule' = [rule EXCEPT ![r] = g]
    /\ group' = [group EXCEPT ![g] = NewGroup(@.owner, @.default, @.rules \cup {r})]
    /\ UNCHANGED <<sharing, port, sighted, dangling>>

DeleteSecurityGroupRule(r) ==
    /\ rule[r] # NoGroup
    /\ rule' = [rule EXCEPT ![r] = NoGroup]
    /\ group' = [g \in Group |->
           IF g = rule[r] /\ g \in Groups
           THEN NewGroup(group[g].owner, group[g].default, group[g].rules \ {r}) ELSE group[g]]
    /\ UNCHANGED <<sharing, port, sighted, dangling>>

(***************************************************************************)
(* Ports.                                                                  *)
(***************************************************************************)

Marked(set, p, is) == IF is THEN set \cup {p} ELSE set \ {p}

\* Neutron looks neither at who sees the network nor at the groups it is given.
AddPort(p, n, o, gs) ==
    /\ port[p] = Absent
    /\ n \in Networks
    /\ port' = [port EXCEPT ![p] = NewPort(o, n, gs)]
    /\ sighted' = Marked(sighted, p, VisibleTo(n, o))

CreatePort(p, n, o, gs) ==
    /\ AddPort(p, n, o, gs)
    /\ dangling' = Marked(dangling, p, ~(gs \subseteq Groups))
    /\ UNCHANGED <<sharing, filters>>

\* A port that names no groups is put into its project's default one.
CreatePortInDefault(p, n, o, g, rs) ==
    /\ AddPort(p, n, o, {g})
    /\ \/ g \in DefaultsOf(o) /\ UNCHANGED filters
       \/ DefaultsOf(o) = {} /\ AddGroup(g, o, TRUE, rs)
    /\ UNCHANGED <<sharing, dangling>>

WithGroups(p, gs) == [port EXCEPT ![p] = NewPort(@.owner, @.network, gs)]

UpdatePort(p, gs) ==
    /\ p \in Ports
    /\ port' = WithGroups(p, gs)
    /\ dangling' = Marked(dangling, p, ~(gs \subseteq Groups))
    /\ UNCHANGED <<sharing, filters, sighted>>

\* The ports of a server, after Nova's addSecurityGroup or removeSecurityGroup; the
\* group is one of the server's project, whoever owns the ports.
WithGroup(ps, g) ==
    [p \in Port |-> IF p \in ps
                    THEN NewPort(port[p].owner, port[p].network, port[p].groups \cup {g}) ELSE port[p]]

WithoutGroup(ps, g) ==
    [p \in Port |-> IF p \in ps
                    THEN NewPort(port[p].owner, port[p].network, port[p].groups \ {g}) ELSE port[p]]

AddSecurityGroup(ps, g) ==
    /\ ps \subseteq Ports /\ g \in Groups
    /\ port' = WithGroup(ps, g)
    /\ UNCHANGED <<sharing, filters, sighted, dangling>>

RemoveSecurityGroup(ps, g) ==
    /\ ps \subseteq Ports /\ g \in Groups
    /\ \E p \in ps : g \in port[p].groups
    /\ port' = WithoutGroup(ps, g)
    /\ UNCHANGED <<sharing, filters, sighted, dangling>>

DeletePort(p) ==
    /\ p \in Ports
    /\ port' = [port EXCEPT ![p] = Absent]
    /\ sighted' = sighted \ {p}
    /\ dangling' = dangling \ {p}
    /\ UNCHANGED <<sharing, filters>>

(***************************************************************************)
(* The requests, by the routes of the API.                                 *)
(***************************************************************************)

NetworkRequests ==
    \E n \in Network :
        \/ \E o \in Project, s, e \in BOOLEAN : CreateNetwork(n, o, s, e)
        \/ \E s \in BOOLEAN : UpdateNetwork(n, s)
        \/ DeleteNetwork(n)

RbacPolicyRequests ==
    \E y \in Policy :
        \/ \E n \in Network, t \in Project \cup {Everyone}, a \in Action :
               CreateRbacPolicy(y, n, t, a)
        \/ \E t \in Project \cup {Everyone} : UpdateRbacPolicy(y, t)
        \/ DeleteSharedPolicy(y)
        \/ DeleteOtherPolicy(y)

SecurityGroupRequests ==
    \E g \in Group :
        \/ \E o \in Project, d \in BOOLEAN, rs \in SUBSET Rule : CreateSecurityGroup(g, o, d, rs)
        \/ \E q \in Project, rs \in SUBSET Rule : GetOrCreateDefaultSecurityGroup(q, g, rs)
        \/ \E d \in BOOLEAN : UpdateSecurityGroup(g, d)
        \/ DeleteSecurityGroup(g)

RuleRequests ==
    \E r \in Rule : DeleteSecurityGroupRule(r) \/ \E g \in Group : CreateSecurityGroupRule(r, g)

\* Ids that were given, of groups that may be gone.
Given == {g \in Group : group[g] # Unborn}

PortRequests ==
    \E p \in Port :
        \/ \E n \in Network, o \in Project :
               \/ \E gs \in SUBSET Given : CreatePort(p, n, o, gs)
               \/ \E g \in Group, rs \in SUBSET Rule : CreatePortInDefault(p, n, o, g, rs)
        \/ \E gs \in SUBSET Given : UpdatePort(p, gs)
        \/ DeletePort(p)

ServerActions ==
    \E ps \in SUBSET Port, g \in Group : AddSecurityGroup(ps, g) \/ RemoveSecurityGroup(ps, g)

Next ==
    \/ NetworkRequests
    \/ RbacPolicyRequests
    \/ SecurityGroupRequests
    \/ RuleRequests
    \/ PortRequests
    \/ ServerActions

Spec == Init /\ [][Next]_vars

(***************************************************************************)
(* Properties.                                                             *)
(***************************************************************************)

\* The stores hold what they are declared to hold.
TypeOK ==
    /\ network \in [Network -> NetworkRecord \cup {Unborn, Gone}]
    /\ policy \in [Policy -> PolicyRecord \cup {Absent}]
    /\ port \in [Port -> PortRecord \cup {Absent}]
    /\ group \in [Group -> GroupRecord \cup {Unborn, Gone}]
    /\ rule \in [Rule -> Group \cup {NoGroup}]
    /\ flagged \subseteq Networks
    /\ sighted \subseteq Ports
    /\ dangling \subseteq Ports

\* What the policies of a network say and what its `shared' flag says agree, in
\* whatever order policies for all come, go and change their target, unless a
\* client set the flag since (create_, update_ and delete_rbac_policy).
FlagFollowsPolicies ==
    \A n \in Networks \ flagged : network[n].shared <=> Wildcards(n) # {}

\* "Revoking the share while the target project still holds ports on the network
\* would strip access from resources that are using it" (delete_rbac_policy): a
\* project goes on seeing the network of its ports, which is there, unless it
\* was cut off by a PUT, or by the end of a policy for all or as external.
PortsKeepSight == \A p \in sighted : Sees(p)

\* A port names no group that is gone: groups are deleted by Neutron, put on
\* ports by Neutron, Nova and as default (delete_security_group).
GroupsOfPortsExist == \A p \in Ports \ dangling : port[p].groups \subseteq Groups

\* The rules a group lists are those that the store has of it, and no rule
\* outlives its group: a rule is found, and deleted, through either.
RulesBelong ==
    /\ \A g \in Groups : group[g].rules = {r \in Rule : rule[r] = g}
    /\ \A r \in Rule : rule[r] # NoGroup => rule[r] \in Groups
=============================================================================
