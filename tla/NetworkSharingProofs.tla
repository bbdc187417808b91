------------------------ MODULE NetworkSharingProofs ------------------------
(***************************************************************************)
(* Proofs about NetworkSharing: types, that the `shared' flag follows the  *)
(* policies, that a revocation spares who uses the share, that ports name  *)
(* groups that exist and that rules and groups belong together, for every  *)
(* number of projects, networks, policies, ports, groups and rules.        *)
(***************************************************************************)
EXTENDS NetworkSharing, TLAPS

\* Sharing and filtering share nothing but the ports, whose owner and network
\* the one looks at, and whose groups the other.
IInv ==
    /\ TypeOK
    /\ FlagFollowsPolicies
    /\ PortsKeepSight
    /\ GroupsOfPortsExist
    /\ RulesBelong

----------------------------------------------------------------------------
(* Records.                                                                *)

\* The records that the stores are given, field by field.
LEMMA NewNetworkFacts ==
    ASSUME NEW o \in Project, NEW s \in BOOLEAN, NEW e \in BOOLEAN
    PROVE  /\ NewNetwork(o, s, e) \in NetworkRecord
           /\ NewNetwork(o, s, e).owner = o
           /\ NewNetwork(o, s, e).shared = s
           /\ NewNetwork(o, s, e).external = e
BY DEF NewNetwork, NetworkRecord

\* A policy's.
LEMMA NewPolicyFacts ==
    ASSUME NEW n \in Network, NEW t \in Project \cup {Everyone}, NEW a \in Action
    PROVE  /\ NewPolicy(n, t, a) \in PolicyRecord
           /\ NewPolicy(n, t, a).network = n
           /\ NewPolicy(n, t, a).target = t
           /\ NewPolicy(n, t, a).action = a
BY DEF NewPolicy, PolicyRecord

\* A port's.
LEMMA NewPortFacts ==
    ASSUME NEW o \in Project, NEW n \in Network, NEW gs \in SUBSET Group
    PROVE  /\ NewPort(o, n, gs) \in PortRecord
           /\ NewPort(o, n, gs).owner = o
           /\ NewPort(o, n, gs).network = n
           /\ NewPort(o, n, gs).groups = gs
BY DEF NewPort, PortRecord

\* A group's.
LEMMA NewGroupFacts ==
    ASSUME NEW o \in Project, NEW d \in BOOLEAN, NEW rs \in SUBSET Rule
    PROVE  /\ NewGroup(o, d, rs) \in GroupRecord
           /\ NewGroup(o, d, rs).owner = o
           /\ NewGroup(o, d, rs).default = d
           /\ NewGroup(o, d, rs).rules = rs
BY DEF NewGroup, GroupRecord

\* What is there is a record, and what is no record is not there.
LEMMA Presence ==
    /\ \A x \in NetworkRecord \cup PolicyRecord \cup PortRecord \cup GroupRecord : IsThere(x)
    /\ ~IsThere(Unborn) /\ ~IsThere(Gone) /\ ~IsThere(Absent)
    /\ \A x \in NetworkRecord \cup {Unborn, Gone} : IsThere(x) => x \in NetworkRecord
    /\ \A x \in PolicyRecord \cup {Absent} : IsThere(x) => x \in PolicyRecord
    /\ \A x \in PortRecord \cup {Absent} : IsThere(x) => x \in PortRecord
    /\ \A x \in GroupRecord \cup {Unborn, Gone} : IsThere(x) => x \in GroupRecord
<1>1. \A x \in NetworkRecord \cup PolicyRecord \cup PortRecord \cup GroupRecord :
          x \notin {Unborn, Gone, Absent}
  BY RecordAssumption
<1> QED BY <1>1 DEF IsThere

\* The fields of what is there.
LEMMA Fields ==
    ASSUME TypeOK
    PROVE  /\ \A n \in Networks : /\ network[n] \in NetworkRecord
                                  /\ network[n].owner \in Project
                                  /\ network[n].shared \in BOOLEAN
                                  /\ network[n].external \in BOOLEAN
           /\ \A y \in Policies : /\ policy[y] \in PolicyRecord
                                  /\ policy[y].network \in Network
                                  /\ policy[y].target \in Project \cup {Everyone}
                                  /\ policy[y].action \in Action
           /\ \A p \in Ports : /\ port[p] \in PortRecord
                               /\ port[p].owner \in Project
                               /\ port[p].network \in Network
                               /\ port[p].groups \in SUBSET Group
           /\ \A g \in Groups : /\ group[g] \in GroupRecord
                                /\ group[g].owner \in Project
                                /\ group[g].default \in BOOLEAN
                                /\ group[g].rules \in SUBSET Rule
<1>1. \A n \in Networks : network[n] \in NetworkRecord
  BY Presence DEF TypeOK, Networks
<1>2. \A y \in Policies : policy[y] \in PolicyRecord
  BY Presence DEF TypeOK, Policies
<1>3. \A p \in Ports : port[p] \in PortRecord
  BY Presence DEF TypeOK, Ports
<1>4. \A g \in Groups : group[g] \in GroupRecord
  BY Presence DEF TypeOK, Groups
<1> QED BY <1>1, <1>2, <1>3, <1>4 DEF NetworkRecord, PolicyRecord, PortRecord, GroupRecord

----------------------------------------------------------------------------
(* Sharing: what the policies and the flag do.                             *)

\* The types of the sharing half after a step, from those of the records.
SharingTyped ==
    /\ network \in [Network -> NetworkRecord \cup {Unborn, Gone}]
    /\ policy \in [Policy -> PolicyRecord \cup {Absent}]
    /\ flagged \subseteq Networks

\* The policies for all of a network after one policy is written.
LEMMA WildcardsStep ==
    ASSUME TypeOK, NEW y \in Policy, NEW x \in PolicyRecord \cup {Absent},
           policy' = [policy EXCEPT ![y] = x]
    PROVE  /\ \A n \in Network :
                  Wildcards(n)' = IF IsThere(x) /\ x.network = n /\ x.target = Everyone
                                  THEN Wildcards(n) \cup {y} ELSE Wildcards(n) \ {y}
           /\ policy' \in [Policy -> PolicyRecord \cup {Absent}]
<1>1. policy \in [Policy -> PolicyRecord \cup {Absent}]
  BY DEF TypeOK
<1>2. \A z \in Policy : policy'[z] = IF z = y THEN x ELSE policy[z]
  BY <1>1
<1> QED BY <1>1, <1>2 DEF Wildcards, Policies

\* Setting the flag of a network.
LEMMA SharesFacts ==
    ASSUME TypeOK, NEW n \in Network, NEW s \in BOOLEAN, Shares(n, s)
    PROVE  /\ network' \in [Network -> NetworkRecord \cup {Unborn, Gone}]
           /\ flagged' = flagged \ {n}
           /\ Networks' = Networks
           /\ \A m \in Network : m # n => network'[m] = network[m]
           /\ n \in Networks => /\ network'[n].shared = s
                                /\ network'[n].owner = network[n].owner
                                /\ network'[n].external = network[n].external
           /\ n \notin Networks => network'[n] = network[n]
<1>1. network \in [Network -> NetworkRecord \cup {Unborn, Gone}]
  BY DEF TypeOK
<1>2. CASE n \in Networks
  <2> DEFINE r == NewNetwork(network[n].owner, s, network[n].external)
  <2>1. /\ r \in NetworkRecord /\ r.shared = s
        /\ r.owner = network[n].owner /\ r.external = network[n].external
    BY <1>2, Fields, NewNetworkFacts
  <2>2. network' = [network EXCEPT ![n] = r] /\ flagged' = flagged \ {n}
    BY <1>2 DEF Shares, WithFlag
  <2> HIDE DEF r
  <2>3. IsThere(r) /\ IsThere(network[n])
    BY <1>2, <2>1, Presence DEF Networks
  <2>4. Networks' = Networks
    BY <1>1, <2>2, <2>3 DEF Networks
  <2> QED BY <1>1, <1>2, <2>1, <2>2, <2>4
<1>3. CASE n \notin Networks
  BY <1>1, <1>3 DEF Shares, Networks
<1> QED BY <1>2, <1>3

\* The flag after a policy is written, whatever became of it: TRUE with the first
\* policy for all, FALSE with the last, untouched otherwise.
LEMMA PolicyStep ==
    ASSUME TypeOK, FlagFollowsPolicies, NEW y \in Policy, NEW n \in Network,
           NEW x \in PolicyRecord \cup {Absent},
           policy' = [policy EXCEPT ![y] = x],
           IsThere(x) => x.network = n,
           y \in Policies => policy[y].network = n,
           \/ IsThere(x) /\ x.target = Everyone /\ Shares(n, TRUE)
           \/ ~(IsThere(x) /\ x.target = Everyone) /\ Wildcards(n) = {y} /\ Shares(n, FALSE)
           \/ /\ ~(IsThere(x) /\ x.target = Everyone) /\ Wildcards(n) # {y}
              /\ UNCHANGED <<network, flagged>>
    PROVE  SharingTyped' /\ FlagFollowsPolicies' /\ Networks' = Networks
<1>1. policy' \in [Policy -> PolicyRecord \cup {Absent}]
  BY WildcardsStep
<1>2. \A m \in Network : Wildcards(m)' = IF IsThere(x) /\ m = n /\ x.target = Everyone
                                         THEN Wildcards(m) \cup {y} ELSE Wildcards(m) \ {y}
  BY WildcardsStep
<1>3. \A m \in Network : m # n => Wildcards(m)' = Wildcards(m)
  <2>1. \A m \in Network : m # n => y \notin Wildcards(m)
    BY DEF Wildcards
  <2> QED BY <1>2, <2>1
<1>4. flagged \subseteq Networks /\ Networks \subseteq Network
  BY DEF TypeOK, Networks
<1>5. ASSUME NEW s \in BOOLEAN, Shares(n, s), s <=> Wildcards(n)' # {}
      PROVE  SharingTyped' /\ FlagFollowsPolicies' /\ Networks' = Networks
  <2>1. /\ network' \in [Network -> NetworkRecord \cup {Unborn, Gone}]
        /\ flagged' = flagged \ {n} /\ Networks' = Networks
        /\ \A m \in Network : m # n => network'[m] = network[m]
        /\ n \in Networks => network'[n].shared = s
    BY <1>5, SharesFacts
  <2>2. \A m \in Networks \ (flagged \ {n}) : network'[m].shared <=> Wildcards(m)' # {}
    BY <1>3, <1>4, <1>5, <2>1 DEF FlagFollowsPolicies
  <2> QED BY <1>1, <1>4, <2>1, <2>2 DEF SharingTyped, FlagFollowsPolicies
<1>6. CASE IsThere(x) /\ x.target = Everyone /\ Shares(n, TRUE)
  BY <1>2, <1>5, <1>6
<1>7. CASE ~(IsThere(x) /\ x.target = Everyone) /\ Wildcards(n) = {y} /\ Shares(n, FALSE)
  BY <1>2, <1>5, <1>7
<1>8. CASE /\ ~(IsThere(x) /\ x.target = Everyone) /\ Wildcards(n) # {y}
           /\ UNCHANGED <<network, flagged>>
  <2>1. Networks' = Networks
    BY <1>8 DEF Networks
  <2>2. Wildcards(n)' # {} <=> Wildcards(n) # {}
    BY <1>2, <1>8
  <2>3. \A m \in Networks \ flagged : network'[m].shared <=> Wildcards(m)' # {}
    BY <1>3, <1>4, <1>8, <2>2 DEF FlagFollowsPolicies
  <2> QED BY <1>1, <1>4, <1>8, <2>1, <2>3 DEF SharingTyped, FlagFollowsPolicies, TypeOK
<1> QED BY <1>6, <1>7, <1>8

----------------------------------------------------------------------------
(* Sight.                                                                  *)

\* What a port's project sees stays, when neither networks nor policies change.
LEMMA SightKept ==
    ASSUME PortsKeepSight, UNCHANGED <<network, policy>>, sighted' \subseteq sighted,
           \A p \in sighted' : /\ port'[p].network = port[p].network
                               /\ port'[p].owner = port[p].owner
    PROVE  PortsKeepSight'
<1> SUFFICES ASSUME NEW p \in sighted' PROVE Sees(p)'
  BY DEF PortsKeepSight
<1>1. Sees(p)
  BY DEF PortsKeepSight
<1> QED BY <1>1 DEF Sees, VisibleTo, RbacTargets, Policies

\* And when a change takes from no network what those who see it see it by.
LEMMA SightSpared ==
    ASSUME PortsKeepSight, UNCHANGED <<port, sighted>>,
           \A p \in sighted : LET n == port[p].network  q == port[p].owner IN
               /\ IsThere(network'[n])
               /\ network'[n].owner = network[n].owner
               /\ network'[n].external = network[n].external
               /\ network[n].shared => network'[n].shared \/ RbacTargets(n, q)'
               /\ RbacTargets(n, q) => RbacTargets(n, q)' \/ network'[n].shared
    PROVE  PortsKeepSight'
<1> SUFFICES ASSUME NEW p \in sighted PROVE Sees(p)'
  BY DEF PortsKeepSight
<1>1. Sees(p)
  BY DEF PortsKeepSight
<1> QED BY <1>1 DEF Sees, VisibleTo

\* Whoever is cut off is counted out.
LEMMA SightCut ==
    ASSUME CutOff
    PROVE  PortsKeepSight' /\ sighted' \subseteq sighted
BY DEF CutOff, PortsKeepSight

\* The network of a port that sees it is there.
LEMMA SightedFacts ==
    ASSUME TypeOK, PortsKeepSight, NEW p \in sighted
    PROVE  /\ p \in Ports
           /\ port[p].network \in Networks
           /\ port[p].owner \in Project
<1>1. p \in Ports
  BY DEF TypeOK
<1> QED BY <1>1, Fields DEF PortsKeepSight, Sees, VisibleTo, Networks

----------------------------------------------------------------------------
(* Operations on networks and policies.  They leave the ports and groups   *)
(* alone, so that the rest of the invariant holds of itself.               *)

\* The half of the invariant that a change of networks and policies may disturb.
LEMMA SharingKeeps ==
    ASSUME IInv, UNCHANGED <<port, filters, dangling>>, SharingTyped',
           sighted' \subseteq sighted,
           FlagFollowsPolicies', PortsKeepSight'
    PROVE  IInv'
<1>1. TypeOK'
  BY DEF IInv, TypeOK, SharingTyped, filters, Ports, Networks
<1>2. GroupsOfPortsExist' /\ RulesBelong'
  BY DEF IInv, GroupsOfPortsExist, RulesBelong, filters, Ports, Groups
<1> QED BY <1>1, <1>2 DEF IInv

\* A network is created, with the flag its client asked for.
LEMMA CreateNetworkKeeps ==
    ASSUME IInv, NEW n \in Network, NEW o \in Project, NEW s \in BOOLEAN, NEW e \in BOOLEAN,
           CreateNetwork(n, o, s, e)
    PROVE  IInv'
<1> DEFINE r == NewNetwork(o, s, e)
<1>0. TypeOK /\ FlagFollowsPolicies /\ PortsKeepSight
  BY DEF IInv
<1>1. r \in NetworkRecord /\ IsThere(r)
  BY NewNetworkFacts, Presence
<1>2. /\ network[n] = Unborn /\ network' = [network EXCEPT ![n] = r]
      /\ flagged' = flagged \cup {n} /\ UNCHANGED <<policy, port, filters, sighted, dangling>>
  BY DEF CreateNetwork
<1> HIDE DEF r
<1>3. /\ network' \in [Network -> NetworkRecord \cup {Unborn, Gone}]
      /\ Networks' = Networks \cup {n}
      /\ \A m \in Network : m # n => network'[m] = network[m]
  BY <1>0, <1>1, <1>2 DEF TypeOK, Networks
<1>4. SharingTyped'
  BY <1>0, <1>2, <1>3 DEF TypeOK, SharingTyped
<1>5. FlagFollowsPolicies'
  BY <1>0, <1>2, <1>3 DEF FlagFollowsPolicies, Wildcards, Policies, Networks
<1>6. n \notin Networks
  BY <1>2, Presence DEF Networks
<1>7. \A p \in sighted : LET m == port[p].network IN
          IsThere(network'[m]) /\ network'[m] = network[m]
  BY <1>0, <1>3, <1>6, SightedFacts DEF Networks
<1>8. PortsKeepSight'
  <2>1. \A m, q : RbacTargets(m, q) <=> RbacTargets(m, q)'
    BY <1>2 DEF RbacTargets, Policies
  <2> QED BY <1>0, <1>2, <1>7, <2>1, SightSpared
<1> QED BY <1>2, <1>4, <1>5, <1>8, SharingKeeps

\* A client sets the flag.
LEMMA UpdateNetworkKeeps ==
    ASSUME IInv, NEW n \in Network, NEW s \in BOOLEAN, UpdateNetwork(n, s)
    PROVE  IInv'
<1> DEFINE r == NewNetwork(network[n].owner, s, network[n].external)
<1>0. TypeOK /\ FlagFollowsPolicies /\ n \in Networks
  BY DEF IInv, UpdateNetwork
<1>1. r \in NetworkRecord /\ IsThere(r)
  BY <1>0, NewNetworkFacts, Fields, Presence
<1>2. /\ network' = [network EXCEPT ![n] = r]
      /\ flagged' = flagged \cup {n} /\ UNCHANGED <<policy, port, filters, dangling>> /\ CutOff
  BY DEF UpdateNetwork, WithFlag
<1> HIDE DEF r
<1>3. /\ network' \in [Network -> NetworkRecord \cup {Unborn, Gone}]
      /\ Networks' = Networks
      /\ \A m \in Network : m # n => network'[m] = network[m]
  BY <1>0, <1>1, <1>2 DEF TypeOK, Networks
<1>4. SharingTyped'
  BY <1>0, <1>2, <1>3 DEF TypeOK, SharingTyped
<1>5. FlagFollowsPolicies'
  BY <1>0, <1>2, <1>3 DEF FlagFollowsPolicies, Wildcards, Policies, Networks
<1> QED BY <1>2, <1>4, <1>5, SightCut, SharingKeeps

\* A network goes when no port is left on it.
LEMMA DeleteNetworkKeeps ==
    ASSUME IInv, NEW n \in Network, DeleteNetwork(n)
    PROVE  IInv'
<1>0. TypeOK /\ FlagFollowsPolicies /\ PortsKeepSight
  BY DEF IInv
<1>1. /\ network' = [network EXCEPT ![n] = Gone] /\ flagged' = flagged \ {n}
      /\ UNCHANGED <<policy, port, filters, sighted, dangling>>
      /\ \A p \in Ports : port[p].network # n
  BY DEF DeleteNetwork
<1>2. /\ network' \in [Network -> NetworkRecord \cup {Unborn, Gone}]
      /\ Networks' = Networks \ {n}
      /\ \A m \in Network : m # n => network'[m] = network[m]
  BY <1>0, <1>1, Presence DEF TypeOK, Networks
<1>3. SharingTyped'
  BY <1>0, <1>1, <1>2 DEF TypeOK, SharingTyped
<1>4. FlagFollowsPolicies'
  BY <1>0, <1>1, <1>2 DEF FlagFollowsPolicies, Wildcards, Policies, Networks
<1>5. \A p \in sighted : LET m == port[p].network IN
          IsThere(network'[m]) /\ network'[m] = network[m]
  BY <1>0, <1>1, <1>2, SightedFacts DEF Networks
<1>6. PortsKeepSight'
  <2>1. \A m, q : RbacTargets(m, q) <=> RbacTargets(m, q)'
    BY <1>1 DEF RbacTargets, Policies
  <2> QED BY <1>0, <1>1, <1>5, <2>1, SightSpared
<1> QED BY <1>1, <1>3, <1>4, <1>6, SharingKeeps

\* A policy is created: it adds to what is seen and takes nothing.
LEMMA CreateRbacPolicyKeeps ==
    ASSUME IInv, NEW y \in Policy, NEW n \in Network, NEW t \in Project \cup {Everyone},
           NEW a \in Action, CreateRbacPolicy(y, n, t, a)
    PROVE  IInv'
<1> DEFINE x == NewPolicy(n, t, a)
<1>0. TypeOK /\ FlagFollowsPolicies /\ PortsKeepSight
  BY DEF IInv
<1>1. x \in PolicyRecord /\ IsThere(x) /\ x.network = n /\ x.target = t
  BY NewPolicyFacts, Presence
<1>2. /\ policy[y] = Absent /\ policy' = [policy EXCEPT ![y] = x]
      /\ IF t = Everyone THEN Shares(n, TRUE) ELSE UNCHANGED <<network, flagged>>
      /\ UNCHANGED <<port, filters, sighted, dangling>>
  BY DEF CreateRbacPolicy
<1> HIDE DEF x
<1>3. y \notin Policies /\ y \notin Wildcards(n)
  BY <1>2, Presence DEF Policies, Wildcards
<1>4. SharingTyped' /\ FlagFollowsPolicies' /\ Networks' = Networks
  BY <1>0, <1>1, <1>2, <1>3, PolicyStep
<1>5. \A m, q : RbacTargets(m, q) => RbacTargets(m, q)'
  BY <1>0, <1>2, <1>3 DEF RbacTargets, Policies, TypeOK
<1>6. \A m \in Networks : /\ network'[m].owner = network[m].owner
                          /\ network'[m].external = network[m].external
                          /\ network[m].shared => network'[m].shared
  BY <1>0, <1>2, SharesFacts DEF Networks
<1>7. PortsKeepSight'
  <2>1. \A p \in sighted : port[p].network \in Networks /\ IsThere(network'[port[p].network])
    BY <1>0, <1>4, SightedFacts DEF Networks
  <2> QED BY <1>0, <1>2, <1>5, <1>6, <2>1, SightSpared
<1> QED BY <1>2, <1>4, <1>7, SharingKeeps

\* A policy is retargeted: who loses by that is cut off on purpose.
LEMMA UpdateRbacPolicyKeeps ==
    ASSUME IInv, NEW y \in Policy, NEW t \in Project \cup {Everyone}, UpdateRbacPolicy(y, t)
    PROVE  IInv'
<1> DEFINE n == policy[y].network
           x == NewPolicy(n, t, policy[y].action)
<1>0. TypeOK /\ FlagFollowsPolicies /\ y \in Policies
  BY DEF IInv, UpdateRbacPolicy
<1>1. n \in Network /\ x \in PolicyRecord /\ IsThere(x) /\ x.network = n /\ x.target = t
  BY <1>0, Fields, NewPolicyFacts, Presence
<1>2. /\ policy' = [policy EXCEPT ![y] = x]
      /\ IF t = Everyone THEN Shares(n, TRUE)
         ELSE IF Wildcards(n) = {y} THEN Shares(n, FALSE)
         ELSE UNCHANGED <<network, flagged>>
      /\ UNCHANGED <<port, filters, dangling>> /\ CutOff
  BY DEF UpdateRbacPolicy
<1>3. y \in Policies => policy[y].network = n
  OBVIOUS
<1> HIDE DEF n, x
<1>4. SharingTyped' /\ FlagFollowsPolicies'
  BY <1>0, <1>1, <1>2, <1>3, PolicyStep
<1> QED BY <1>2, <1>4, SightCut, SharingKeeps

\* The flag when a policy goes.
LEMMA DropPolicyFacts ==
    ASSUME IInv, NEW y \in Policies, DropPolicy(y)
    PROVE  SharingTyped' /\ FlagFollowsPolicies' /\ Networks' = Networks
<1> DEFINE n == policy[y].network
<1>0. TypeOK /\ FlagFollowsPolicies /\ y \in Policy /\ n \in Network
  BY Fields DEF IInv, Policies
<1>1. /\ policy' = [policy EXCEPT ![y] = Absent]
      /\ IF Wildcards(n) = {y} THEN Shares(n, FALSE) ELSE UNCHANGED <<network, flagged>>
  BY DEF DropPolicy
<1>2. y \in Policies => policy[y].network = n
  OBVIOUS
<1>3. ~IsThere(Absent)
  BY Presence
<1> HIDE DEF n
<1> QED BY <1>0, <1>1, <1>2, <1>3, PolicyStep

\* A share with one project goes when that project has no port on the network: no
\* other project saw it by that policy.
LEMMA DeleteSharedPolicyKeeps ==
    ASSUME IInv, NEW y \in Policy, DeleteSharedPolicy(y)
    PROVE  IInv'
<1> DEFINE n == policy[y].network
<1>0. TypeOK /\ PortsKeepSight
  BY DEF IInv
<1>1. /\ y \in Policies /\ SharedWithOne(y) /\ Dependents(y) = {} /\ DropPolicy(y)
      /\ UNCHANGED <<port, filters, sighted, dangling>>
  BY DEF DeleteSharedPolicy
<1>2. SharingTyped' /\ FlagFollowsPolicies'
  BY <1>1, DropPolicyFacts
<1>3. y \notin Wildcards(n)
  BY <1>1 DEF SharedWithOne, Wildcards
<1>4. UNCHANGED <<network, flagged>> /\ policy' = [policy EXCEPT ![y] = Absent]
  BY <1>1, <1>3 DEF DropPolicy
<1>5. ASSUME NEW p \in sighted, RbacTargets(port[p].network, port[p].owner)
      PROVE  RbacTargets(port[p].network, port[p].owner)'
  <2>1. p \in Ports /\ port[p].owner \in Project
    BY <1>0, SightedFacts
  <2>2. ~(policy[y].network = port[p].network /\ policy[y].target \in {Everyone, port[p].owner})
    BY <1>1, <2>1 DEF SharedWithOne, Dependents
  <2>3. PICK z \in Policies : /\ policy[z].network = port[p].network
                              /\ policy[z].target \in {Everyone, port[p].owner}
    BY <1>5 DEF RbacTargets
  <2>4. z # y /\ z \in Policies' /\ policy'[z] = policy[z]
    BY <1>0, <1>4, <2>2, <2>3 DEF Policies, TypeOK
  <2> QED BY <1>1, <2>3, <2>4 DEF RbacTargets
<1>6. PortsKeepSight'
  <2>1. \A p \in sighted : IsThere(network[port[p].network])
    BY <1>0, SightedFacts DEF Networks
  <2> QED BY <1>0, <1>1, <1>4, <1>5, <2>1, SightSpared
<1> QED BY <1>1, <1>2, <1>6, SharingKeeps

\* Any other policy goes without a question.
LEMMA DeleteOtherPolicyKeeps ==
    ASSUME IInv, NEW y \in Policy, DeleteOtherPolicy(y)
    PROVE  IInv'
<1>1. SharingTyped' /\ FlagFollowsPolicies'
  BY DropPolicyFacts DEF DeleteOtherPolicy
<1> QED BY <1>1, SightCut, SharingKeeps DEF DeleteOtherPolicy

----------------------------------------------------------------------------
(* Operations on groups, rules and ports.                                  *)

\* The half of the invariant that they may disturb.
PortsTyped ==
    /\ port \in [Port -> PortRecord \cup {Absent}]
    /\ sighted \subseteq Ports
    /\ dangling \subseteq Ports

FiltersTyped ==
    /\ group \in [Group -> GroupRecord \cup {Unborn, Gone}]
    /\ rule \in [Rule -> Group \cup {NoGroup}]

\* What that half is enough for.
LEMMA FilteringKeeps ==
    ASSUME IInv, UNCHANGED sharing, PortsTyped', FiltersTyped',
           PortsKeepSight', GroupsOfPortsExist', RulesBelong'
    PROVE  IInv'
<1>1. TypeOK'
  BY DEF IInv, TypeOK, sharing, PortsTyped, FiltersTyped, Networks
<1>2. FlagFollowsPolicies'
  BY DEF IInv, FlagFollowsPolicies, sharing, Wildcards, Policies, Networks
<1> QED BY <1>1, <1>2 DEF IInv

\* Ports as they are.
LEMMA PortsLeft ==
    ASSUME IInv, UNCHANGED <<sharing, port, sighted, dangling>>
    PROVE  PortsTyped' /\ PortsKeepSight'
<1>1. PortsKeepSight'
  BY SightKept DEF IInv, sharing
<1> QED BY <1>1 DEF IInv, TypeOK, PortsTyped, Ports

\* Groups and rules as they are.
LEMMA FiltersLeft ==
    ASSUME IInv, UNCHANGED filters
    PROVE  FiltersTyped' /\ RulesBelong' /\ Groups' = Groups
BY DEF IInv, TypeOK, filters, FiltersTyped, RulesBelong, Groups

\* No group is lost: the ports name what they named.
LEMMA GroupsGrow ==
    ASSUME GroupsOfPortsExist, UNCHANGED <<port, dangling>>, Groups \subseteq Groups'
    PROVE  GroupsOfPortsExist'
BY DEF GroupsOfPortsExist, Ports

\* A new group comes with rules that no other group has.
LEMMA AddGroupFacts ==
    ASSUME IInv, NEW g \in Group, NEW o \in Project, NEW d \in BOOLEAN,
           NEW rs \in SUBSET Rule, AddGroup(g, o, d, rs)
    PROVE  FiltersTyped' /\ RulesBelong' /\ Groups' = Groups \cup {g}
<1> DEFINE x == NewGroup(o, d, rs)
<1>0. TypeOK /\ RulesBelong
  BY DEF IInv
<1>1. x \in GroupRecord /\ IsThere(x) /\ x.rules = rs
  BY NewGroupFacts, Presence
<1>2. /\ group[g] = Unborn /\ rs \subseteq FreeRules /\ group' = [group EXCEPT ![g] = x]
      /\ rule' = [r \in Rule |-> IF r \in rs THEN g ELSE rule[r]]
  BY DEF AddGroup
<1> HIDE DEF x
<1>3. FiltersTyped'
  BY <1>0, <1>1, <1>2 DEF TypeOK, FiltersTyped
<1>4. g \notin Groups
  BY <1>2, Presence DEF Groups
<1>5. Groups' = Groups \cup {g} /\ \A h \in Group : h # g => group'[h] = group[h]
  BY <1>0, <1>1, <1>2 DEF TypeOK, Groups
<1>6. \A r \in Rule : rule[r] # g /\ (r \in rs => rule[r] = NoGroup)
  BY <1>0, <1>2, <1>4, NetworkSharingAssumption DEF RulesBelong, FreeRules
<1>7. group'[g].rules = {r \in Rule : rule'[r] = g}
  BY <1>0, <1>1, <1>2, <1>6 DEF TypeOK
<1>8. \A h \in Groups : group'[h].rules = {r \in Rule : rule'[r] = h}
  <2> SUFFICES ASSUME NEW h \in Groups PROVE group'[h].rules = {r \in Rule : rule'[r] = h}
    OBVIOUS
  <2>1. h # g /\ h \in Group /\ h # NoGroup
    BY <1>4, NetworkSharingAssumption DEF Groups
  <2>2. \A r \in Rule : rule'[r] = h <=> rule[r] = h
    BY <1>2, <1>6, <2>1
  <2>3. group'[h].rules = {r \in Rule : rule[r] = h}
    BY <1>0, <1>5, <2>1 DEF RulesBelong
  <2> QED BY <2>2, <2>3
<1>9. \A r \in Rule : rule'[r] # NoGroup => rule'[r] \in Groups'
  BY <1>0, <1>2, <1>5 DEF RulesBelong
<1> QED BY <1>3, <1>5, <1>7, <1>8, <1>9 DEF RulesBelong

\* A group is created, by name or because somebody looked.
LEMMA NewGroupsKeep ==
    ASSUME IInv, NEW g \in Group, NEW o \in Project, NEW d \in BOOLEAN,
           NEW rs \in SUBSET Rule, AddGroup(g, o, d, rs),
           UNCHANGED <<sharing, port, sighted, dangling>>
    PROVE  IInv'
<1>1. FiltersTyped' /\ RulesBelong' /\ Groups \subseteq Groups'
  BY AddGroupFacts
<1>2. GroupsOfPortsExist'
  BY <1>1, GroupsGrow DEF IInv
<1> QED BY <1>1, <1>2, PortsLeft, FilteringKeeps

\* A group's record changes, and perhaps a rule that nobody has or it alone.
LEMMA GroupWritten ==
    ASSUME IInv, NEW g \in Groups, NEW x \in GroupRecord,
           group' = [group EXCEPT ![g] = x],
           rule' \in [Rule -> Group \cup {NoGroup}],
           \A r \in Rule : rule'[r] = rule[r] \/ {rule[r], rule'[r]} \subseteq {g, NoGroup},
           x.rules = {r \in Rule : rule'[r] = g},
           UNCHANGED <<sharing, port, sighted, dangling>>
    PROVE  IInv'
<1>0. TypeOK /\ RulesBelong /\ g \in Group /\ IsThere(x)
  BY Presence DEF IInv, Groups
<1>1. FiltersTyped'
  BY <1>0 DEF TypeOK, FiltersTyped
<1>2. Groups' = Groups /\ (\A h \in Group : h # g => group'[h] = group[h]) /\ group'[g] = x
  BY <1>0 DEF TypeOK, Groups
<1>3. ASSUME NEW h \in Groups PROVE group'[h].rules = {r \in Rule : rule'[r] = h}
  <2>1. CASE h = g
    BY <1>2, <2>1
  <2>2. CASE h # g
    <3>1. h \in Group /\ h # NoGroup
      BY NetworkSharingAssumption DEF Groups
    <3>2. \A r \in Rule : rule'[r] = h <=> rule[r] = h
      BY <2>2, <3>1
    <3>3. group'[h].rules = {r \in Rule : rule[r] = h}
      BY <1>0, <1>2, <2>2, <3>1 DEF RulesBelong
    <3> QED BY <3>2, <3>3
  <2> QED BY <2>1, <2>2
<1>4. \A r \in Rule : rule'[r] # NoGroup => rule'[r] \in Groups
  BY <1>0 DEF RulesBelong
<1>5. RulesBelong'
  BY <1>2, <1>3, <1>4 DEF RulesBelong
<1>6. GroupsOfPortsExist'
  BY <1>2, GroupsGrow DEF IInv
<1> QED BY <1>1, <1>5, <1>6, PortsLeft, FilteringKeeps

\* A group is renamed, as it were.
LEMMA UpdateSecurityGroupKeeps ==
    ASSUME IInv, NEW g \in Group, NEW d \in BOOLEAN, UpdateSecurityGroup(g, d)
    PROVE  IInv'
<1> DEFINE x == NewGroup(group[g].owner, d, group[g].rules)
<1>0. g \in Groups /\ TypeOK /\ RulesBelong
  BY DEF IInv, UpdateSecurityGroup
<1>1. x \in GroupRecord /\ x.rules = group[g].rules
  BY <1>0, Fields, NewGroupFacts
<1>2. /\ group' = [group EXCEPT ![g] = x] /\ rule' = rule
      /\ UNCHANGED <<sharing, port, sighted, dangling>>
  BY DEF UpdateSecurityGroup
<1> HIDE DEF x
<1>3. x.rules = {r \in Rule : rule'[r] = g} /\ rule' \in [Rule -> Group \cup {NoGroup}]
  BY <1>0, <1>1, <1>2 DEF RulesBelong, TypeOK
<1> QED BY <1>0, <1>1, <1>2, <1>3, GroupWritten

\* A rule is made.
LEMMA CreateSecurityGroupRuleKeeps ==
    ASSUME IInv, NEW r \in Rule, NEW g \in Group, CreateSecurityGroupRule(r, g)
    PROVE  IInv'
<1> DEFINE x == NewGroup(group[g].owner, group[g].default, group[g].rules \cup {r})
<1>0. g \in Groups /\ TypeOK /\ RulesBelong /\ rule[r] = NoGroup
  BY DEF IInv, CreateSecurityGroupRule
<1>1. x \in GroupRecord /\ x.rules = group[g].rules \cup {r}
  BY <1>0, Fields, NewGroupFacts
<1>2. /\ group' = [group EXCEPT ![g] = x] /\ rule' = [rule EXCEPT ![r] = g]
      /\ UNCHANGED <<sharing, port, sighted, dangling>>
  BY DEF CreateSecurityGroupRule
<1> HIDE DEF x
<1>3. rule' \in [Rule -> Group \cup {NoGroup}] /\ \A q \in Rule : q # r => rule'[q] = rule[q]
  BY <1>0, <1>2 DEF TypeOK
<1>4. rule'[r] = g
  BY <1>0, <1>2 DEF TypeOK
<1>5. x.rules = {q \in Rule : rule'[q] = g}
  BY <1>0, <1>1, <1>3, <1>4 DEF RulesBelong
<1> QED BY <1>0, <1>1, <1>2, <1>3, <1>4, <1>5, GroupWritten

\* A rule is deleted, and its group's list is short of it.
LEMMA DeleteSecurityGroupRuleKeeps ==
    ASSUME IInv, NEW r \in Rule, DeleteSecurityGroupRule(r)
    PROVE  IInv'
<1> DEFINE g == rule[r]
           x == NewGroup(group[g].owner, group[g].default, group[g].rules \ {r})
<1>0. TypeOK /\ RulesBelong /\ g \in Groups /\ g \in Group
  BY DEF IInv, DeleteSecurityGroupRule, RulesBelong, Groups
<1>1. x \in GroupRecord /\ x.rules = group[g].rules \ {r}
  BY <1>0, Fields, NewGroupFacts
<1>2. /\ group' = [group EXCEPT ![g] = x] /\ rule' = [rule EXCEPT ![r] = NoGroup]
      /\ UNCHANGED <<sharing, port, sighted, dangling>>
  BY <1>0 DEF DeleteSecurityGroupRule, TypeOK
<1>3. rule[r] = g
  OBVIOUS
<1> HIDE DEF g, x
<1>4. rule' \in [Rule -> Group \cup {NoGroup}] /\ \A q \in Rule : q # r => rule'[q] = rule[q]
  BY <1>0, <1>2 DEF TypeOK
<1>5. rule'[r] = NoGroup /\ g # NoGroup
  BY <1>0, <1>2, NetworkSharingAssumption DEF TypeOK
<1>6. x.rules = {q \in Rule : rule'[q] = g}
  BY <1>0, <1>1, <1>4, <1>5 DEF RulesBelong
<1> QED BY <1>0, <1>1, <1>2, <1>3, <1>4, <1>5, <1>6, GroupWritten

\* A group goes that no port names, and its rules with it.
LEMMA DeleteSecurityGroupKeeps ==
    ASSUME IInv, NEW g \in Group, DeleteSecurityGroup(g)
    PROVE  IInv'
<1>0. TypeOK /\ RulesBelong /\ GroupsOfPortsExist
  BY DEF IInv
<1>1. /\ g \in Groups /\ ~InUse(g) /\ group' = [group EXCEPT ![g] = Gone]
      /\ rule' = [r \in Rule |-> IF r \in group[g].rules THEN NoGroup ELSE rule[r]]
      /\ UNCHANGED <<sharing, port, sighted, dangling>>
  BY DEF DeleteSecurityGroup
<1>2. FiltersTyped'
  BY <1>0, <1>1 DEF TypeOK, FiltersTyped
<1>3. Groups' = Groups \ {g} /\ \A h \in Group : h # g => group'[h] = group[h]
  BY <1>0, <1>1, Presence DEF TypeOK, Groups
<1>4. \A r \in Rule : r \in group[g].rules <=> rule[r] = g
  BY <1>0, <1>1 DEF RulesBelong
<1>5. ASSUME NEW h \in Groups, h # g PROVE group'[h].rules = {r \in Rule : rule'[r] = h}
  <2>1. h \in Group /\ h # NoGroup
    BY NetworkSharingAssumption DEF Groups
  <2>2. \A r \in Rule : rule'[r] = h <=> rule[r] = h
    BY <1>1, <1>4, <1>5, <2>1
  <2>3. group'[h].rules = {r \in Rule : rule[r] = h}
    BY <1>0, <1>3, <1>5, <2>1 DEF RulesBelong
  <2> QED BY <2>2, <2>3
<1>6. RulesBelong'
  <2>1. \A r \in Rule : rule'[r] # NoGroup => rule'[r] \in Groups'
    BY <1>0, <1>1, <1>3, <1>4 DEF RulesBelong
  <2> QED BY <1>3, <1>5, <2>1 DEF RulesBelong
<1>7. GroupsOfPortsExist'
  BY <1>0, <1>1, <1>3 DEF GroupsOfPortsExist, InUse, Ports
<1> QED BY <1>1, <1>2, <1>6, <1>7, PortsLeft, FilteringKeeps

\* What a network shows, while neither networks nor policies change.
LEMMA VisibleKept ==
    ASSUME UNCHANGED sharing, NEW n, NEW q
    PROVE  VisibleTo(n, q)' <=> VisibleTo(n, q)
BY DEF VisibleTo, RbacTargets, Policies, sharing

\* A port is added, and whether its project sees its network is written down.
LEMMA AddPortFacts ==
    ASSUME IInv, NEW p \in Port, NEW n \in Network, NEW o \in Project,
           NEW gs \in SUBSET Group, AddPort(p, n, o, gs), UNCHANGED sharing,
           dangling' = dangling \/ dangling' = Marked(dangling, p, ~(gs \subseteq Groups))
    PROVE  /\ PortsTyped' /\ PortsKeepSight'
           /\ Ports' = Ports \cup {p} /\ p \notin Ports /\ p \notin dangling
           /\ port'[p].groups = gs
           /\ \A q \in Port : q # p => port'[q] = port[q]
<1> DEFINE x == NewPort(o, n, gs)
<1>0. TypeOK /\ PortsKeepSight
  BY DEF IInv
<1>1. /\ x \in PortRecord /\ IsThere(x)
      /\ x.owner = o /\ x.network = n /\ x.groups = gs
  BY NewPortFacts, Presence
<1>2. /\ port[p] = Absent /\ port' = [port EXCEPT ![p] = x]
      /\ sighted' = Marked(sighted, p, VisibleTo(n, o))
  BY DEF AddPort
<1> HIDE DEF x
<1>3. p \notin Ports /\ p \notin dangling /\ p \notin sighted
  BY <1>0, <1>2, Presence DEF Ports, TypeOK
<1>4. /\ port' \in [Port -> PortRecord \cup {Absent}] /\ port'[p] = x
      /\ Ports' = Ports \cup {p} /\ \A q \in Port : q # p => port'[q] = port[q]
  BY <1>0, <1>1, <1>2 DEF TypeOK, Ports
<1>5. PortsTyped'
  BY <1>0, <1>2, <1>4 DEF TypeOK, PortsTyped, Marked
<1>6. ASSUME NEW q \in sighted' PROVE Sees(q)'
  <2>1. CASE q = p
    <3>1. VisibleTo(n, o)
      BY <1>2, <1>3, <1>6, <2>1 DEF Marked
    <3>2. VisibleTo(n, o)'
      BY <3>1, VisibleKept
    <3> QED BY <1>1, <1>4, <2>1, <3>2 DEF Sees
  <2>2. CASE q # p
    <3>1. q \in sighted /\ q \in Port
      BY <1>0, <1>2, <1>6, <2>2 DEF Marked, TypeOK, Ports
    <3>2. VisibleTo(port[q].network, port[q].owner)
      BY <1>0, <3>1 DEF PortsKeepSight, Sees
    <3>3. VisibleTo(port[q].network, port[q].owner)'
      BY <1>4, <2>2, <3>1, <3>2 DEF VisibleTo, RbacTargets, Policies, sharing
    <3> QED BY <3>3 DEF Sees
  <2> QED BY <2>1, <2>2
<1>7. PortsKeepSight'
  BY <1>6 DEF PortsKeepSight
<1> QED BY <1>1, <1>3, <1>4, <1>5, <1>7

\* A port is created with the groups its client names.
LEMMA CreatePortKeeps ==
    ASSUME IInv, NEW p \in Port, NEW n \in Network, NEW o \in Project,
           NEW gs \in SUBSET Group, CreatePort(p, n, o, gs)
    PROVE  IInv'
<1>1. /\ AddPort(p, n, o, gs) /\ UNCHANGED sharing /\ UNCHANGED filters
      /\ dangling' = Marked(dangling, p, ~(gs \subseteq Groups))
  BY DEF CreatePort
<1>2. FiltersTyped' /\ RulesBelong' /\ Groups' = Groups
  BY <1>1, FiltersLeft
<1>3. /\ PortsTyped' /\ PortsKeepSight' /\ Ports' = Ports \cup {p}
      /\ port'[p].groups = gs /\ \A q \in Port : q # p => port'[q] = port[q]
  BY <1>1, AddPortFacts
<1>4. GroupsOfPortsExist'
  BY <1>1, <1>2, <1>3 DEF IInv, GroupsOfPortsExist, Marked, Ports
<1> QED BY <1>1, <1>2, <1>3, <1>4, FilteringKeeps

\* A port is created with none, and gets its project's default group.
LEMMA CreatePortInDefaultKeeps ==
    ASSUME IInv, NEW p \in Port, NEW n \in Network, NEW o \in Project,
           NEW g \in Group, NEW rs \in SUBSET Rule, CreatePortInDefault(p, n, o, g, rs)
    PROVE  IInv'
<1>1. /\ AddPort(p, n, o, {g}) /\ UNCHANGED sharing /\ dangling' = dangling
      /\ \/ g \in DefaultsOf(o) /\ UNCHANGED filters
         \/ AddGroup(g, o, TRUE, rs)
  BY DEF CreatePortInDefault
<1>2. FiltersTyped' /\ RulesBelong' /\ Groups \subseteq Groups' /\ g \in Groups'
  BY <1>1, FiltersLeft, AddGroupFacts DEF DefaultsOf
<1>3. /\ PortsTyped' /\ PortsKeepSight' /\ Ports' = Ports \cup {p}
      /\ port'[p].groups = {g} /\ \A q \in Port : q # p => port'[q] = port[q]
  BY <1>1, AddPortFacts
<1>4. GroupsOfPortsExist'
  BY <1>1, <1>2, <1>3 DEF IInv, GroupsOfPortsExist, Ports
<1> QED BY <1>1, <1>2, <1>3, <1>4, FilteringKeeps

\* Ports are given other groups, and stay where they are.
LEMMA GroupsWritten ==
    ASSUME IInv, UNCHANGED <<sharing, filters, sighted>>,
           port' \in [Port -> PortRecord \cup {Absent}], Ports' = Ports,
           \A p \in Ports : /\ port'[p].owner = port[p].owner
                            /\ port'[p].network = port[p].network,
           dangling' \subseteq Ports,
           \A p \in Ports \ dangling' : port'[p].groups \subseteq Groups
    PROVE  IInv'
<1>1. FiltersTyped' /\ RulesBelong' /\ Groups' = Groups
  BY FiltersLeft
<1>2. PortsTyped'
  BY DEF IInv, TypeOK, PortsTyped
<1>3. PortsKeepSight'
  BY SightKept DEF IInv, TypeOK, sharing
<1>4. GroupsOfPortsExist'
  BY <1>1 DEF GroupsOfPortsExist
<1> QED BY <1>1, <1>2, <1>3, <1>4, FilteringKeeps

\* A client gives a port other groups.
LEMMA UpdatePortKeeps ==
    ASSUME IInv, NEW p \in Port, NEW gs \in SUBSET Group, UpdatePort(p, gs)
    PROVE  IInv'
<1> DEFINE x == NewPort(port[p].owner, port[p].network, gs)
<1>0. TypeOK /\ GroupsOfPortsExist /\ p \in Ports
  BY DEF IInv, UpdatePort
<1>1. /\ x \in PortRecord /\ IsThere(x) /\ x.owner = port[p].owner
      /\ x.network = port[p].network /\ x.groups = gs
  BY <1>0, Fields, NewPortFacts, Presence
<1>2. /\ port' = [port EXCEPT ![p] = x]
      /\ dangling' = Marked(dangling, p, ~(gs \subseteq Groups))
      /\ UNCHANGED <<sharing, filters, sighted>>
  BY DEF UpdatePort, WithGroups
<1> HIDE DEF x
<1>3. /\ port' \in [Port -> PortRecord \cup {Absent}] /\ port'[p] = x /\ Ports' = Ports
      /\ \A q \in Port : q # p => port'[q] = port[q]
  BY <1>0, <1>1, <1>2 DEF TypeOK, Ports
<1>4. dangling' \subseteq Ports
  BY <1>0, <1>2 DEF TypeOK, Marked
<1>5. \A q \in Ports \ dangling' : port'[q].groups \subseteq Groups
  BY <1>0, <1>1, <1>2, <1>3 DEF GroupsOfPortsExist, Marked, Ports
<1>6. \A q \in Ports : port'[q].owner = port[q].owner /\ port'[q].network = port[q].network
  BY <1>1, <1>3 DEF Ports
<1> QED BY <1>2, <1>3, <1>4, <1>5, <1>6, GroupsWritten

\* Nova puts the ports of a server into a group, or takes them out.
LEMMA ServerActionsKeep ==
    ASSUME IInv, NEW ps \in SUBSET Port, NEW g \in Group,
           AddSecurityGroup(ps, g) \/ RemoveSecurityGroup(ps, g)
    PROVE  IInv'
<1>0. TypeOK /\ GroupsOfPortsExist /\ ps \subseteq Ports /\ g \in Groups
  BY DEF IInv, AddSecurityGroup, RemoveSecurityGroup
<1>1. PICK to : /\ to \in [Port -> SUBSET Group]
                /\ \A p \in Ports : to[p] \subseteq port[p].groups \cup {g}
                /\ port' = [p \in Port |-> IF p \in ps
                              THEN NewPort(port[p].owner, port[p].network, to[p])
                              ELSE port[p]]
  <2>1. CASE AddSecurityGroup(ps, g)
    <3> DEFINE t == [p \in Port |-> IF p \in Ports THEN port[p].groups \cup {g} ELSE {}]
    <3>1. t \in [Port -> SUBSET Group] /\ \A p \in Ports : t[p] = port[p].groups \cup {g}
      BY <1>0, Fields DEF Ports
    <3>2. port' = [p \in Port |-> IF p \in ps
                     THEN NewPort(port[p].owner, port[p].network, t[p]) ELSE port[p]]
      BY <1>0, <2>1, <3>1 DEF AddSecurityGroup, WithGroup
    <3> HIDE DEF t
    <3> QED BY <3>1, <3>2
  <2>2. CASE RemoveSecurityGroup(ps, g)
    <3> DEFINE t == [p \in Port |-> IF p \in Ports THEN port[p].groups \ {g} ELSE {}]
    <3>1. t \in [Port -> SUBSET Group] /\ \A p \in Ports : t[p] = port[p].groups \ {g}
      BY <1>0, Fields DEF Ports
    <3>2. port' = [p \in Port |-> IF p \in ps
                     THEN NewPort(port[p].owner, port[p].network, t[p]) ELSE port[p]]
      BY <1>0, <2>2, <3>1 DEF RemoveSecurityGroup, WithoutGroup
    <3> HIDE DEF t
    <3> QED BY <3>1, <3>2
  <2> QED BY <2>1, <2>2
<1>2. UNCHANGED <<sharing, filters, sighted, dangling>>
  BY DEF AddSecurityGroup, RemoveSecurityGroup
<1>3. ASSUME NEW p \in ps
      PROVE  /\ port'[p] \in PortRecord /\ IsThere(port'[p])
             /\ port'[p].owner = port[p].owner /\ port'[p].network = port[p].network
             /\ port'[p].groups = to[p]
  <2>1. p \in Ports /\ p \in Port
    BY <1>0
  <2>2. port'[p] = NewPort(port[p].owner, port[p].network, to[p])
    BY <1>1, <2>1
  <2> QED BY <1>0, <1>1, <2>1, <2>2, Fields, NewPortFacts, Presence
<1>4. \A p \in Port \ ps : port'[p] = port[p]
  BY <1>1
<1>5. port' \in [Port -> PortRecord \cup {Absent}]
  <2>1. \A p \in Port : port'[p] \in PortRecord \cup {Absent}
    BY <1>0, <1>3, <1>4 DEF TypeOK
  <2> QED BY <1>1, <2>1
<1>6. Ports' = Ports
  BY <1>0, <1>3, <1>4 DEF Ports
<1>7. dangling' \subseteq Ports
  BY <1>0, <1>2 DEF TypeOK
<1>8. \A p \in Ports \ dangling' : port'[p].groups \subseteq Groups
  BY <1>0, <1>1, <1>2, <1>3, <1>4 DEF GroupsOfPortsExist, Ports
<1>9. \A p \in Ports : port'[p].owner = port[p].owner /\ port'[p].network = port[p].network
  BY <1>3, <1>4 DEF Ports
<1> QED BY <1>2, <1>5, <1>6, <1>7, <1>8, <1>9, GroupsWritten

\* A port goes.
LEMMA DeletePortKeeps ==
    ASSUME IInv, NEW p \in Port, DeletePort(p)
    PROVE  IInv'
<1>0. TypeOK /\ GroupsOfPortsExist /\ PortsKeepSight
  BY DEF IInv
<1>1. /\ port' = [port EXCEPT ![p] = Absent] /\ sighted' = sighted \ {p}
      /\ dangling' = dangling \ {p} /\ UNCHANGED <<sharing, filters>>
  BY DEF DeletePort
<1>2. /\ port' \in [Port -> PortRecord \cup {Absent}] /\ Ports' = Ports \ {p}
      /\ \A q \in Port : q # p => port'[q] = port[q]
  BY <1>0, <1>1, Presence DEF TypeOK, Ports
<1>3. PortsTyped'
  BY <1>0, <1>1, <1>2 DEF TypeOK, PortsTyped
<1>4. FiltersTyped' /\ RulesBelong' /\ Groups' = Groups
  BY <1>1, FiltersLeft
<1>5. PortsKeepSight'
  BY <1>0, <1>1, <1>2, SightKept DEF TypeOK, Ports, sharing
<1>6. GroupsOfPortsExist'
  BY <1>0, <1>1, <1>2, <1>4 DEF GroupsOfPortsExist, Ports
<1> QED BY <1>1, <1>3, <1>4, <1>5, <1>6, FilteringKeeps

----------------------------------------------------------------------------
(* The invariant holds of the specification.                               *)

\* Nothing is there.
LEMMA InitInv == Init => IInv
<1> SUFFICES ASSUME Init PROVE IInv
  OBVIOUS
<1>1. Networks = {} /\ Policies = {} /\ Ports = {} /\ Groups = {}
  BY Presence DEF Init, Networks, Policies, Ports, Groups
<1>2. TypeOK
  BY DEF Init, TypeOK
<1>3. FlagFollowsPolicies /\ PortsKeepSight /\ GroupsOfPortsExist
  BY <1>1 DEF Init, FlagFollowsPolicies, PortsKeepSight, GroupsOfPortsExist
<1>4. RulesBelong
  BY <1>1 DEF Init, RulesBelong
<1> QED BY <1>2, <1>3, <1>4 DEF IInv

\* A step keeps it: one line per route.
LEMMA NextInv == IInv /\ [Next]_vars => IInv'
<1> SUFFICES ASSUME IInv, [Next]_vars PROVE IInv'
  OBVIOUS
<1>1. CASE NetworkRequests
  BY <1>1, CreateNetworkKeeps, UpdateNetworkKeeps, DeleteNetworkKeeps DEF NetworkRequests
<1>2. CASE RbacPolicyRequests
  BY <1>2, CreateRbacPolicyKeeps, UpdateRbacPolicyKeeps, DeleteSharedPolicyKeeps,
     DeleteOtherPolicyKeeps DEF RbacPolicyRequests
<1>3. CASE SecurityGroupRequests
  <2>1. ASSUME NEW g \in Group, NEW o \in Project, NEW d \in BOOLEAN, NEW rs \in SUBSET Rule,
               CreateSecurityGroup(g, o, d, rs)
        PROVE  IInv'
    BY <2>1, NewGroupsKeep DEF CreateSecurityGroup
  <2>2. ASSUME NEW g \in Group, NEW q \in Project, NEW rs \in SUBSET Rule,
               GetOrCreateDefaultSecurityGroup(q, g, rs)
        PROVE  IInv'
    BY <2>2, NewGroupsKeep DEF GetOrCreateDefaultSecurityGroup
  <2> QED BY <1>3, <2>1, <2>2, UpdateSecurityGroupKeeps, DeleteSecurityGroupKeeps
          DEF SecurityGroupRequests
<1>4. CASE RuleRequests
  BY <1>4, DeleteSecurityGroupRuleKeeps, CreateSecurityGroupRuleKeeps DEF RuleRequests
<1>5. CASE PortRequests
  <2>1. Given \subseteq Group
    BY DEF Given
  <2> QED BY <1>5, <2>1, CreatePortKeeps, CreatePortInDefaultKeeps, UpdatePortKeeps,
             DeletePortKeeps DEF PortRequests
<1>6. CASE ServerActions
  BY <1>6, ServerActionsKeep DEF ServerActions
<1>7. CASE UNCHANGED vars
  <2>1. UNCHANGED <<sharing, port, sighted, dangling>> /\ UNCHANGED filters
    BY <1>7 DEF vars, sharing, filters
  <2>2. GroupsOfPortsExist'
    BY <2>1, FiltersLeft, GroupsGrow DEF IInv
  <2> QED BY <2>1, <2>2, PortsLeft, FiltersLeft, FilteringKeeps
<1> QED BY <1>1, <1>2, <1>3, <1>4, <1>5, <1>6, <1>7 DEF Next

\* Flags, policies, ports, groups and rules are in order at all times.
THEOREM Invariance == Spec => []IInv
BY InitInv, NextInv, PTL DEF Spec

----------------------------------------------------------------------------
(* What follows from it.                                                   *)

\* The stores hold what they are declared to hold.
THEOREM TypeCorrect == Spec => []TypeOK
<1>1. IInv => TypeOK
  BY DEF IInv
<1> QED BY <1>1, Invariance, PTL

\* The flag says what the policies for all say, unless a client set it since.
THEOREM FlagsFollow == Spec => []FlagFollowsPolicies
<1>1. IInv => FlagFollowsPolicies
  BY DEF IInv
<1> QED BY <1>1, Invariance, PTL

\* The revocation of a share takes the network from nobody who uses it.
THEOREM SightIsKept == Spec => []PortsKeepSight
<1>1. IInv => PortsKeepSight
  BY DEF IInv
<1> QED BY <1>1, Invariance, PTL

\* No port is left with a group that is gone.
THEOREM GroupsOfPortsLast == Spec => []GroupsOfPortsExist
<1>1. IInv => GroupsOfPortsExist
  BY DEF IInv
<1> QED BY <1>1, Invariance, PTL

\* A group lists the rules that are its own, and no rule outlives its group.
THEOREM RulesHaveGroups == Spec => []RulesBelong
<1>1. IInv => RulesBelong
  BY DEF IInv
<1> QED BY <1>1, Invariance, PTL
=============================================================================
