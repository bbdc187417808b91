--------------------------- MODULE LoadBalancers ---------------------------
(***************************************************************************)
(* Octavia's objects: load balancers with listeners and pools, pools with  *)
(* members and a health monitor, listeners with L7 policies and their      *)
(* rules.  Every object is kept twice: in a dictionary by its id, and as an*)
(* entry of its parent's list.  As long as the process lives both are one  *)
(* object.  The file holds each where it is found, and a restart makes two *)
(* of it: the dictionary's, which requests by id change, and the list's,   *)
(* which the parent shows ("shown").                                       *)
(*                                                                         *)
(* A handler runs to its end under the database's lock: one action each.   *)
(* Octavia never saves; what it has done is in the file when some other    *)
(* service saves.  A restart from that file leads where a restart right    *)
(* after that save would have led, so the file is no variable here.        *)
(*                                                                         *)
(* The client's project owns everything.  "setting" stands for what a PUT  *)
(* of a member changes; the other objects' settings behave alike.          *)
(***************************************************************************)
EXTENDS Naturals

CONSTANTS
    LoadBalancer, Listener, Pool,   \* ids; uuid4, so never given twice
    Member, Monitor, Policy, Rule,
    Setting,    \* what a member's weight, address, ... may be
    None,       \* no parent, no pool, no monitor; a VIP that was not made up
    Same        \* the list's entry is the dictionary's object

ASSUME LoadBalancersAssumption ==
    /\ None \notin LoadBalancer \cup Listener \cup Pool \cup Monitor \cup Policy \cup Nat
    /\ Same \notin Pool \cup Setting \cup {None}
    /\ \A R \in SUBSET Rule : R # Same

VARIABLES
    balancer,   \* _load_balancers: listeners, pools, vip_address
    listener,   \* _listeners: loadbalancer_id, default_pool_id, l7policies
    pool,       \* _pools: loadbalancer_id, listener_id, healthmonitor_id, members
    member,     \* _pool_members: the pool in the key, what a PUT changes
    monitor,    \* _health_monitors: pool_id
    policy,     \* _l7policies: listener_id, rules
    rule,       \* _l7rules: the policy in the key
    nextVip,    \* _next_lb_vip
    named,      \* history: listeners whose default pool a client has named
    cascaded    \* history: load balancers deleted with all they had

vars == <<balancer, listener, pool, member, monitor, policy, rule, nextVip,
          named, cascaded>>

Here(x)   == x.state = "here"
Unborn(x) == x.state = "unborn"

\* The records of what is there ...
NewBalancer(vip)     == [state |-> "here", vip |-> vip, listeners |-> {}, pools |-> {}]
NewListener(b, d)    == [state |-> "here", lb |-> b, default_pool |-> d,
                         policies |-> {}, shown |-> Same]
NewPool(b, l)        == [state |-> "here", lb |-> b, listener |-> l,
                         monitor |-> None, members |-> {}]
NewMember(p, s)      == [state |-> "here", pool |-> p, setting |-> s, shown |-> Same]
NewMonitor(p)        == [state |-> "here", pool |-> p]
NewPolicy(l)         == [state |-> "here", listener |-> l, rules |-> {}, shown |-> Same]
NewRule(y)           == [state |-> "here", policy |-> y]

\* ... and of what is not: st is "unborn" or "gone".
NoBalancer(st) == [state |-> st, vip |-> None, listeners |-> {}, pools |-> {}]
NoListener(st) == [state |-> st, lb |-> None, default_pool |-> None,
                   policies |-> {}, shown |-> Same]
NoPool(st)     == [state |-> st, lb |-> None, listener |-> None,
                   monitor |-> None, members |-> {}]
NoMember(st)   == [state |-> st, pool |-> None, setting |-> None, shown |-> Same]
NoMonitor(st)  == [state |-> st, pool |-> None]
NoPolicy(st)   == [state |-> st, listener |-> None, rules |-> {}, shown |-> Same]
NoRule(st)     == [state |-> st, policy |-> None]

Init ==
    /\ balancer = [b \in LoadBalancer |-> NoBalancer("unborn")]
    /\ listener = [l \in Listener |-> NoListener("unborn")]
    /\ pool = [p \in Pool |-> NoPool("unborn")]
    /\ member = [m \in Member |-> NoMember("unborn")]
    /\ monitor = [h \in Monitor |-> NoMonitor("unborn")]
    /\ policy = [y \in Policy |-> NoPolicy("unborn")]
    /\ rule = [r \in Rule |-> NoRule("unborn")]
    /\ nextVip = 1
    /\ named = {}
    /\ cascaded = {}

----------------------------------------------------------------------------
(* What goes when listeners ls, policies ys and pools ps go at once.  Each  *)
(* leaves the list of the parent it names.                                 *)

\* Mutant: a pool that goes stays its listener's default.
ListenersWithoutReset(ls, ys, ps) ==
    [l \in Listener |->
        IF l \in ls THEN NoListener("gone")
        ELSE [listener[l] EXCEPT !.policies = @ \ {y \in ys : policy[y].listener = l}]]

ListenersWithout(ls, ys, ps) ==
    [l \in Listener |->
        IF l \in ls THEN NoListener("gone")
        ELSE [listener[l] EXCEPT
                 !.policies = @ \ {y \in ys : policy[y].listener = l},
                 !.default_pool = IF @ \in ps /\ pool[@].listener = l THEN None ELSE @]]

PoliciesWithout(ys) ==
    [y \in Policy |-> IF y \in ys THEN NoPolicy("gone") ELSE policy[y]]

\* Rules are found by the policy's id in their key.
RulesWithout(ys) ==
    [r \in Rule |-> IF rule[r].policy \in ys THEN NoRule("gone") ELSE rule[r]]

PoolsWithout(ps) ==
    [p \in Pool |-> IF p \in ps THEN NoPool("gone") ELSE pool[p]]

MembersWithout(ps) ==
    [m \in Member |-> IF member[m].pool \in ps THEN NoMember("gone") ELSE member[m]]

MonitorsWithout(hs) ==
    [h \in Monitor |-> IF h \in hs THEN NoMonitor("gone") ELSE monitor[h]]

BalancersWithout(ls, ps) ==
    [b \in LoadBalancer |->
        [balancer[b] EXCEPT
            !.listeners = @ \ {l \in ls : listener[l].lb = b},
            !.pools = @ \ {p \in ps : pool[p].lb = b}]]

----------------------------------------------------------------------------
(* Load balancers.                                                         *)

\* The VIP is named, comes from a subnet, or is made up from the counter.
CreateLoadBalancer(b, madeUp) ==
    /\ Unborn(balancer[b])
    /\ balancer' = [balancer EXCEPT ![b] =
           NewBalancer(IF madeUp THEN nextVip ELSE None)]
    /\ nextVip' = IF madeUp THEN nextVip + 1 ELSE nextVip
    /\ UNCHANGED <<listener, pool, member, monitor, policy, rule, named, cascaded>>

\* Listeners and pools stay, naming a load balancer that is gone.
DeleteLoadBalancer(b) ==
    /\ Here(balancer[b])
    /\ balancer' = [balancer EXCEPT ![b] = NoBalancer("gone")]
    /\ UNCHANGED <<listener, pool, member, monitor, policy, rule, nextVip, named,
                   cascaded>>

\* Mutant: the cascade goes through the listeners' pools, and forgets the pools
\* that hang on the load balancer alone.
CascadeDeleteByListener(b) ==
    LET ls == balancer[b].listeners
        ps == {p \in balancer[b].pools : pool[p].listener \in ls}
        ys == UNION {listener[l].policies : l \in ls}
    IN
    /\ Here(balancer[b])
    /\ listener' = ListenersWithout(ls, ys, ps)
    /\ policy' = PoliciesWithout(ys)
    /\ rule' = RulesWithout(ys)
    /\ pool' = PoolsWithout(ps)
    /\ member' = MembersWithout(ps)
    /\ monitor' = MonitorsWithout({pool[p].monitor : p \in ps})
    /\ balancer' = [BalancersWithout(ls, ps) EXCEPT ![b] = NoBalancer("gone")]
    /\ named' = named \ ls
    /\ cascaded' = cascaded \cup {b}
    /\ UNCHANGED nextVip

\* ?cascade=true
CascadeDelete(b) ==
    LET ls == balancer[b].listeners
        ps == balancer[b].pools
        ys == UNION {listener[l].policies : l \in ls}
    IN
    /\ Here(balancer[b])
    /\ listener' = ListenersWithout(ls, ys, ps)
    /\ policy' = PoliciesWithout(ys)
    /\ rule' = RulesWithout(ys)
    /\ pool' = PoolsWithout(ps)
    /\ member' = MembersWithout(ps)
    /\ monitor' = MonitorsWithout({pool[p].monitor : p \in ps})
    /\ balancer' = [BalancersWithout(ls, ps) EXCEPT ![b] = NoBalancer("gone")]
    /\ named' = named \ ls
    /\ cascaded' = cascaded \cup {b}
    /\ UNCHANGED nextVip

----------------------------------------------------------------------------
(* Listeners.                                                              *)

\* The default pool is not looked up.
CreateListener(l, b, d) ==
    /\ Unborn(listener[l])
    /\ Here(balancer[b])
    /\ listener' = [listener EXCEPT ![l] = NewListener(b, d)]
    /\ balancer' = [balancer EXCEPT ![b].listeners = @ \cup {l}]
    /\ named' = IF d = None THEN named ELSE named \cup {l}
    /\ UNCHANGED <<pool, member, monitor, policy, rule, nextVip, cascaded>>

UpdateListener(l, d) ==
    /\ Here(listener[l])
    /\ listener' = [listener EXCEPT ![l].default_pool = d]
    /\ named' = named \cup {l}
    /\ UNCHANGED <<balancer, pool, member, monitor, policy, rule, nextVip, cascaded>>

\* The API's delete does not cascade: the policies stay.
DeleteListener(l) ==
    /\ Here(listener[l])
    /\ listener' = ListenersWithout({l}, {}, {})
    /\ balancer' = BalancersWithout({l}, {})
    /\ named' = named \ {l}
    /\ UNCHANGED <<pool, member, monitor, policy, rule, nextVip, cascaded>>

----------------------------------------------------------------------------
(* Pools, members, health monitors.                                        *)

\* Mutant: a pool for a listener alone is listed under no load balancer.
CreatePoolUnlisted(p, b, l) ==
    /\ Unborn(pool[p])
    /\ b # None => Here(balancer[b])
    /\ l # None => Here(listener[l])
    /\ pool' = [pool EXCEPT ![p] =
           NewPool(IF b # None THEN b ELSE IF l # None THEN listener[l].lb ELSE None, l)]
    /\ balancer' = [c \in LoadBalancer |->
           IF c = b THEN [balancer[c] EXCEPT !.pools = @ \cup {p}] ELSE balancer[c]]
    /\ listener' = [k \in Listener |->
           IF k = l THEN [listener[k] EXCEPT !.default_pool = p] ELSE listener[k]]
    /\ named' = named \ {l}
    /\ UNCHANGED <<member, monitor, policy, rule, nextVip, cascaded>>

\* For a load balancer b, a listener l, both or neither.  A pool for a listener
\* alone goes to the listener's load balancer, which may be gone, and it always
\* becomes the listener's default pool.
CreatePool(p, b, l) ==
    LET lb == IF b # None THEN b ELSE IF l # None THEN listener[l].lb ELSE None IN
    /\ Unborn(pool[p])
    /\ b # None => Here(balancer[b])
    /\ l # None => Here(listener[l])
    /\ pool' = [pool EXCEPT ![p] = NewPool(lb, l)]
    /\ balancer' = [c \in LoadBalancer |->
           IF c = lb /\ Here(balancer[c])
           THEN [balancer[c] EXCEPT !.pools = @ \cup {p}] ELSE balancer[c]]
    /\ listener' = [k \in Listener |->
           IF k = l THEN [listener[k] EXCEPT !.default_pool = p] ELSE listener[k]]
    /\ named' = named \ {l}
    /\ UNCHANGED <<member, monitor, policy, rule, nextVip, cascaded>>

DeletePool(p) ==
    /\ Here(pool[p])
    /\ pool' = PoolsWithout({p})
    /\ balancer' = BalancersWithout({}, {p})
    /\ listener' = ListenersWithout({}, {}, {p})
    /\ member' = MembersWithout({p})
    /\ monitor' = MonitorsWithout({pool[p].monitor})
    /\ UNCHANGED <<policy, rule, nextVip, named, cascaded>>

CreatePoolMember(m, p, s) ==
    /\ Unborn(member[m])
    /\ Here(pool[p])
    /\ member' = [member EXCEPT ![m] = NewMember(p, s)]
    /\ pool' = [pool EXCEPT ![p].members = @ \cup {m}]
    /\ UNCHANGED <<balancer, listener, monitor, policy, rule, nextVip, named, cascaded>>

UpdatePoolMember(m, s) ==
    /\ Here(member[m])
    /\ member' = [member EXCEPT ![m].setting = s]
    /\ UNCHANGED <<balancer, listener, pool, monitor, policy, rule, nextVip, named,
                   cascaded>>

DeletePoolMember(m) ==
    /\ Here(member[m])
    /\ member' = [member EXCEPT ![m] = NoMember("gone")]
    /\ pool' = [p \in Pool |->
           IF p = member[m].pool THEN [pool[p] EXCEPT !.members = @ \ {m}] ELSE pool[p]]
    /\ UNCHANGED <<balancer, listener, monitor, policy, rule, nextVip, named, cascaded>>

CreateHealthMonitor(h, p) ==
    /\ Unborn(monitor[h])
    /\ Here(pool[p])
    /\ pool[p].monitor = None
    /\ monitor' = [monitor EXCEPT ![h] = NewMonitor(p)]
    /\ pool' = [pool EXCEPT ![p].monitor = h]
    /\ UNCHANGED <<balancer, listener, member, policy, rule, nextVip, named, cascaded>>

DeleteHealthMonitor(h) ==
    /\ Here(monitor[h])
    /\ monitor' = MonitorsWithout({h})
    /\ pool' = [p \in Pool |->
           IF p = monitor[h].pool THEN [pool[p] EXCEPT !.monitor = None] ELSE pool[p]]
    /\ UNCHANGED <<balancer, listener, member, policy, rule, nextVip, named, cascaded>>

----------------------------------------------------------------------------
(* L7 policies and their rules.                                            *)

CreateL7Policy(y, l) ==
    /\ Unborn(policy[y])
    /\ Here(listener[l])
    /\ policy' = [policy EXCEPT ![y] = NewPolicy(l)]
    /\ listener' = [listener EXCEPT ![l].policies = @ \cup {y}]
    /\ UNCHANGED <<balancer, pool, member, monitor, rule, nextVip, named, cascaded>>

DeleteL7Policy(y) ==
    /\ Here(policy[y])
    /\ policy' = PoliciesWithout({y})
    /\ rule' = RulesWithout({y})
    /\ listener' = ListenersWithout({}, {y}, {})
    /\ UNCHANGED <<balancer, pool, member, monitor, nextVip, named, cascaded>>

CreateL7Rule(r, y) ==
    /\ Unborn(rule[r])
    /\ Here(policy[y])
    /\ rule' = [rule EXCEPT ![r] = NewRule(y)]
    /\ policy' = [policy EXCEPT ![y].rules = @ \cup {r}]
    /\ UNCHANGED <<balancer, listener, pool, member, monitor, nextVip, named, cascaded>>

DeleteL7Rule(r) ==
    /\ Here(rule[r])
    /\ rule' = [rule EXCEPT ![r] = NoRule("gone")]
    /\ policy' = [y \in Policy |->
           IF y = rule[r].policy THEN [policy[y] EXCEPT !.rules = @ \ {r}] ELSE policy[y]]
    /\ UNCHANGED <<balancer, listener, pool, member, monitor, nextVip, named, cascaded>>

----------------------------------------------------------------------------

\* What an entry of a list shows after a restart: what it showed when the file
\* was written.  From now on it is an object of its own.
Frozen(shown, current) == IF shown = Same THEN current ELSE shown

Restart ==
    /\ listener' = [l \in Listener |->
           IF Here(listener[l])
           THEN [listener[l] EXCEPT !.shown = Frozen(@, listener[l].default_pool)]
           ELSE listener[l]]
    /\ member' = [m \in Member |->
           IF Here(member[m])
           THEN [member[m] EXCEPT !.shown = Frozen(@, member[m].setting)]
           ELSE member[m]]
    /\ policy' = [y \in Policy |->
           IF Here(policy[y])
           THEN [policy[y] EXCEPT !.shown = Frozen(@, policy[y].rules)]
           ELSE policy[y]]
    /\ UNCHANGED <<balancer, pool, monitor, rule, nextVip, named, cascaded>>

----------------------------------------------------------------------------
(* The requests, by the routes of the API: POST, PUT, DELETE.  A GET and a  *)
(* PUT of attributes that are not held here are steps that change nothing. *)

\* Clients name pools that there are or were.
Known(p) == ~Unborn(pool[p])

LoadBalancerRequests(b) ==
    \/ \E madeUp \in BOOLEAN : CreateLoadBalancer(b, madeUp)
    \/ DeleteLoadBalancer(b)
    \/ CascadeDelete(b)

ListenerRequests(l) ==
    \/ \E b \in LoadBalancer : CreateListener(l, b, None)
    \/ \E b \in LoadBalancer, d \in Pool : Known(d) /\ CreateListener(l, b, d)
    \/ \E d \in Pool : Known(d) /\ UpdateListener(l, d)
    \/ DeleteListener(l)

PoolRequests(p) ==
    \/ \E b \in LoadBalancer \cup {None}, l \in Listener \cup {None} : CreatePool(p, b, l)
    \/ DeletePool(p)

MemberRequests(m) ==
    \/ \E p \in Pool, s \in Setting : CreatePoolMember(m, p, s)
    \/ \E s \in Setting : UpdatePoolMember(m, s)
    \/ DeletePoolMember(m)

HealthMonitorRequests(h) ==
    \/ \E p \in Pool : CreateHealthMonitor(h, p)
    \/ DeleteHealthMonitor(h)

L7PolicyRequests(y) ==
    \/ \E l \in Listener : CreateL7Policy(y, l)
    \/ DeleteL7Policy(y)

L7RuleRequests(r) ==
    \/ \E y \in Policy : CreateL7Rule(r, y)
    \/ DeleteL7Rule(r)

Next ==
    \/ \E b \in LoadBalancer : LoadBalancerRequests(b)
    \/ \E l \in Listener : ListenerRequests(l)
    \/ \E p \in Pool : PoolRequests(p)
    \/ \E m \in Member : MemberRequests(m)
    \/ \E h \in Monitor : HealthMonitorRequests(h)
    \/ \E y \in Policy : L7PolicyRequests(y)
    \/ \E r \in Rule : L7RuleRequests(r)
    \/ Restart

Spec == Init /\ [][Next]_vars

----------------------------------------------------------------------------
(* Properties.                                                             *)

State == {"unborn", "here", "gone"}

Balancers == [state : State, vip : Nat \cup {None},
              listeners : SUBSET Listener, pools : SUBSET Pool]
Listeners == [state : State, lb : LoadBalancer \cup {None},
              default_pool : Pool \cup {None}, policies : SUBSET Policy,
              shown : Pool \cup {None, Same}]
Pools     == [state : State, lb : LoadBalancer \cup {None},
              listener : Listener \cup {None}, monitor : Monitor \cup {None},
              members : SUBSET Member]
Members   == [state : State, pool : Pool \cup {None}, setting : Setting \cup {None},
              shown : Setting \cup {None, Same}]
Monitors  == [state : State, pool : Pool \cup {None}]
Policies  == [state : State, listener : Listener \cup {None}, rules : SUBSET Rule,
              shown : (SUBSET Rule) \cup {Same}]
Rules     == [state : State, policy : Policy \cup {None}]

\* The dictionaries hold what they are declared to hold, and the counter is
\* ahead of every VIP made up so far.
TypeOK ==
    /\ balancer \in [LoadBalancer -> Balancers]
    /\ listener \in [Listener -> Listeners]
    /\ pool \in [Pool -> Pools]
    /\ member \in [Member -> Members]
    /\ monitor \in [Monitor -> Monitors]
    /\ policy \in [Policy -> Policies]
    /\ rule \in [Rule -> Rules]
    /\ nextVip \in Nat
    /\ \A b \in LoadBalancer : balancer[b].vip # None => balancer[b].vip < nextVip
    /\ named \subseteq Listener
    /\ cascaded \subseteq LoadBalancer

\* What a parent lists is what names it as the parent, through all deletions,
\* cascades and restarts: a delete by id and a cascade through the lists reach
\* the same objects.
ParentsListChildren ==
    /\ \A b \in LoadBalancer : Here(balancer[b]) =>
          /\ balancer[b].listeners = {l \in Listener : listener[l].lb = b}
          /\ balancer[b].pools = {p \in Pool : pool[p].lb = b}
    /\ \A l \in Listener : Here(listener[l]) =>
          listener[l].policies = {y \in Policy : policy[y].listener = l}
    /\ \A p \in Pool : Here(pool[p]) =>
          pool[p].members = {m \in Member : member[m].pool = p}
    /\ \A y \in Policy : Here(policy[y]) =>
          policy[y].rules = {r \in Rule : rule[r].policy = y}

\* No member, monitor or rule outlives the object it can only be reached
\* through, and a pool and its monitor name each other.
NoLostChildren ==
    /\ \A m \in Member : Here(member[m]) => Here(pool[member[m].pool])
    /\ \A h \in Monitor : Here(monitor[h]) =>
          Here(pool[monitor[h].pool]) /\ pool[monitor[h].pool].monitor = h
    /\ \A p \in Pool : pool[p].monitor # None =>
          Here(monitor[pool[p].monitor]) /\ monitor[pool[p].monitor].pool = p
    /\ \A r \in Rule : Here(rule[r]) => Here(policy[rule[r].policy])

\* A default pool is there, whatever was deleted, by whom and through which
\* load balancer, unless a client named it by its id (which is not looked up).
DefaultPoolIsThere ==
    \A l \in Listener \ named : listener[l].default_pool # None =>
        Here(pool[listener[l].default_pool])

\* "Cascade delete removes all child resources" (test_octavia): nothing names
\* the load balancer any more, nor does anything name it later.
CascadeIsComplete ==
    \A b \in cascaded :
        /\ \A l \in Listener : listener[l].lb # b
        /\ \A p \in Pool : pool[p].lb # b

\* Two load balancers never have the same made-up VIP, restarts included.
MadeUpVipsApart ==
    \A b, c \in LoadBalancer :
        b # c /\ balancer[b].vip # None => balancer[b].vip # balancer[c].vip

\* What a list shows of an object is what the object is: "the whole database is
\* written to one JSON file and restored at startup" (docs/development.md).
\* The code does not keep it: see README, "Where the code departs".
ListsShowObjects ==
    /\ \A l \in Listener : listener[l].shown \in {Same, listener[l].default_pool}
    /\ \A m \in Member : member[m].shown \in {Same, member[m].setting}
    /\ \A y \in Policy : policy[y].shown \in {Same, policy[y].rules}
============================================================================
