------------------------ MODULE ServicesProofs -----------------------------
(***************************************************************************)
(* Proofs about three models that share no variable and no definition.     *)
(*                                                                         *)
(* LoadBalancers, for every number of load balancers, listeners, pools,    *)
(* members, monitors, policies and rules.  A parent's list holds exactly   *)
(* the objects that name it (BalancersList to PoliciesList), so that a     *)
(* cascade, which goes through the lists, and a delete by id, which goes   *)
(* through the names, reach the same objects.                              *)
(*                                                                         *)
(* BlockStorage, for every number of projects, volumes, snapshots,         *)
(* backups, transfers and groups and every size.  Sizes only grow and a    *)
(* record names a volume it was made of, in memory and in the file         *)
(* (SizesFit); what is gone from memory is gone from the file              *)
(* (DeletionsSaved), so that a restart undoes no deletion.                 *)
(*                                                                         *)
(* Scenarios, for every set of scenarios, requests and profiles.  The      *)
(* totals are compared with numbers of requests, so the argument counts:   *)
(* one request more that failed is one more element of a finite set, and a *)
(* request that is counted is never new again (CountedNotNew).             *)
(***************************************************************************)
EXTENDS LoadBalancers, BlockStorage, Scenarios, FiniteSetTheorems, TLAPS

----------------------------------------------------------------------------
(* The inductive invariant.                                                *)

\* What is there names a parent that is there or was, and only the rest names
\* none: a parent's id is never anybody's before the parent exists.
ParentsGiven ==
    /\ \A l \in Listener :
          /\ Here(listener[l]) => listener[l].lb # None
          /\ listener[l].lb # None =>
                Here(listener[l]) /\ ~Unborn(balancer[listener[l].lb])
    /\ \A p \in Pool : pool[p].lb # None =>
          Here(pool[p]) /\ ~Unborn(balancer[pool[p].lb])
    /\ \A m \in Member : Here(member[m]) <=> member[m].pool # None
    /\ \A h \in Monitor : Here(monitor[h]) <=> monitor[h].pool # None
    /\ \A y \in Policy : policy[y].listener # None =>
          Here(policy[y]) /\ ~Unborn(listener[policy[y].listener])
    /\ \A r \in Rule : Here(rule[r]) <=> rule[r].policy # None

\* ParentsListChildren, list by list.
BalancersList ==
    \A b \in LoadBalancer : Here(balancer[b]) =>
        /\ balancer[b].listeners = {l \in Listener : listener[l].lb = b}
        /\ balancer[b].pools = {p \in Pool : pool[p].lb = b}

ListenersList ==
    \A l \in Listener : Here(listener[l]) =>
        listener[l].policies = {y \in Policy : policy[y].listener = l}

PoolsList ==
    \A p \in Pool : Here(pool[p]) =>
        pool[p].members = {m \in Member : member[m].pool = p}

PoliciesList ==
    \A y \in Policy : Here(policy[y]) =>
        policy[y].rules = {r \in Rule : rule[r].policy = y}

\* A default pool that no client named was made for the listener: deleting it
\* finds the listener again.
DefaultsOwn ==
    \A l \in Listener \ named : listener[l].default_pool # None =>
        /\ Here(pool[listener[l].default_pool])
        /\ pool[listener[l].default_pool].listener = l

\* A load balancer that went with all it had does not come back.
CascadeGone ==
    \A b \in cascaded :
        /\ balancer[b].state = "gone"
        /\ \A l \in Listener : listener[l].lb # b
        /\ \A p \in Pool : pool[p].lb # b

\* The inductive invariant.
Inv ==
    /\ TypeOK
    /\ ParentsGiven
    /\ BalancersList
    /\ ListenersList
    /\ PoolsList
    /\ PoliciesList
    /\ NoLostChildren
    /\ DefaultsOwn
    /\ CascadeGone
    /\ MadeUpVipsApart

----------------------------------------------------------------------------
(* Lemmas on the operators and the records.                                *)

\* What is left of the listeners, field by field.
LEMMA ListenersWithoutIs ==
    ASSUME TypeOK, NEW ls, NEW ys, NEW ps \in SUBSET Pool
    PROVE  /\ ListenersWithout(ls, ys, ps) \in [Listener -> Listeners]
           /\ \A l \in Listener :
                 IF l \in ls THEN ListenersWithout(ls, ys, ps)[l] = NoListener("gone")
                 ELSE /\ ListenersWithout(ls, ys, ps)[l].state = listener[l].state
                      /\ ListenersWithout(ls, ys, ps)[l].lb = listener[l].lb
                      /\ \A y : y \in ListenersWithout(ls, ys, ps)[l].policies <=>
                            /\ y \in listener[l].policies
                            /\ ~(y \in ys /\ policy[y].listener = l)
                      /\ ListenersWithout(ls, ys, ps)[l].default_pool =
                            IF listener[l].default_pool \in ps
                               /\ pool[listener[l].default_pool].listener = l
                            THEN None ELSE listener[l].default_pool
<1> DEFINE left(l) == listener[l].policies \ {y \in ys : policy[y].listener = l}
           default(l) == IF listener[l].default_pool \in ps
                            /\ pool[listener[l].default_pool].listener = l
                         THEN None ELSE listener[l].default_pool
           kept(l) == [listener[l] EXCEPT !.policies = left(l), !.default_pool = default(l)]
<1>1. ASSUME NEW l \in Listener
      PROVE  /\ left(l) \in SUBSET Policy
             /\ default(l) \in Pool \cup {None}
             /\ listener[l] \in Listeners
  BY DEF TypeOK, Listeners
<1>2. ASSUME NEW l \in Listener
      PROVE  /\ kept(l) \in Listeners
             /\ kept(l).state = listener[l].state
             /\ kept(l).lb = listener[l].lb
             /\ kept(l).policies = left(l)
             /\ kept(l).default_pool = default(l)
  <2> HIDE DEF left, default
  <2> QED BY <1>1 DEF Listeners
<1>3. NoListener("gone") \in Listeners
  BY DEF NoListener, Listeners, State
<1>4. ListenersWithout(ls, ys, ps) =
        [l \in Listener |-> IF l \in ls THEN NoListener("gone") ELSE kept(l)]
  BY DEF ListenersWithout
<1> HIDE DEF kept
<1> QED BY <1>2, <1>3, <1>4

\* What is left of the load balancers, field by field.
LEMMA BalancersWithoutIs ==
    ASSUME TypeOK, NEW ls, NEW ps
    PROVE  /\ BalancersWithout(ls, ps) \in [LoadBalancer -> Balancers]
           /\ \A b \in LoadBalancer :
                 /\ BalancersWithout(ls, ps)[b].state = balancer[b].state
                 /\ BalancersWithout(ls, ps)[b].vip = balancer[b].vip
                 /\ \A l : l \in BalancersWithout(ls, ps)[b].listeners <=>
                       l \in balancer[b].listeners /\ ~(l \in ls /\ listener[l].lb = b)
                 /\ \A p : p \in BalancersWithout(ls, ps)[b].pools <=>
                       p \in balancer[b].pools /\ ~(p \in ps /\ pool[p].lb = b)
<1> DEFINE ours(b) == balancer[b].listeners \ {l \in ls : listener[l].lb = b}
           rest(b) == balancer[b].pools \ {p \in ps : pool[p].lb = b}
           kept(b) == [balancer[b] EXCEPT !.listeners = ours(b), !.pools = rest(b)]
<1>1. ASSUME NEW b \in LoadBalancer
      PROVE  /\ ours(b) \in SUBSET Listener
             /\ rest(b) \in SUBSET Pool
             /\ balancer[b] \in Balancers
  BY DEF TypeOK, Balancers
<1>2. ASSUME NEW b \in LoadBalancer
      PROVE  /\ kept(b) \in Balancers
             /\ kept(b).state = balancer[b].state
             /\ kept(b).vip = balancer[b].vip
             /\ kept(b).listeners = ours(b)
             /\ kept(b).pools = rest(b)
  <2> HIDE DEF ours, rest
  <2> QED BY <1>1 DEF Balancers
<1>3. BalancersWithout(ls, ps) = [b \in LoadBalancer |-> kept(b)]
  BY DEF BalancersWithout
<1> HIDE DEF kept
<1> QED BY <1>2, <1>3

\* A record with one field changed is a record of its set.
LEMMA RecordChanges ==
    /\ \A x \in Pools :
          /\ \A S \in SUBSET Member : [x EXCEPT !.members = S] \in Pools
          /\ \A h \in Monitor \cup {None} : [x EXCEPT !.monitor = h] \in Pools
    /\ \A x \in Listeners :
          /\ \A S \in SUBSET Policy : [x EXCEPT !.policies = S] \in Listeners
          /\ \A d \in Pool \cup {None} : [x EXCEPT !.default_pool = d] \in Listeners
          /\ \A d \in Pool \cup {None, Same} : [x EXCEPT !.shown = d] \in Listeners
    /\ \A x \in Members : \A s \in Setting \cup {None, Same} :
          [x EXCEPT !.shown = s] \in Members
    /\ \A x \in Policies :
          /\ \A S \in SUBSET Rule : /\ [x EXCEPT !.rules = S] \in Policies
                                    /\ [x EXCEPT !.rules = S].state = x.state
                                    /\ [x EXCEPT !.rules = S].listener = x.listener
                                    /\ [x EXCEPT !.rules = S].rules = S
          /\ \A S \in (SUBSET Rule) \cup {Same} : [x EXCEPT !.shown = S] \in Policies
    /\ \A x \in Balancers : \A S \in SUBSET Pool : [x EXCEPT !.pools = S] \in Balancers
<1>1. \A x \in Pools :
          /\ \A S \in SUBSET Member : [x EXCEPT !.members = S] \in Pools
          /\ \A h \in Monitor \cup {None} : [x EXCEPT !.monitor = h] \in Pools
  BY DEF Pools
<1>2. \A x \in Listeners :
          /\ \A S \in SUBSET Policy : [x EXCEPT !.policies = S] \in Listeners
          /\ \A d \in Pool \cup {None} : [x EXCEPT !.default_pool = d] \in Listeners
          /\ \A d \in Pool \cup {None, Same} : [x EXCEPT !.shown = d] \in Listeners
  BY DEF Listeners
<1>3. \A x \in Members : \A s \in Setting \cup {None, Same} :
          [x EXCEPT !.shown = s] \in Members
  BY DEF Members
<1>4. \A x \in Policies :
          /\ \A S \in SUBSET Rule : /\ [x EXCEPT !.rules = S] \in Policies
                                    /\ [x EXCEPT !.rules = S].state = x.state
                                    /\ [x EXCEPT !.rules = S].listener = x.listener
                                    /\ [x EXCEPT !.rules = S].rules = S
          /\ \A S \in (SUBSET Rule) \cup {Same} : [x EXCEPT !.shown = S] \in Policies
  BY DEF Policies
<1>5. \A x \in Balancers : \A S \in SUBSET Pool : [x EXCEPT !.pools = S] \in Balancers
  BY DEF Balancers
<1> QED BY <1>1, <1>2, <1>3, <1>4, <1>5

\* What the records name and list is of the right kind.
LEMMA Links ==
    ASSUME TypeOK
    PROVE  /\ \A b \in LoadBalancer : /\ balancer[b].listeners \in SUBSET Listener
                                      /\ balancer[b].pools \in SUBSET Pool
           /\ \A l \in Listener : /\ listener[l].lb \in LoadBalancer \cup {None}
                                  /\ listener[l].default_pool \in Pool \cup {None}
                                  /\ listener[l].policies \in SUBSET Policy
           /\ \A p \in Pool : /\ pool[p].lb \in LoadBalancer \cup {None}
                              /\ pool[p].listener \in Listener \cup {None}
                              /\ pool[p].monitor \in Monitor \cup {None}
                              /\ pool[p].members \in SUBSET Member
           /\ \A m \in Member : member[m].pool \in Pool \cup {None}
           /\ \A h \in Monitor : monitor[h].pool \in Pool \cup {None}
           /\ \A y \in Policy : /\ policy[y].listener \in Listener \cup {None}
                                /\ policy[y].rules \in SUBSET Rule
           /\ \A r \in Rule : rule[r].policy \in Policy \cup {None}
           /\ cascaded \subseteq LoadBalancer
<1>1. /\ \A b \in LoadBalancer : balancer[b] \in Balancers
      /\ \A l \in Listener : listener[l] \in Listeners
      /\ \A p \in Pool : pool[p] \in Pools
      /\ \A m \in Member : member[m] \in Members
      /\ \A h \in Monitor : monitor[h] \in Monitors
      /\ \A y \in Policy : policy[y] \in Policies
      /\ \A r \in Rule : rule[r] \in Rules
  BY DEF TypeOK
<1>2. \A b \in LoadBalancer : /\ balancer[b].listeners \in SUBSET Listener
                              /\ balancer[b].pools \in SUBSET Pool
  BY <1>1 DEF Balancers
<1>3. \A l \in Listener : /\ listener[l].lb \in LoadBalancer \cup {None}
                          /\ listener[l].default_pool \in Pool \cup {None}
                          /\ listener[l].policies \in SUBSET Policy
  BY <1>1 DEF Listeners
<1>4. \A p \in Pool : /\ pool[p].lb \in LoadBalancer \cup {None}
                      /\ pool[p].listener \in Listener \cup {None}
                      /\ pool[p].monitor \in Monitor \cup {None}
                      /\ pool[p].members \in SUBSET Member
  BY <1>1 DEF Pools
<1>5. /\ \A m \in Member : member[m].pool \in Pool \cup {None}
      /\ \A h \in Monitor : monitor[h].pool \in Pool \cup {None}
      /\ \A r \in Rule : rule[r].policy \in Policy \cup {None}
  BY <1>1 DEF Members, Monitors, Rules
<1>6. \A y \in Policy : /\ policy[y].listener \in Listener \cup {None}
                        /\ policy[y].rules \in SUBSET Rule
  BY <1>1 DEF Policies
<1> QED BY <1>2, <1>3, <1>4, <1>5, <1>6 DEF TypeOK

----------------------------------------------------------------------------
(* One lemma per action.                                                   *)

\* A new load balancer lists nothing, and nothing names it; its VIP is the
\* counter's, which moves on.
LEMMA CreateLoadBalancerKeeps ==
    ASSUME Inv, NEW b \in LoadBalancer, NEW madeUp \in BOOLEAN,
           CreateLoadBalancer(b, madeUp)
    PROVE  Inv'
<1> USE LoadBalancersAssumption DEF Here, Unborn, NewBalancer
<1>1. TypeOK
  BY DEF Inv
<1>2. TypeOK'
  <2>1. balancer' \in [LoadBalancer -> Balancers]
    BY <1>1 DEF CreateLoadBalancer, TypeOK, State, Balancers
  <2>2. /\ nextVip' \in Nat
        /\ \A x \in LoadBalancer : balancer'[x].vip # None => balancer'[x].vip < nextVip'
    BY <1>1 DEF CreateLoadBalancer, TypeOK, Balancers
  <2> QED BY <1>1, <2>1, <2>2 DEF CreateLoadBalancer, TypeOK
<1>3. ParentsGiven'
  BY DEF CreateLoadBalancer, Inv, ParentsGiven
<1>4. BalancersList'
  BY <1>1 DEF CreateLoadBalancer, Inv, TypeOK, Balancers, ParentsGiven,
      BalancersList
<1>5. CascadeGone'
  BY DEF CreateLoadBalancer, Inv, CascadeGone
<1>6. MadeUpVipsApart'
  BY <1>1 DEF CreateLoadBalancer, Inv, TypeOK, Balancers, MadeUpVipsApart
<1>7. ListenersList' /\ PoolsList' /\ PoliciesList' /\ NoLostChildren' /\
      DefaultsOwn'
  BY DEF CreateLoadBalancer, Inv, ListenersList, PoolsList, PoliciesList,
      NoLostChildren, DefaultsOwn
<1> QED BY <1>2, <1>3, <1>4, <1>5, <1>6, <1>7 DEF Inv

\* A load balancer that goes without cascade leaves its listeners and pools
\* naming it.
LEMMA DeleteLoadBalancerKeeps ==
    ASSUME Inv, NEW b \in LoadBalancer, DeleteLoadBalancer(b)
    PROVE  Inv'
<1> USE LoadBalancersAssumption DEF Here, Unborn, NoBalancer
<1>1. TypeOK
  BY DEF Inv
<1>2. TypeOK'
  <2>1. balancer' \in [LoadBalancer -> Balancers]
    BY <1>1 DEF DeleteLoadBalancer, TypeOK, State, Balancers
  <2>2. /\ nextVip' \in Nat
        /\ \A x \in LoadBalancer : balancer'[x].vip # None => balancer'[x].vip < nextVip'
    BY <1>1 DEF DeleteLoadBalancer, TypeOK, Balancers
  <2> QED BY <1>1, <2>1, <2>2 DEF DeleteLoadBalancer, TypeOK
<1>3. ParentsGiven'
  BY DEF DeleteLoadBalancer, Inv, ParentsGiven
<1>4. BalancersList'
  BY DEF DeleteLoadBalancer, Inv, BalancersList
<1>5. CascadeGone'
  BY DEF DeleteLoadBalancer, Inv, CascadeGone
<1>6. MadeUpVipsApart'
  BY DEF DeleteLoadBalancer, Inv, MadeUpVipsApart
<1>7. ListenersList' /\ PoolsList' /\ PoliciesList' /\ NoLostChildren' /\
      DefaultsOwn'
  BY DEF DeleteLoadBalancer, Inv, ListenersList, PoolsList, PoliciesList,
      NoLostChildren, DefaultsOwn
<1> QED BY <1>2, <1>3, <1>4, <1>5, <1>6, <1>7 DEF Inv

\* The cascade takes exactly what names the load balancer, and what hangs on
\* that.
LEMMA CascadeDeleteKeeps ==
    ASSUME Inv, NEW b \in LoadBalancer, CascadeDelete(b)
    PROVE  Inv'
<1> USE LoadBalancersAssumption DEF Here, Unborn, NoBalancer, NoListener,
    NoPool, NoMember, NoMonitor, NoPolicy, NoRule, PoliciesWithout,
    RulesWithout, PoolsWithout, MembersWithout, MonitorsWithout
<1> DEFINE ls == balancer[b].listeners
           ps == balancer[b].pools
           ys == UNION {listener[l].policies : l \in ls}
<1>1. TypeOK
  BY DEF Inv
<1>2. /\ ls \in SUBSET Listener /\ ps \in SUBSET Pool
      /\ \A l \in Listener :
             IF l \in ls THEN listener'[l].state = "gone" /\ listener'[l].lb = None
                              /\ listener'[l].default_pool = None
             ELSE /\ listener'[l].state = listener[l].state
                  /\ listener'[l].lb = listener[l].lb
                  /\ \A y : y \in listener'[l].policies <=>
                        y \in listener[l].policies /\ ~(y \in ys /\ policy[y].listener = l)
                  /\ listener'[l].default_pool =
                       IF listener[l].default_pool \in ps
                          /\ pool[listener[l].default_pool].listener = l
                       THEN None ELSE listener[l].default_pool
      /\ \A p \in Pool : pool'[p] = IF p \in ps THEN NoPool("gone") ELSE pool[p]
      /\ \A c \in LoadBalancer :
             IF c = b THEN balancer'[c] = NoBalancer("gone")
             ELSE /\ balancer'[c].state = balancer[c].state
                  /\ balancer'[c].vip = balancer[c].vip
                  /\ \A l : l \in balancer'[c].listeners <=>
                        l \in balancer[c].listeners /\ ~(l \in ls /\ listener[l].lb = c)
                  /\ \A p : p \in balancer'[c].pools <=>
                        p \in balancer[c].pools /\ ~(p \in ps /\ pool[p].lb = c)
      /\ \A m \in Member :
             member'[m] = IF member[m].pool \in ps THEN NoMember("gone") ELSE member[m]
      /\ \A h \in Monitor :
             monitor'[h] = IF h \in {pool[p].monitor : p \in ps} THEN NoMonitor("gone")
                           ELSE monitor[h]
      /\ \A y \in Policy :
             policy'[y] = IF y \in ys THEN NoPolicy("gone") ELSE policy[y]
      /\ \A r \in Rule :
             rule'[r] = IF rule[r].policy \in ys THEN NoRule("gone") ELSE rule[r]
      /\ Here(balancer[b])
      /\ named' = named \ ls /\ cascaded' = cascaded \cup {b}
      /\ UNCHANGED nextVip
  <2>1. ls \in SUBSET Listener /\ ps \in SUBSET Pool
    BY <1>1 DEF TypeOK, Balancers
  <2> HIDE DEF ls, ps, ys
  <2>2. /\ listener' = ListenersWithout(ls, ys, ps)
        /\ balancer' = [BalancersWithout(ls, ps) EXCEPT ![b] = NoBalancer("gone")]
        /\ pool' = PoolsWithout(ps) /\ member' = MembersWithout(ps)
        /\ monitor' = MonitorsWithout({pool[p].monitor : p \in ps})
        /\ policy' = PoliciesWithout(ys) /\ rule' = RulesWithout(ys)
        /\ Here(balancer[b])
        /\ named' = named \ ls /\ cascaded' = cascaded \cup {b}
        /\ UNCHANGED nextVip
    BY DEF CascadeDelete, ls, ps, ys
  <2> QED BY <1>1, <2>1, <2>2, ListenersWithoutIs, BalancersWithoutIs
<1> HIDE DEF ls, ps, ys
<1>3. TypeOK'
  <2>1. balancer' \in [LoadBalancer -> Balancers]
    <3>1. NoBalancer("gone") \in Balancers
      BY DEF Balancers, State
    <3>2. \A x, y : BalancersWithout(x, y) \in [LoadBalancer -> Balancers]
      BY <1>1, BalancersWithoutIs
    <3> HIDE DEF NoBalancer
    <3> QED BY <3>1, <3>2 DEF CascadeDelete
  <2>2. listener' \in [Listener -> Listeners]
    BY <1>1, ListenersWithoutIs DEF CascadeDelete, TypeOK, Balancers
  <2>3. pool' \in [Pool -> Pools]
    BY <1>1 DEF CascadeDelete, TypeOK, State, Pools
  <2>4. member' \in [Member -> Members]
    BY <1>1 DEF CascadeDelete, TypeOK, State, Members
  <2>5. monitor' \in [Monitor -> Monitors]
    BY <1>1 DEF CascadeDelete, TypeOK, State, Monitors
  <2>6. policy' \in [Policy -> Policies]
    BY <1>1 DEF CascadeDelete, TypeOK, State, Policies
  <2>7. rule' \in [Rule -> Rules]
    BY <1>1 DEF CascadeDelete, TypeOK, State, Rules
  <2>8. /\ nextVip' \in Nat
        /\ \A x \in LoadBalancer : balancer'[x].vip # None => balancer'[x].vip < nextVip'
    BY <1>1, BalancersWithoutIs DEF CascadeDelete, TypeOK, Balancers
  <2> QED BY <1>1, <2>1, <2>2, <2>3, <2>4, <2>5, <2>6, <2>7, <2>8 DEF
          CascadeDelete, TypeOK
<1>4. ParentsGiven'
  BY <1>1, <1>2, Links DEF Inv, ParentsGiven
<1>5. BalancersList'
  BY <1>2 DEF Inv, BalancersList
<1>6. ListenersList'
  BY <1>2 DEF Inv, ListenersList
<1>7. PoolsList'
  BY <1>2 DEF Inv, PoolsList
<1>8. PoliciesList'
  BY <1>2 DEF Inv, PoliciesList
<1>9. NoLostChildren'
  BY <1>1, <1>2, Links DEF Inv, ParentsGiven, NoLostChildren
<1>10. DefaultsOwn'
  BY <1>1, <1>2, Links DEF Inv, DefaultsOwn
<1>11. CascadeGone'
  <2>1. /\ \A l \in Listener : listener[l].lb = b => l \in ls
        /\ \A p \in Pool : pool[p].lb = b => p \in ps
    BY <1>2 DEF Inv, BalancersList, ls, ps
  <2>2. /\ balancer'[b].state = "gone"
        /\ \A l \in Listener : listener'[l].lb # b
        /\ \A p \in Pool : pool'[p].lb # b
    BY <1>2, <2>1
  <2>3. ASSUME NEW c \in cascaded
        PROVE  /\ balancer'[c].state = "gone"
               /\ \A l \in Listener : listener'[l].lb # c
               /\ \A p \in Pool : pool'[p].lb # c
    BY <1>1, <1>2, Links DEF Inv, CascadeGone
  <2> QED BY <1>2, <2>2, <2>3 DEF CascadeGone
<1>12. MadeUpVipsApart'
  BY <1>2 DEF Inv, MadeUpVipsApart
<1> QED BY <1>3, <1>4, <1>5, <1>6, <1>7, <1>8, <1>9, <1>10, <1>11, <1>12 DEF
       Inv

\* A new listener is listed by the load balancer it names.
LEMMA CreateListenerKeeps ==
    ASSUME Inv, NEW l \in Listener, NEW b \in LoadBalancer, NEW d \in Pool
           \cup {None}, CreateListener(l, b, d)
    PROVE  Inv'
<1> USE LoadBalancersAssumption DEF Here, Unborn, NewListener
<1>1. TypeOK
  BY DEF Inv
<1>2. TypeOK'
  <2>1. balancer' \in [LoadBalancer -> Balancers]
    BY <1>1 DEF CreateListener, TypeOK, State, Balancers
  <2>2. listener' \in [Listener -> Listeners]
    BY <1>1 DEF CreateListener, TypeOK, State, Listeners
  <2>3. /\ nextVip' \in Nat
        /\ \A x \in LoadBalancer : balancer'[x].vip # None => balancer'[x].vip < nextVip'
    BY <1>1 DEF CreateListener, TypeOK, Balancers
  <2> QED BY <1>1, <2>1, <2>2, <2>3 DEF CreateListener, TypeOK
<1>3. ParentsGiven'
  BY DEF CreateListener, Inv, ParentsGiven
<1>4. BalancersList'
  BY <1>1 DEF CreateListener, Inv, TypeOK, Balancers, Listeners, ParentsGiven,
      BalancersList
<1>5. ListenersList'
  BY <1>1 DEF CreateListener, Inv, TypeOK, Listeners, ParentsGiven,
      ListenersList
<1>6. DefaultsOwn'
  BY DEF CreateListener, Inv, DefaultsOwn
<1>7. CascadeGone'
  BY DEF CreateListener, Inv, CascadeGone
<1>8. MadeUpVipsApart'
  BY DEF CreateListener, Inv, MadeUpVipsApart
<1>9. PoolsList' /\ PoliciesList' /\ NoLostChildren'
  BY DEF CreateListener, Inv, PoolsList, PoliciesList, NoLostChildren
<1> QED BY <1>2, <1>3, <1>4, <1>5, <1>6, <1>7, <1>8, <1>9 DEF Inv

\* A default pool that a client names is the client's affair.
LEMMA UpdateListenerKeeps ==
    ASSUME Inv, NEW l \in Listener, NEW d \in Pool, UpdateListener(l, d)
    PROVE  Inv'
<1> USE LoadBalancersAssumption DEF Here, Unborn
<1>1. TypeOK
  BY DEF Inv
<1>2. TypeOK'
  <2>1. listener' \in [Listener -> Listeners]
    BY <1>1 DEF UpdateListener, TypeOK, State, Listeners
  <2> QED BY <1>1, <2>1 DEF UpdateListener, TypeOK
<1>3. ParentsGiven'
  BY DEF UpdateListener, Inv, ParentsGiven
<1>4. BalancersList'
  BY DEF UpdateListener, Inv, BalancersList
<1>5. ListenersList'
  BY DEF UpdateListener, Inv, ListenersList
<1>6. DefaultsOwn'
  BY DEF UpdateListener, Inv, DefaultsOwn
<1>7. CascadeGone'
  BY DEF UpdateListener, Inv, CascadeGone
<1>8. PoolsList' /\ PoliciesList' /\ NoLostChildren' /\ MadeUpVipsApart'
  BY DEF UpdateListener, Inv, PoolsList, PoliciesList, NoLostChildren,
      MadeUpVipsApart
<1> QED BY <1>2, <1>3, <1>4, <1>5, <1>6, <1>7, <1>8 DEF Inv

\* A listener leaves its load balancer's list; its policies go on naming it.
LEMMA DeleteListenerKeeps ==
    ASSUME Inv, NEW l \in Listener, DeleteListener(l)
    PROVE  Inv'
<1> USE LoadBalancersAssumption DEF Here, Unborn
<1>1. TypeOK
  BY DEF Inv
<1>2. /\ \A k \in Listener :
             IF k = l THEN listener'[k].state = "gone" /\ listener'[k].lb = None
                           /\ listener'[k].default_pool = None
             ELSE /\ listener'[k].state = listener[k].state
                  /\ listener'[k].lb = listener[k].lb
                  /\ listener'[k].policies = listener[k].policies
                  /\ listener'[k].default_pool = listener[k].default_pool
      /\ \A b \in LoadBalancer :
             /\ balancer'[b].state = balancer[b].state
             /\ balancer'[b].vip = balancer[b].vip
             /\ \A x : x \in balancer'[b].listeners <=>
                   x \in balancer[b].listeners /\ ~(x = l /\ listener[x].lb = b)
             /\ balancer'[b].pools = balancer[b].pools
      /\ Here(listener[l])
      /\ named' = named \ {l}
      /\ UNCHANGED <<pool, member, monitor, policy, rule, nextVip, cascaded>>
  <2>1. /\ listener' = ListenersWithout({l}, {}, {})
        /\ balancer' = BalancersWithout({l}, {})
        /\ Here(listener[l])
        /\ named' = named \ {l}
        /\ UNCHANGED <<pool, member, monitor, policy, rule, nextVip, cascaded>>
    BY DEF DeleteListener
  <2>2. /\ listener' \in [Listener -> Listeners]
        /\ balancer' \in [LoadBalancer -> Balancers]
    BY <1>1, <2>1, ListenersWithoutIs, BalancersWithoutIs
  <2>3. /\ \A k \in Listener : listener'[k].policies \in SUBSET Policy
        /\ \A b \in LoadBalancer : balancer'[b].pools \in SUBSET Pool
    BY <2>2 DEF Listeners, Balancers
  <2>4. \A k \in Listener :
             IF k = l THEN listener'[k] = NoListener("gone")
             ELSE /\ listener'[k].state = listener[k].state
                  /\ listener'[k].lb = listener[k].lb
                  /\ \A y : y \in listener'[k].policies <=> y \in listener[k].policies
                  /\ listener'[k].default_pool = listener[k].default_pool
    BY <1>1, <2>1, ListenersWithoutIs
  <2>5. \A b \in LoadBalancer :
             /\ balancer'[b].state = balancer[b].state
             /\ balancer'[b].vip = balancer[b].vip
             /\ \A x : x \in balancer'[b].listeners <=>
                   x \in balancer[b].listeners /\ ~(x = l /\ listener[x].lb = b)
             /\ \A p : p \in balancer'[b].pools <=> p \in balancer[b].pools
    BY <1>1, <2>1, BalancersWithoutIs
  <2>6. ASSUME NEW k \in Listener, k # l PROVE listener'[k].policies = listener[k].policies
    <3>1. listener'[k].policies \in SUBSET Policy /\ listener[k].policies \in SUBSET Policy
      BY <1>1, <2>3, Links
    <3>2. \A y : y \in listener'[k].policies <=> y \in listener[k].policies
      BY <2>4, <2>6
    <3> QED BY <3>1, <3>2
  <2>7. ASSUME NEW b \in LoadBalancer PROVE balancer'[b].pools = balancer[b].pools
    <3>1. \A x : x \in balancer'[b].pools <=> x \in balancer[b].pools
      BY <2>5
    <3> QED BY <3>1
  <2>8. /\ listener'[l].state = "gone" /\ listener'[l].lb = None
        /\ listener'[l].default_pool = None
    BY <2>4 DEF NoListener
  <2> QED BY <2>1, <2>4, <2>5, <2>6, <2>7, <2>8
<1>3. TypeOK'
  <2>1. balancer' \in [LoadBalancer -> Balancers]
    BY <1>1, BalancersWithoutIs DEF DeleteListener, TypeOK
  <2>2. listener' \in [Listener -> Listeners]
    BY <1>1, ListenersWithoutIs DEF DeleteListener, TypeOK
  <2>3. /\ nextVip' \in Nat
        /\ \A x \in LoadBalancer : balancer'[x].vip # None => balancer'[x].vip < nextVip'
    BY <1>1, BalancersWithoutIs DEF DeleteListener, TypeOK, Balancers
  <2> QED BY <1>1, <2>1, <2>2, <2>3 DEF DeleteListener, TypeOK
<1>4. ParentsGiven'
  BY <1>1, <1>2, Links DEF Inv, ParentsGiven
<1>5. BalancersList'
  BY <1>2 DEF Inv, BalancersList
<1>6. ListenersList'
  BY <1>2 DEF Inv, ListenersList
<1>7. DefaultsOwn'
  BY <1>2 DEF Inv, DefaultsOwn
<1>8. CascadeGone'
  BY <1>1, <1>2, Links DEF Inv, CascadeGone
<1>9. MadeUpVipsApart'
  BY <1>2 DEF Inv, MadeUpVipsApart
<1>10. PoolsList' /\ PoliciesList' /\ NoLostChildren'
  BY DEF DeleteListener, Inv, PoolsList, PoliciesList, NoLostChildren
<1> QED BY <1>3, <1>4, <1>5, <1>6, <1>7, <1>8, <1>9, <1>10 DEF Inv

\* A new pool is listed by its load balancer and is its listener's default.
LEMMA CreatePoolKeeps ==
    ASSUME Inv, NEW p \in Pool, NEW b \in LoadBalancer \cup {None}, NEW l \in
           Listener \cup {None}, CreatePool(p, b, l)
    PROVE  Inv'
<1> USE LoadBalancersAssumption DEF Here, Unborn, NewPool
<1>1. TypeOK
  BY DEF Inv
<1>2. TypeOK'
  <2>1. pool' \in [Pool -> Pools]
    BY <1>1 DEF CreatePool, TypeOK, State, Balancers, Listeners, Pools
  <2>2. balancer' \in [LoadBalancer -> Balancers]
    <3>1. \A c \in LoadBalancer : balancer[c].pools \cup {p} \in SUBSET Pool
      BY <1>1 DEF TypeOK, Balancers
    <3>2. \A c \in LoadBalancer :
             [balancer[c] EXCEPT !.pools = balancer[c].pools \cup {p}] \in Balancers
      BY <1>1, <3>1, RecordChanges DEF TypeOK
    <3> QED BY <1>1, <3>2 DEF CreatePool, TypeOK
  <2>3. listener' \in [Listener -> Listeners]
    <3>1. \A k \in Listener : [listener[k] EXCEPT !.default_pool = p] \in Listeners
      BY <1>1, RecordChanges DEF TypeOK
    <3> QED BY <1>1, <3>1 DEF CreatePool, TypeOK
  <2>4. /\ nextVip' \in Nat
        /\ \A x \in LoadBalancer : balancer'[x].vip # None => balancer'[x].vip < nextVip'
    BY <1>1 DEF CreatePool, TypeOK, Balancers
  <2> QED BY <1>1, <2>1, <2>2, <2>3, <2>4 DEF CreatePool, TypeOK
<1>3. ParentsGiven'
  BY <1>1 DEF CreatePool, Inv, TypeOK, Balancers, Listeners, Pools, Members,
      Monitors, Policies, Rules, ParentsGiven
<1>4. BalancersList'
  BY <1>1 DEF CreatePool, Inv, TypeOK, Balancers, Listeners, Pools,
      ParentsGiven, BalancersList
<1>5. ListenersList'
  BY DEF CreatePool, Inv, ListenersList
<1>6. PoolsList'
  BY <1>1 DEF CreatePool, Inv, TypeOK, Pools, ParentsGiven, PoolsList,
      NoLostChildren
<1>7. NoLostChildren'
  BY DEF CreatePool, Inv, NoLostChildren
<1>8. DefaultsOwn'
  BY <1>1 DEF CreatePool, Inv, TypeOK, Listeners, Pools, DefaultsOwn
<1>9. CascadeGone'
  BY <1>1 DEF CreatePool, Inv, TypeOK, Balancers, Listeners, Pools,
      CascadeGone
<1>10. MadeUpVipsApart'
  BY DEF CreatePool, Inv, MadeUpVipsApart
<1>11. PoliciesList'
  BY DEF CreatePool, Inv, PoliciesList
<1> QED BY <1>2, <1>3, <1>4, <1>5, <1>6, <1>7, <1>8, <1>9, <1>10, <1>11 DEF
       Inv

\* A pool takes its members and its monitor along, and its listener forgets
\* it.
LEMMA DeletePoolKeeps ==
    ASSUME Inv, NEW p \in Pool, DeletePool(p)
    PROVE  Inv'
<1> USE LoadBalancersAssumption DEF Here, Unborn, NoPool, NoListener,
    NoMember, NoMonitor, PoolsWithout, MembersWithout, MonitorsWithout
<1>1. TypeOK
  BY DEF Inv
<1>2. /\ \A q \in Pool : pool'[q] = IF q = p THEN NoPool("gone") ELSE pool[q]
      /\ \A k \in Listener :
             /\ listener'[k].state = listener[k].state
             /\ listener'[k].lb = listener[k].lb
             /\ listener'[k].policies = listener[k].policies
             /\ listener'[k].default_pool =
                  IF listener[k].default_pool = p /\ pool[p].listener = k
                  THEN None ELSE listener[k].default_pool
      /\ \A b \in LoadBalancer :
             /\ balancer'[b].state = balancer[b].state
             /\ balancer'[b].vip = balancer[b].vip
             /\ balancer'[b].listeners = balancer[b].listeners
             /\ \A x : x \in balancer'[b].pools <=>
                   x \in balancer[b].pools /\ ~(x = p /\ pool[x].lb = b)
      /\ \A m \in Member :
             member'[m] = IF member[m].pool = p THEN NoMember("gone") ELSE member[m]
      /\ \A h \in Monitor :
             monitor'[h] = IF h = pool[p].monitor THEN NoMonitor("gone") ELSE monitor[h]
      /\ Here(pool[p])
      /\ UNCHANGED <<policy, rule, nextVip, named, cascaded>>
  <2>1. /\ listener' = ListenersWithout({}, {}, {p})
        /\ balancer' = BalancersWithout({}, {p})
        /\ pool' = PoolsWithout({p}) /\ member' = MembersWithout({p})
        /\ monitor' = MonitorsWithout({pool[p].monitor})
        /\ Here(pool[p])
        /\ UNCHANGED <<policy, rule, nextVip, named, cascaded>>
    BY DEF DeletePool
  <2>2. /\ listener' \in [Listener -> Listeners]
        /\ balancer' \in [LoadBalancer -> Balancers]
    BY <1>1, <2>1, ListenersWithoutIs, BalancersWithoutIs
  <2>3. /\ \A k \in Listener : listener'[k].policies \in SUBSET Policy
        /\ \A b \in LoadBalancer : balancer'[b].listeners \in SUBSET Listener
    BY <2>2 DEF Listeners, Balancers
  <2>4. \A k \in Listener :
             /\ listener'[k].state = listener[k].state
             /\ listener'[k].lb = listener[k].lb
             /\ \A y : y \in listener'[k].policies <=> y \in listener[k].policies
             /\ listener'[k].default_pool =
                  IF listener[k].default_pool = p /\ pool[p].listener = k
                  THEN None ELSE listener[k].default_pool
    BY <1>1, <2>1, ListenersWithoutIs
  <2>5. \A b \in LoadBalancer :
             /\ balancer'[b].state = balancer[b].state
             /\ balancer'[b].vip = balancer[b].vip
             /\ \A l : l \in balancer'[b].listeners <=> l \in balancer[b].listeners
             /\ \A x : x \in balancer'[b].pools <=>
                   x \in balancer[b].pools /\ ~(x = p /\ pool[x].lb = b)
    BY <1>1, <2>1, BalancersWithoutIs
  <2>6. ASSUME NEW k \in Listener PROVE listener'[k].policies = listener[k].policies
    <3>1. listener'[k].policies \in SUBSET Policy /\ listener[k].policies \in SUBSET Policy
      BY <1>1, <2>3, Links
    <3>2. \A y : y \in listener'[k].policies <=> y \in listener[k].policies
      BY <2>4
    <3> QED BY <3>1, <3>2
  <2>7. ASSUME NEW b \in LoadBalancer PROVE balancer'[b].listeners = balancer[b].listeners
    <3>1. \A x : x \in balancer'[b].listeners <=> x \in balancer[b].listeners
      BY <2>5
    <3> QED BY <3>1
  <2> QED BY <2>1, <2>4, <2>5, <2>6, <2>7
<1>3. TypeOK'
  <2>1. pool' \in [Pool -> Pools]
    BY <1>1 DEF DeletePool, TypeOK, State, Pools
  <2>2. balancer' \in [LoadBalancer -> Balancers]
    BY <1>1, BalancersWithoutIs DEF DeletePool, TypeOK
  <2>3. listener' \in [Listener -> Listeners]
    BY <1>1, ListenersWithoutIs DEF DeletePool, TypeOK
  <2>4. member' \in [Member -> Members]
    BY <1>1 DEF DeletePool, TypeOK, State, Members
  <2>5. monitor' \in [Monitor -> Monitors]
    BY <1>1 DEF DeletePool, TypeOK, State, Monitors
  <2>6. /\ nextVip' \in Nat
        /\ \A x \in LoadBalancer : balancer'[x].vip # None => balancer'[x].vip < nextVip'
    BY <1>1, BalancersWithoutIs DEF DeletePool, TypeOK, Balancers
  <2> QED BY <1>1, <2>1, <2>2, <2>3, <2>4, <2>5, <2>6 DEF DeletePool, TypeOK
<1>4. ParentsGiven'
  BY <1>1, <1>2, Links DEF Inv, ParentsGiven
<1>5. BalancersList'
  BY <1>2 DEF Inv, BalancersList
<1>6. ListenersList'
  BY <1>2 DEF Inv, ListenersList
<1>7. PoolsList'
  BY <1>2 DEF Inv, PoolsList
<1>8. NoLostChildren'
  BY <1>1, <1>2, Links DEF Inv, ParentsGiven, NoLostChildren
<1>9. DefaultsOwn'
  BY <1>1, <1>2, Links DEF Inv, DefaultsOwn
<1>10. CascadeGone'
  BY <1>1, <1>2, Links DEF Inv, CascadeGone
<1>11. MadeUpVipsApart'
  BY <1>2 DEF Inv, MadeUpVipsApart
<1>12. PoliciesList'
  BY DEF DeletePool, Inv, PoliciesList
<1> QED BY <1>3, <1>4, <1>5, <1>6, <1>7, <1>8, <1>9, <1>10, <1>11, <1>12 DEF
       Inv

\* A new member is listed by its pool.
LEMMA CreatePoolMemberKeeps ==
    ASSUME Inv, NEW m \in Member, NEW p \in Pool, NEW s \in Setting,
           CreatePoolMember(m, p, s)
    PROVE  Inv'
<1> USE LoadBalancersAssumption DEF Here, Unborn, NewMember
<1>1. TypeOK
  BY DEF Inv
<1>2. TypeOK'
  <2>1. member' \in [Member -> Members]
    BY <1>1 DEF CreatePoolMember, TypeOK, State, Members
  <2>2. pool' \in [Pool -> Pools]
    <3>1. pool[p].members \cup {m} \in SUBSET Member
      BY <1>1, Links
    <3>2. [pool[p] EXCEPT !.members = pool[p].members \cup {m}] \in Pools
      BY <1>1, <3>1, RecordChanges DEF TypeOK
    <3> QED BY <1>1, <3>2 DEF CreatePoolMember, TypeOK
  <2> QED BY <1>1, <2>1, <2>2 DEF CreatePoolMember, TypeOK
<1>3. ParentsGiven'
  BY DEF CreatePoolMember, Inv, ParentsGiven
<1>4. BalancersList'
  BY DEF CreatePoolMember, Inv, BalancersList
<1>5. PoolsList'
  BY <1>1 DEF CreatePoolMember, Inv, TypeOK, Pools, Members, ParentsGiven,
      PoolsList, NoLostChildren
<1>6. NoLostChildren'
  BY DEF CreatePoolMember, Inv, NoLostChildren
<1>7. DefaultsOwn'
  BY DEF CreatePoolMember, Inv, DefaultsOwn
<1>8. CascadeGone'
  BY DEF CreatePoolMember, Inv, CascadeGone
<1>9. ListenersList' /\ PoliciesList' /\ MadeUpVipsApart'
  BY DEF CreatePoolMember, Inv, ListenersList, PoliciesList, MadeUpVipsApart
<1> QED BY <1>2, <1>3, <1>4, <1>5, <1>6, <1>7, <1>8, <1>9 DEF Inv

\* A member keeps its pool.
LEMMA UpdatePoolMemberKeeps ==
    ASSUME Inv, NEW m \in Member, NEW s \in Setting, UpdatePoolMember(m, s)
    PROVE  Inv'
<1> USE LoadBalancersAssumption DEF Here, Unborn
<1>1. TypeOK
  BY DEF Inv
<1>2. TypeOK'
  <2>1. member' \in [Member -> Members]
    BY <1>1 DEF UpdatePoolMember, TypeOK, State, Members
  <2> QED BY <1>1, <2>1 DEF UpdatePoolMember, TypeOK
<1>3. ParentsGiven'
  BY DEF UpdatePoolMember, Inv, ParentsGiven
<1>4. PoolsList'
  BY DEF UpdatePoolMember, Inv, PoolsList
<1>5. NoLostChildren'
  BY DEF UpdatePoolMember, Inv, NoLostChildren
<1>6. BalancersList' /\ ListenersList' /\ PoliciesList' /\ DefaultsOwn' /\
      CascadeGone' /\ MadeUpVipsApart'
  BY DEF UpdatePoolMember, Inv, BalancersList, ListenersList, PoliciesList,
      DefaultsOwn, CascadeGone, MadeUpVipsApart
<1> QED BY <1>2, <1>3, <1>4, <1>5, <1>6 DEF Inv

\* A member leaves its pool's list.
LEMMA DeletePoolMemberKeeps ==
    ASSUME Inv, NEW m \in Member, DeletePoolMember(m)
    PROVE  Inv'
<1> USE LoadBalancersAssumption DEF Here, Unborn, NoMember
<1>1. TypeOK
  BY DEF Inv
<1>2. TypeOK'
  <2>1. member' \in [Member -> Members]
    BY <1>1 DEF DeletePoolMember, TypeOK, State, Members
  <2>2. pool' \in [Pool -> Pools]
    BY <1>1 DEF DeletePoolMember, TypeOK, State, Pools
  <2> QED BY <1>1, <2>1, <2>2 DEF DeletePoolMember, TypeOK
<1>3. ParentsGiven'
  BY DEF DeletePoolMember, Inv, ParentsGiven
<1>4. BalancersList'
  BY DEF DeletePoolMember, Inv, BalancersList
<1>5. PoolsList'
  BY <1>1 DEF DeletePoolMember, Inv, TypeOK, Pools, Members, PoolsList
<1>6. NoLostChildren'
  BY <1>1 DEF DeletePoolMember, Inv, TypeOK, Pools, Members, Monitors,
      Policies, Rules, ParentsGiven, NoLostChildren
<1>7. DefaultsOwn'
  BY <1>1 DEF DeletePoolMember, Inv, TypeOK, Listeners, Pools, ParentsGiven,
      DefaultsOwn
<1>8. CascadeGone'
  BY DEF DeletePoolMember, Inv, CascadeGone
<1>9. ListenersList' /\ PoliciesList' /\ MadeUpVipsApart'
  BY DEF DeletePoolMember, Inv, ListenersList, PoliciesList, MadeUpVipsApart
<1> QED BY <1>2, <1>3, <1>4, <1>5, <1>6, <1>7, <1>8, <1>9 DEF Inv

\* A pool without a monitor and its new monitor name each other.
LEMMA CreateHealthMonitorKeeps ==
    ASSUME Inv, NEW h \in Monitor, NEW p \in Pool, CreateHealthMonitor(h, p)
    PROVE  Inv'
<1> USE LoadBalancersAssumption DEF Here, Unborn, NewMonitor
<1>1. TypeOK
  BY DEF Inv
<1>2. TypeOK'
  <2>1. monitor' \in [Monitor -> Monitors]
    BY <1>1 DEF CreateHealthMonitor, TypeOK, State, Monitors
  <2>2. pool' \in [Pool -> Pools]
    <3>1. [pool[p] EXCEPT !.monitor = h] \in Pools
      BY <1>1, RecordChanges DEF TypeOK
    <3> QED BY <1>1, <3>1 DEF CreateHealthMonitor, TypeOK
  <2> QED BY <1>1, <2>1, <2>2 DEF CreateHealthMonitor, TypeOK
<1>3. ParentsGiven'
  BY DEF CreateHealthMonitor, Inv, ParentsGiven
<1>4. BalancersList'
  BY DEF CreateHealthMonitor, Inv, BalancersList
<1>5. PoolsList'
  BY DEF CreateHealthMonitor, Inv, PoolsList
<1>6. NoLostChildren'
  BY <1>1 DEF CreateHealthMonitor, Inv, TypeOK, Pools, Monitors,
      NoLostChildren
<1>7. DefaultsOwn'
  BY DEF CreateHealthMonitor, Inv, DefaultsOwn
<1>8. CascadeGone'
  BY DEF CreateHealthMonitor, Inv, CascadeGone
<1>9. ListenersList' /\ PoliciesList' /\ MadeUpVipsApart'
  BY DEF CreateHealthMonitor, Inv, ListenersList, PoliciesList,
      MadeUpVipsApart
<1> QED BY <1>2, <1>3, <1>4, <1>5, <1>6, <1>7, <1>8, <1>9 DEF Inv

\* A pool forgets the monitor that goes.
LEMMA DeleteHealthMonitorKeeps ==
    ASSUME Inv, NEW h \in Monitor, DeleteHealthMonitor(h)
    PROVE  Inv'
<1> USE LoadBalancersAssumption DEF Here, Unborn, NoMonitor, MonitorsWithout
<1>1. TypeOK
  BY DEF Inv
<1>2. TypeOK'
  <2>1. monitor' \in [Monitor -> Monitors]
    BY <1>1 DEF DeleteHealthMonitor, TypeOK, State, Monitors
  <2>2. pool' \in [Pool -> Pools]
    <3>1. \A p \in Pool : [pool[p] EXCEPT !.monitor = None] \in Pools
      BY <1>1, RecordChanges DEF TypeOK
    <3> QED BY <1>1, <3>1 DEF DeleteHealthMonitor, TypeOK
  <2> QED BY <1>1, <2>1, <2>2 DEF DeleteHealthMonitor, TypeOK
<1>3. ParentsGiven'
  BY DEF DeleteHealthMonitor, Inv, ParentsGiven
<1>4. BalancersList'
  BY DEF DeleteHealthMonitor, Inv, BalancersList
<1>5. PoolsList'
  BY DEF DeleteHealthMonitor, Inv, PoolsList
<1>6. NoLostChildren'
  BY <1>1 DEF DeleteHealthMonitor, Inv, TypeOK, Pools, Members, Monitors,
      Policies, Rules, ParentsGiven, NoLostChildren
<1>7. DefaultsOwn'
  BY <1>1 DEF DeleteHealthMonitor, Inv, TypeOK, Listeners, Pools,
      ParentsGiven, DefaultsOwn
<1>8. CascadeGone'
  BY DEF DeleteHealthMonitor, Inv, CascadeGone
<1>9. ListenersList' /\ PoliciesList' /\ MadeUpVipsApart'
  BY DEF DeleteHealthMonitor, Inv, ListenersList, PoliciesList,
      MadeUpVipsApart
<1> QED BY <1>2, <1>3, <1>4, <1>5, <1>6, <1>7, <1>8, <1>9 DEF Inv

\* A new policy is listed by its listener.
LEMMA CreateL7PolicyKeeps ==
    ASSUME Inv, NEW y \in Policy, NEW l \in Listener, CreateL7Policy(y, l)
    PROVE  Inv'
<1> USE LoadBalancersAssumption DEF Here, Unborn, NewPolicy
<1>1. TypeOK
  BY DEF Inv
<1>2. /\ \A x \in Policy : policy'[x] = IF x = y THEN NewPolicy(l) ELSE policy[x]
      /\ Unborn(policy[y])
      /\ UNCHANGED rule
  BY <1>1 DEF CreateL7Policy, TypeOK
<1>3. TypeOK'
  <2>1. policy' \in [Policy -> Policies]
    BY <1>1 DEF CreateL7Policy, TypeOK, State, Policies
  <2>2. listener' \in [Listener -> Listeners]
    <3>1. listener[l].policies \cup {y} \in SUBSET Policy
      BY <1>1 DEF TypeOK, Listeners
    <3>2. [listener[l] EXCEPT !.policies = listener[l].policies \cup {y}] \in Listeners
      BY <1>1, <3>1, RecordChanges DEF TypeOK
    <3> QED BY <1>1, <3>2 DEF CreateL7Policy, TypeOK
  <2> QED BY <1>1, <2>1, <2>2 DEF CreateL7Policy, TypeOK
<1>4. ParentsGiven'
  BY DEF CreateL7Policy, Inv, ParentsGiven
<1>5. BalancersList'
  BY DEF CreateL7Policy, Inv, BalancersList
<1>6. ListenersList'
  BY <1>1 DEF CreateL7Policy, Inv, TypeOK, Listeners, Policies, ParentsGiven,
      ListenersList
<1>7. PoliciesList'
  BY <1>1, <1>2, Links DEF Inv, ParentsGiven, PoliciesList, NoLostChildren
<1>8. NoLostChildren'
  BY DEF CreateL7Policy, Inv, NoLostChildren
<1>9. DefaultsOwn'
  BY DEF CreateL7Policy, Inv, DefaultsOwn
<1>10. CascadeGone'
  BY DEF CreateL7Policy, Inv, CascadeGone
<1>11. PoolsList' /\ MadeUpVipsApart'
  BY DEF CreateL7Policy, Inv, PoolsList, MadeUpVipsApart
<1> QED BY <1>3, <1>4, <1>5, <1>6, <1>7, <1>8, <1>9, <1>10, <1>11 DEF Inv

\* A policy takes its rules along and leaves its listener's list.
LEMMA DeleteL7PolicyKeeps ==
    ASSUME Inv, NEW y \in Policy, DeleteL7Policy(y)
    PROVE  Inv'
<1> USE LoadBalancersAssumption DEF Here, Unborn, NoPolicy, NoListener,
    NoRule, PoliciesWithout, RulesWithout
<1>1. TypeOK
  BY DEF Inv
<1>2. /\ \A x \in Policy : policy'[x] = IF x = y THEN NoPolicy("gone") ELSE policy[x]
      /\ \A r \in Rule :
             rule'[r] = IF rule[r].policy = y THEN NoRule("gone") ELSE rule[r]
      /\ \A k \in Listener :
             /\ listener'[k].state = listener[k].state
             /\ listener'[k].lb = listener[k].lb
             /\ listener'[k].default_pool = listener[k].default_pool
             /\ \A x : x \in listener'[k].policies <=>
                   x \in listener[k].policies /\ ~(x = y /\ policy[x].listener = k)
      /\ Here(policy[y])
      /\ UNCHANGED <<balancer, pool, member, monitor, nextVip, named, cascaded>>
  <2>1. listener' = ListenersWithout({}, {y}, {})
    BY DEF DeleteL7Policy
  <2>2. \A k \in Listener :
             /\ listener'[k].state = listener[k].state
             /\ listener'[k].lb = listener[k].lb
             /\ listener'[k].default_pool = listener[k].default_pool
             /\ \A x : x \in listener'[k].policies <=>
                   x \in listener[k].policies /\ ~(x = y /\ policy[x].listener = k)
    BY <1>1, <2>1, ListenersWithoutIs
  <2> QED BY <1>1, <2>2 DEF DeleteL7Policy, TypeOK
<1>3. TypeOK'
  <2>1. policy' \in [Policy -> Policies]
    BY <1>1 DEF DeleteL7Policy, TypeOK, State, Policies
  <2>2. rule' \in [Rule -> Rules]
    BY <1>1 DEF DeleteL7Policy, TypeOK, State, Rules
  <2>3. listener' \in [Listener -> Listeners]
    BY <1>1, ListenersWithoutIs DEF DeleteL7Policy, TypeOK
  <2> QED BY <1>1, <2>1, <2>2, <2>3 DEF DeleteL7Policy, TypeOK
<1>4. ParentsGiven'
  BY <1>1, <1>2, Links DEF Inv, ParentsGiven
<1>5. BalancersList'
  BY <1>2 DEF Inv, BalancersList
<1>6. ListenersList'
  BY <1>2 DEF Inv, ListenersList
<1>7. PoliciesList'
  BY <1>2 DEF Inv, PoliciesList
<1>8. NoLostChildren'
  BY <1>1, <1>2, Links DEF Inv, ParentsGiven, NoLostChildren
<1>9. DefaultsOwn'
  BY <1>2 DEF Inv, DefaultsOwn
<1>10. CascadeGone'
  BY <1>2 DEF Inv, CascadeGone
<1>11. PoolsList' /\ MadeUpVipsApart'
  BY DEF DeleteL7Policy, Inv, PoolsList, MadeUpVipsApart
<1> QED BY <1>3, <1>4, <1>5, <1>6, <1>7, <1>8, <1>9, <1>10, <1>11 DEF Inv

\* A new rule is listed by its policy.
LEMMA CreateL7RuleKeeps ==
    ASSUME Inv, NEW r \in Rule, NEW y \in Policy, CreateL7Rule(r, y)
    PROVE  Inv'
<1> USE LoadBalancersAssumption DEF Here, Unborn, NewRule
<1>1. TypeOK
  BY DEF Inv
<1>2. TypeOK'
  <2>1. rule' \in [Rule -> Rules]
    BY <1>1 DEF CreateL7Rule, TypeOK, State, Rules
  <2>2. policy' \in [Policy -> Policies]
    BY <1>1 DEF CreateL7Rule, TypeOK, State, Policies
  <2> QED BY <1>1, <2>1, <2>2 DEF CreateL7Rule, TypeOK
<1>3. ParentsGiven'
  BY DEF CreateL7Rule, Inv, ParentsGiven
<1>4. ListenersList'
  BY DEF CreateL7Rule, Inv, ListenersList
<1>5. PoliciesList'
  BY <1>1 DEF CreateL7Rule, Inv, TypeOK, Policies, Rules, ParentsGiven,
      PoliciesList, NoLostChildren
<1>6. NoLostChildren'
  BY DEF CreateL7Rule, Inv, NoLostChildren
<1>7. BalancersList' /\ PoolsList' /\ DefaultsOwn' /\ CascadeGone' /\
      MadeUpVipsApart'
  BY DEF CreateL7Rule, Inv, BalancersList, PoolsList, DefaultsOwn,
      CascadeGone, MadeUpVipsApart
<1> QED BY <1>2, <1>3, <1>4, <1>5, <1>6, <1>7 DEF Inv

\* A rule leaves its policy's list.
LEMMA DeleteL7RuleKeeps ==
    ASSUME Inv, NEW r \in Rule, DeleteL7Rule(r)
    PROVE  Inv'
<1> USE LoadBalancersAssumption DEF Here, Unborn, NoRule
<1>1. TypeOK
  BY DEF Inv
<1>2. TypeOK'
  <2>1. rule' \in [Rule -> Rules]
    BY <1>1 DEF DeleteL7Rule, TypeOK, State, Rules
  <2>2. policy' \in [Policy -> Policies]
    <3>1. \A y \in Policy : policy[y].rules \ {r} \in SUBSET Rule
      BY <1>1 DEF TypeOK, Policies
    <3>2. \A y \in Policy :
             [policy[y] EXCEPT !.rules = policy[y].rules \ {r}] \in Policies
      BY <1>1, <3>1, RecordChanges DEF TypeOK
    <3> QED BY <1>1, <3>2 DEF DeleteL7Rule, TypeOK
  <2> QED BY <1>1, <2>1, <2>2 DEF DeleteL7Rule, TypeOK
<1>3. ParentsGiven'
  BY DEF DeleteL7Rule, Inv, ParentsGiven
<1>4. ListenersList'
  BY DEF DeleteL7Rule, Inv, ListenersList
<1>5. PoliciesList'
  BY <1>1 DEF DeleteL7Rule, Inv, TypeOK, Policies, Rules, PoliciesList
<1>6. NoLostChildren'
  BY <1>1 DEF DeleteL7Rule, Inv, TypeOK, Policies, Rules, ParentsGiven,
      NoLostChildren
<1>7. BalancersList' /\ PoolsList' /\ DefaultsOwn' /\ CascadeGone' /\
      MadeUpVipsApart'
  BY DEF DeleteL7Rule, Inv, BalancersList, PoolsList, DefaultsOwn,
      CascadeGone, MadeUpVipsApart
<1> QED BY <1>2, <1>3, <1>4, <1>5, <1>6, <1>7 DEF Inv

\* A restart changes only what the lists show.
LEMMA RestartKeeps ==
    ASSUME Inv, Restart
    PROVE  Inv'
<1> USE LoadBalancersAssumption DEF Here, Unborn, Frozen
<1>1. TypeOK
  BY DEF Inv
<1>2. TypeOK'
  <2>1. listener' \in [Listener -> Listeners]
    <3>1. \A k \in Listener : Frozen(listener[k].shown, listener[k].default_pool) \in Pool \cup {None, Same}
      BY <1>1 DEF TypeOK, Listeners
    <3>2. \A k \in Listener :
             [listener[k] EXCEPT !.shown = Frozen(listener[k].shown, listener[k].default_pool)] \in Listeners
      <4> HIDE DEF Frozen
      <4> QED BY <1>1, <3>1, RecordChanges DEF TypeOK
    <3> HIDE DEF Frozen
    <3> QED BY <1>1, <3>2 DEF Restart, TypeOK
  <2>2. member' \in [Member -> Members]
    <3>1. \A x \in Member : Frozen(member[x].shown, member[x].setting) \in Setting \cup {None, Same}
      BY <1>1 DEF TypeOK, Members
    <3>2. \A x \in Member :
             [member[x] EXCEPT !.shown = Frozen(member[x].shown, member[x].setting)] \in Members
      <4> HIDE DEF Frozen
      <4> QED BY <1>1, <3>1, RecordChanges DEF TypeOK
    <3> HIDE DEF Frozen
    <3> QED BY <1>1, <3>2 DEF Restart, TypeOK
  <2>3. policy' \in [Policy -> Policies]
    <3>1. \A y \in Policy : Frozen(policy[y].shown, policy[y].rules) \in (SUBSET Rule) \cup {Same}
      BY <1>1 DEF TypeOK, Policies
    <3>2. \A y \in Policy :
             [policy[y] EXCEPT !.shown = Frozen(policy[y].shown, policy[y].rules)] \in Policies
      <4> HIDE DEF Frozen
      <4> QED BY <1>1, <3>1, RecordChanges DEF TypeOK
    <3> HIDE DEF Frozen
    <3> QED BY <1>1, <3>2 DEF Restart, TypeOK
  <2> QED BY <1>1, <2>1, <2>2, <2>3 DEF Restart, TypeOK
<1>3. ParentsGiven'
  BY <1>1 DEF Restart, Inv, TypeOK, Listeners, Members, Policies, ParentsGiven
<1>4. BalancersList'
  BY DEF Restart, Inv, BalancersList
<1>5. ListenersList'
  BY DEF Restart, Inv, ListenersList
<1>6. PoolsList'
  BY DEF Restart, Inv, PoolsList
<1>7. PoliciesList'
  BY DEF Restart, Inv, PoliciesList
<1>8. NoLostChildren'
  BY <1>1 DEF Restart, Inv, TypeOK, Pools, Members, Monitors, Policies, Rules,
      ParentsGiven, NoLostChildren
<1>9. DefaultsOwn'
  BY DEF Restart, Inv, DefaultsOwn
<1>10. CascadeGone'
  BY DEF Restart, Inv, CascadeGone
<1>11. MadeUpVipsApart'
  BY DEF Restart, Inv, MadeUpVipsApart
<1> QED BY <1>2, <1>3, <1>4, <1>5, <1>6, <1>7, <1>8, <1>9, <1>10, <1>11 DEF
       Inv

----------------------------------------------------------------------------
(* The theorems.                                                           *)

\* Nothing is there at first.
LEMMA InitInv ==
    Init => Inv
<1> SUFFICES ASSUME Init PROVE Inv
  OBVIOUS
<1> USE LoadBalancersAssumption
        DEF Init, Here, Unborn, NoBalancer, NoListener, NoPool, NoMember, NoMonitor,
            NoPolicy, NoRule
<1>1. TypeOK
  BY DEF TypeOK, State, Balancers, Listeners, Pools, Members, Monitors, Policies, Rules
<1>2. ParentsGiven
  BY DEF ParentsGiven
<1>3. BalancersList /\ ListenersList /\ PoolsList /\ PoliciesList
  BY DEF BalancersList, ListenersList, PoolsList, PoliciesList
<1>4. NoLostChildren /\ DefaultsOwn /\ CascadeGone /\ MadeUpVipsApart
  BY DEF NoLostChildren, DefaultsOwn, CascadeGone, MadeUpVipsApart
<1> QED BY <1>1, <1>2, <1>3, <1>4 DEF Inv

\* The invariant holds always: one lemma per action, and steps that change
\* nothing.
THEOREM Invariance == Spec => []Inv
<1>1. Init => Inv
  BY InitInv
<1>2. Inv /\ [Next]_vars => Inv'
  <2> SUFFICES ASSUME Inv, [Next]_vars PROVE Inv'
    OBVIOUS
  <2>1. ASSUME NEW b \in LoadBalancer, NEW madeUp \in BOOLEAN,
               CreateLoadBalancer(b, madeUp)
        PROVE  Inv'
    BY <2>1, CreateLoadBalancerKeeps
  <2>2. ASSUME NEW b \in LoadBalancer, DeleteLoadBalancer(b)
        PROVE  Inv'
    BY <2>2, DeleteLoadBalancerKeeps
  <2>3. ASSUME NEW b \in LoadBalancer, CascadeDelete(b)
        PROVE  Inv'
    BY <2>3, CascadeDeleteKeeps
  <2>4. ASSUME NEW l \in Listener, NEW b \in LoadBalancer, NEW d \in Pool \cup
               {None}, CreateListener(l, b, d)
        PROVE  Inv'
    BY <2>4, CreateListenerKeeps
  <2>5. ASSUME NEW l \in Listener, NEW d \in Pool, UpdateListener(l, d)
        PROVE  Inv'
    BY <2>5, UpdateListenerKeeps
  <2>6. ASSUME NEW l \in Listener, DeleteListener(l)
        PROVE  Inv'
    BY <2>6, DeleteListenerKeeps
  <2>7. ASSUME NEW p \in Pool, NEW b \in LoadBalancer \cup {None}, NEW l \in
               Listener \cup {None}, CreatePool(p, b, l)
        PROVE  Inv'
    BY <2>7, CreatePoolKeeps
  <2>8. ASSUME NEW p \in Pool, DeletePool(p)
        PROVE  Inv'
    BY <2>8, DeletePoolKeeps
  <2>9. ASSUME NEW m \in Member, NEW p \in Pool, NEW s \in Setting,
               CreatePoolMember(m, p, s)
        PROVE  Inv'
    BY <2>9, CreatePoolMemberKeeps
  <2>10. ASSUME NEW m \in Member, NEW s \in Setting, UpdatePoolMember(m, s)
        PROVE  Inv'
    BY <2>10, UpdatePoolMemberKeeps
  <2>11. ASSUME NEW m \in Member, DeletePoolMember(m)
        PROVE  Inv'
    BY <2>11, DeletePoolMemberKeeps
  <2>12. ASSUME NEW h \in Monitor, NEW p \in Pool, CreateHealthMonitor(h, p)
        PROVE  Inv'
    BY <2>12, CreateHealthMonitorKeeps
  <2>13. ASSUME NEW h \in Monitor, DeleteHealthMonitor(h)
        PROVE  Inv'
    BY <2>13, DeleteHealthMonitorKeeps
  <2>14. ASSUME NEW y \in Policy, NEW l \in Listener, CreateL7Policy(y, l)
        PROVE  Inv'
    BY <2>14, CreateL7PolicyKeeps
  <2>15. ASSUME NEW y \in Policy, DeleteL7Policy(y)
        PROVE  Inv'
    BY <2>15, DeleteL7PolicyKeeps
  <2>16. ASSUME NEW r \in Rule, NEW y \in Policy, CreateL7Rule(r, y)
        PROVE  Inv'
    BY <2>16, CreateL7RuleKeeps
  <2>17. ASSUME NEW r \in Rule, DeleteL7Rule(r)
        PROVE  Inv'
    BY <2>17, DeleteL7RuleKeeps
  <2>18. CASE Restart
    BY <2>18, RestartKeeps
  <2>19. CASE UNCHANGED vars
    BY <2>19 DEF vars, Inv, TypeOK, ParentsGiven, BalancersList, ListenersList, PoolsList,
       PoliciesList, NoLostChildren, DefaultsOwn, CascadeGone, MadeUpVipsApart
  <2> QED
    BY <2>1, <2>2, <2>3, <2>4, <2>5, <2>6, <2>7, <2>8, <2>9, <2>10, <2>11,
       <2>12, <2>13, <2>14, <2>15, <2>16, <2>17, <2>18, <2>19
    DEF Next, LoadBalancerRequests, ListenerRequests, PoolRequests, MemberRequests,
        HealthMonitorRequests, L7PolicyRequests, L7RuleRequests
<1> QED BY <1>1, <1>2, PTL DEF Spec

\* The dictionaries hold what they are declared to hold, and the VIP counter is
\* ahead of every VIP it gave.
THEOREM TypeCorrect == Spec => []TypeOK
<1>1. Inv => TypeOK
  BY DEF Inv
<1> QED BY <1>1, Invariance, PTL

\* What a parent lists is what names it, through all deletions, cascades and
\* restarts.
THEOREM ListsAreComplete == Spec => []ParentsListChildren
<1>1. Inv => ParentsListChildren
  BY DEF Inv, BalancersList, ListenersList, PoolsList, PoliciesList, ParentsListChildren
<1> QED BY <1>1, Invariance, PTL

\* No member, monitor or rule outlives what it is reached through.
THEOREM ChildrenAreKept == Spec => []NoLostChildren
<1>1. Inv => NoLostChildren
  BY DEF Inv
<1> QED BY <1>1, Invariance, PTL

\* A default pool that no client named is there.
THEOREM DefaultsExist == Spec => []DefaultPoolIsThere
<1>1. Inv => DefaultPoolIsThere
  BY DEF Inv, DefaultsOwn, DefaultPoolIsThere
<1> QED BY <1>1, Invariance, PTL

\* A cascade leaves nothing that names the load balancer, then or later.
THEOREM CascadesFinish == Spec => []CascadeIsComplete
<1>1. Inv => CascadeIsComplete
  BY DEF Inv, CascadeGone, CascadeIsComplete
<1> QED BY <1>1, Invariance, PTL

\* No VIP is made up twice.
THEOREM VipsApart == Spec => []MadeUpVipsApart
<1>1. Inv => MadeUpVipsApart
  BY DEF Inv
<1> QED BY <1>1, Invariance, PTL

(***************************************************************************)
(* Block storage.  A deletion is always saved, and nothing that is not     *)
(* saved deletes: so what the file has lost, memory has not, and what      *)
(* memory has lost is lost in the file (DeletionsSaved).                   *)
(***************************************************************************)

(* What the constructors make.                                             *)
LEMMA VolumeMade ==
    ASSUME NEW p \in Project, NEW n \in Sizes, NEW label \in Label, NEW x \in BOOLEAN
    PROVE  /\ NewVolume(p, n, label, x) \in VolumeRecord
           /\ NewVolume(p, n, label, x).size = n
  BY DEF NewVolume, VolumeRecord

LEMMA SnapshotMade ==
    ASSUME NEW p \in Project, NEW v \in Volume, NEW n \in Sizes, NEW label \in Label
    PROVE  /\ NewSnapshot(p, v, n, label) \in SnapshotRecord
           /\ NewSnapshot(p, v, n, label).volume = v
           /\ NewSnapshot(p, v, n, label).size = n
  BY DEF NewSnapshot, SnapshotRecord

LEMMA BackupMade ==
    ASSUME NEW p \in Project, NEW v \in Volume, NEW n \in Sizes
    PROVE  /\ NewBackup(p, v, n) \in BackupRecord
           /\ NewBackup(p, v, n).volume = v /\ NewBackup(p, v, n).size = n
  BY DEF NewBackup, BackupRecord

LEMMA TransferMade ==
    ASSUME NEW p \in Project, NEW v \in Volume, NEW x \in BOOLEAN
    PROVE  NewTransfer(p, v, x) \in TransferRecord
  BY DEF NewTransfer, TransferRecord

(* A record is there.                                                      *)
LEMMA RecordsAreThere ==
    ASSUME NEW x \in Records
    PROVE  IsThere(x)
  BY BlockStorageAssumption DEF BlockStorageAssumption, IsThere

(* The parts of an image of the stores.                                    *)
LEMMA ImageParts ==
    ASSUME NEW a, NEW b, NEW c, NEW d, NEW e, NEW f
    PROVE  /\ Image(a, b, c, d, e, f).volume = a /\ Image(a, b, c, d, e, f).snapshot = b
           /\ Image(a, b, c, d, e, f).backup = c /\ Image(a, b, c, d, e, f).transfer = d
           /\ Image(a, b, c, d, e, f).group = e /\ Image(a, b, c, d, e, f).groupSnapshot = f
  BY DEF Image

(* A deletion is in the file.                                              *)
DeletionsSaved ==
    AutoSave =>
        /\ \A v \in Volume : volume[v] = Gone => disk.volume[v] = Gone
        /\ \A s \in Snapshot : snapshot[s] = Gone => disk.snapshot[s] = Gone

(* The inductive invariant.                                                *)
CinderInv == CinderTypeOK /\ SizesFit /\ DeletionsSaved

(* The stores, one by one.                                                 *)
LEMMA StoresInMemory ==
    CinderTypeOK =>
        /\ volume \in [Volume -> OrNone(VolumeRecord)]
        /\ snapshot \in [Snapshot -> OrNone(SnapshotRecord)]
        /\ backup \in [Backup -> OrNone(BackupRecord)]
        /\ transfer \in [Transfer -> OrNone(TransferRecord)]
        /\ group \in [Group -> OrNone(GroupRecord)]
        /\ groupSnapshot \in [GroupSnapshot -> OrNone(GroupSnapshotRecord)]
  BY ImageParts DEF CinderTypeOK, StoresOK, Memory

LEMMA MemoryTyped ==
    ASSUME volume' \in [Volume -> OrNone(VolumeRecord)],
           snapshot' \in [Snapshot -> OrNone(SnapshotRecord)],
           backup' \in [Backup -> OrNone(BackupRecord)],
           transfer' \in [Transfer -> OrNone(TransferRecord)],
           group' \in [Group -> OrNone(GroupRecord)],
           groupSnapshot' \in [GroupSnapshot -> OrNone(GroupSnapshotRecord)]
    PROVE  StoresOK(Memory)'
  BY ImageParts DEF StoresOK, Memory

(* What fits, without the image.                                           *)
LEMMA FitInMemory ==
    SizesFitIn(Memory) <=>
        /\ \A s \in Snapshot : IsThere(snapshot[s]) =>
               /\ volume[snapshot[s].volume] # NotMade
               /\ IsThere(volume[snapshot[s].volume]) =>
                      snapshot[s].size <= volume[snapshot[s].volume].size
        /\ \A b \in Backup : IsThere(backup[b]) =>
               /\ volume[backup[b].volume] # NotMade
               /\ IsThere(volume[backup[b].volume]) =>
                      backup[b].size <= volume[backup[b].volume].size
  BY ImageParts DEF SizesFitIn, Memory

(* What is there is a record, and sizes are numbers.                       *)
LEMMA ThereRecords ==
    ASSUME CinderTypeOK
    PROVE  /\ \A v \in Volume : IsThere(volume[v]) =>
                  /\ volume[v] \in VolumeRecord /\ volume[v].size \in Nat
                  /\ volume[v].size \in Sizes /\ volume[v].owner \in Project
                  /\ volume[v].label \in Label /\ volume[v].inUse \in BOOLEAN
           /\ \A s \in Snapshot : IsThere(snapshot[s]) =>
                  /\ snapshot[s] \in SnapshotRecord /\ snapshot[s].volume \in Volume
                  /\ snapshot[s].size \in Nat
           /\ \A b \in Backup : IsThere(backup[b]) =>
                  /\ backup[b] \in BackupRecord /\ backup[b].volume \in Volume
                  /\ backup[b].size \in Nat
<1>1. \A n \in Sizes : n \in Nat
  BY BlockStorageAssumption DEF BlockStorageAssumption, Sizes
<1>2. \A v \in Volume : IsThere(volume[v]) => volume[v] \in VolumeRecord
  BY StoresInMemory DEF IsThere, OrNone
<1>3. \A s \in Snapshot : IsThere(snapshot[s]) => snapshot[s] \in SnapshotRecord
  BY StoresInMemory DEF IsThere, OrNone
<1>4. \A b \in Backup : IsThere(backup[b]) => backup[b] \in BackupRecord
  BY StoresInMemory DEF IsThere, OrNone
<1> QED BY <1>1, <1>2, <1>3, <1>4 DEF VolumeRecord, SnapshotRecord, BackupRecord

(* Volumes only come, grow and go.                                         *)
VolumesGrow ==
    \A w \in Volume : volume[w] # NotMade =>
        /\ volume'[w] # NotMade
        /\ IsThere(volume'[w]) => IsThere(volume[w]) /\ volume[w].size <= volume'[w].size

LEMMA GrowingFits ==
    ASSUME CinderTypeOK, SizesFitIn(Memory), VolumesGrow,
           volume' \in [Volume -> OrNone(VolumeRecord)],
           UNCHANGED <<snapshot, backup>>
    PROVE  SizesFitIn(Memory)'
<1>1. \A v \in Volume : IsThere(volume'[v]) => volume'[v].size \in Nat
  BY BlockStorageAssumption
     DEF IsThere, OrNone, VolumeRecord, BlockStorageAssumption, Sizes
<1>2. ASSUME NEW v \in Volume, NEW n \in Nat, volume[v] # NotMade,
             IsThere(volume[v]) => n <= volume[v].size
      PROVE  volume'[v] # NotMade /\ (IsThere(volume'[v]) => n <= volume'[v].size)
  <2>1. CASE IsThere(volume'[v])
    <3>1. IsThere(volume[v]) /\ volume[v].size <= volume'[v].size
      BY <1>2, <2>1 DEF VolumesGrow
    <3>2. volume[v].size \in Nat /\ volume'[v].size \in Nat
      BY <1>1, <2>1, <3>1, ThereRecords
    <3> QED BY <1>2, <2>1, <3>1, <3>2 DEF IsThere
  <2>2. CASE ~IsThere(volume'[v])
    BY <1>2, <2>2 DEF VolumesGrow
  <2> QED BY <2>1, <2>2
<1>3. ASSUME NEW s \in Snapshot, IsThere(snapshot[s])
      PROVE  /\ volume'[snapshot[s].volume] # NotMade
             /\ IsThere(volume'[snapshot[s].volume]) =>
                    snapshot[s].size <= volume'[snapshot[s].volume].size
  BY <1>2, <1>3, ThereRecords, FitInMemory
<1>4. ASSUME NEW b \in Backup, IsThere(backup[b])
      PROVE  /\ volume'[backup[b].volume] # NotMade
             /\ IsThere(volume'[backup[b].volume]) =>
                    backup[b].size <= volume'[backup[b].volume].size
  BY <1>2, <1>4, ThereRecords, FitInMemory
<1> QED BY <1>3, <1>4, ImageParts DEF SizesFitIn, Memory

(* No deletion is undone; and one that is new is saved.                    *)
GoneStays ==
    /\ \A v \in Volume : volume[v] = Gone => volume'[v] = Gone
    /\ \A s \in Snapshot : snapshot[s] = Gone => snapshot'[s] = Gone

NothingNewGone ==
    /\ \A v \in Volume : volume'[v] = Gone => volume[v] = Gone
    /\ \A s \in Snapshot : snapshot'[s] = Gone => snapshot[s] = Gone

(* A request that leaves memory in order leaves all in order, if it saves  *)
(* or deletes nothing.                                                     *)
LEMMA StoredKeeps ==
    ASSUME CinderInv, StoresOK(Memory)', SizesFitIn(Memory)',
           Save \/ (UNCHANGED disk /\ NothingNewGone)
    PROVE  CinderInv'
<1>1. CASE UNCHANGED disk /\ NothingNewGone
  <2>1. CinderTypeOK'
    BY <1>1 DEF CinderInv, CinderTypeOK, StoresOK
  <2>2. SizesFit'
    BY <1>1 DEF CinderInv, SizesFit, SizesFitIn
  <2>3. DeletionsSaved'
    BY <1>1 DEF CinderInv, DeletionsSaved, NothingNewGone
  <2> QED BY <2>1, <2>2, <2>3 DEF CinderInv
<1>2. CASE Save /\ AutoSave
  <2>1. disk' = Memory'
    BY <1>2 DEF Save, Memory
  <2>2. StoresOK(disk)' /\ SizesFitIn(disk)'
    BY <2>1 DEF StoresOK, SizesFitIn
  <2>3. CinderTypeOK'
    BY <2>1, <2>2, ImageParts DEF CinderTypeOK, Memory
  <2>4. SizesFit'
    BY <2>2 DEF SizesFit
  <2>5. DeletionsSaved'
    BY <2>1, ImageParts DEF DeletionsSaved, Memory
  <2> QED BY <2>3, <2>4, <2>5 DEF CinderInv
<1>3. CASE Save /\ ~AutoSave
  <2>1. disk' = disk
    BY <1>3 DEF Save
  <2>2. CinderTypeOK'
    BY <2>1 DEF CinderInv, CinderTypeOK, StoresOK
  <2>3. SizesFit'
    BY <2>1 DEF CinderInv, SizesFit, SizesFitIn
  <2>4. DeletionsSaved'
    BY <1>3 DEF DeletionsSaved
  <2> QED BY <2>2, <2>3, <2>4 DEF CinderInv
<1> QED BY <1>1, <1>2, <1>3

(* One volume comes, changes or goes.                                      *)
LEMMA VolumeBecomesKeeps ==
    ASSUME CinderInv, NEW v \in Volume, NEW r \in VolumeRecord \cup {Gone},
           VolumeBecomes(v, r),
           \/ volume[v] = NotMade /\ r # Gone
           \/ IsThere(volume[v]) /\ (r = Gone \/ volume[v].size <= r.size),
           Save \/ (UNCHANGED disk /\ r # Gone)
    PROVE  CinderInv' /\ GoneStays
<1>1. /\ volume' \in [Volume -> OrNone(VolumeRecord)] /\ volume'[v] = r
      /\ \A w \in Volume : w # v => volume'[w] = volume[w]
      /\ UNCHANGED <<snapshot, backup, transfer, group, groupSnapshot>>
  BY StoresInMemory DEF VolumeBecomes, CinderInv, OrNone
<1>2. StoresOK(Memory)'
  <2>1. /\ snapshot' \in [Snapshot -> OrNone(SnapshotRecord)]
        /\ backup' \in [Backup -> OrNone(BackupRecord)]
        /\ transfer' \in [Transfer -> OrNone(TransferRecord)]
        /\ group' \in [Group -> OrNone(GroupRecord)]
        /\ groupSnapshot' \in [GroupSnapshot -> OrNone(GroupSnapshotRecord)]
    BY <1>1, StoresInMemory DEF CinderInv
  <2> QED BY <1>1, <2>1, MemoryTyped
<1>3. r # NotMade /\ (r # Gone => r \in VolumeRecord)
  BY RecordsAreThere, BlockStorageAssumption DEF BlockStorageAssumption, IsThere, Records
<1>4. VolumesGrow
  <2>1. \A w \in Volume : IsThere(volume[w]) => volume[w].size \in Nat
    BY ThereRecords DEF CinderInv
  <2> SUFFICES ASSUME NEW w \in Volume, volume[w] # NotMade
               PROVE  /\ volume'[w] # NotMade
                      /\ IsThere(volume'[w]) =>
                             IsThere(volume[w]) /\ volume[w].size <= volume'[w].size
    BY DEF VolumesGrow
  <2>2. CASE w = v
    BY <1>1, <1>3, <2>2 DEF IsThere
  <2>3. CASE w # v
    BY <1>1, <2>1, <2>3
  <2> QED BY <2>2, <2>3
<1>5. SizesFitIn(Memory)'
  BY <1>1, <1>4, GrowingFits DEF CinderInv, SizesFit
<1>6. r # Gone => NothingNewGone
  BY <1>1 DEF NothingNewGone
<1>7. CinderInv'
  BY <1>2, <1>5, <1>6, StoredKeeps
<1>8. GoneStays
  <2>1. volume[v] # Gone
    BY BlockStorageAssumption DEF BlockStorageAssumption, IsThere
  <2> QED BY <1>1, <2>1 DEF GoneStays
<1> QED BY <1>7, <1>8

(* A volume that changes keeps its size or grows.                          *)
LEMMA VolumeChangeKeeps ==
    ASSUME CinderInv, NEW v \in Volume, IsThere(volume[v]),
           NEW n \in Sizes, volume[v].size <= n, NEW label \in Label, NEW x \in BOOLEAN,
           VolumeBecomes(v, NewVolume(volume[v].owner, n, label, x)),
           Save \/ UNCHANGED disk
    PROVE  CinderInv' /\ GoneStays
<1> DEFINE r == NewVolume(volume[v].owner, n, label, x)
<1>1. r \in VolumeRecord /\ r.size = n
  <2>1. volume[v].owner \in Project
    BY ThereRecords DEF CinderInv
  <2> QED BY <2>1, VolumeMade
<1>2. VolumeBecomes(v, r)
  OBVIOUS
<1> HIDE DEF r
<1>3. r # Gone
  BY <1>1, BlockStorageAssumption DEF BlockStorageAssumption, Records
<1> QED BY <1>1, <1>2, <1>3, VolumeBecomesKeeps

LEMMA CreateVolumeKeeps ==
    ASSUME CinderInv, NEW p \in Project, NEW v \in Volume, NEW n \in Sizes, NEW label \in Label,
           CreateVolume(p, v, n, label)
    PROVE  CinderInv' /\ GoneStays
<1> DEFINE r == NewVolume(p, n, label, FALSE)
<1>1. r \in VolumeRecord
  <2>1. \A x \in BOOLEAN : NewVolume(p, n, label, x) \in VolumeRecord
    BY VolumeMade
  <2> QED BY <2>1
<1>2. VolumeBecomes(v, r) /\ Save /\ volume[v] = NotMade
  BY DEF CreateVolume
<1> HIDE DEF r
<1>3. r # Gone
  BY <1>1, BlockStorageAssumption DEF BlockStorageAssumption, Records
<1> QED BY <1>1, <1>2, <1>3, VolumeBecomesKeeps

LEMMA LabelChangeKeeps ==
    ASSUME CinderInv, NEW v \in Volume, NEW label \in Label, IsThere(volume[v]),
           VolumeBecomes(v, NewVolume(volume[v].owner, volume[v].size, label, volume[v].inUse)),
           Save \/ UNCHANGED disk
    PROVE  CinderInv' /\ GoneStays
<1>1. /\ volume[v].size \in Sizes /\ volume[v].size <= volume[v].size
      /\ volume[v].inUse \in BOOLEAN
  BY ThereRecords DEF CinderInv
<1> QED BY <1>1, VolumeChangeKeeps

LEMMA ExtendVolumeKeeps ==
    ASSUME CinderInv, NEW scope, NEW v \in Volume, NEW n \in Sizes, ExtendVolume(scope, v, n)
    PROVE  CinderInv' /\ GoneStays
<1> DEFINE b == FALSE
<1>1. /\ VolumeBecomes(v, NewVolume(volume[v].owner, n, volume[v].label, b))
      /\ Save /\ IsThere(volume[v]) /\ n > volume[v].size
  BY DEF ExtendVolume, Reaches
<1>2. volume[v].label \in Label /\ volume[v].size <= n
  BY <1>1, ThereRecords, BlockStorageAssumption
     DEF CinderInv, BlockStorageAssumption, Sizes
<1>3. b \in BOOLEAN
  OBVIOUS
<1> HIDE DEF b
<1> QED BY <1>1, <1>2, <1>3, VolumeChangeKeeps

LEMMA AttachOrDetachKeeps ==
    ASSUME CinderInv, NEW v \in Volume, AttachOrDetach(v)
    PROVE  CinderInv' /\ GoneStays
<1> DEFINE b == ~volume[v].inUse
<1>1. /\ VolumeBecomes(v, NewVolume(volume[v].owner, volume[v].size, volume[v].label, b))
      /\ Save /\ IsThere(volume[v])
  BY DEF AttachOrDetach
<1>2. /\ volume[v].label \in Label /\ volume[v].size <= volume[v].size
      /\ volume[v].size \in Sizes
  BY <1>1, ThereRecords DEF CinderInv
<1>3. b \in BOOLEAN
  OBVIOUS
<1> HIDE DEF b
<1> QED BY <1>1, <1>2, <1>3, VolumeChangeKeeps

LEMMA VolumeGoneKeeps ==
    ASSUME CinderInv, NEW v \in Volume, IsThere(volume[v]), VolumeBecomes(v, Gone), Save
    PROVE  CinderInv' /\ GoneStays
  BY VolumeBecomesKeeps

(* One snapshot comes, changes or goes; all of these save.                 *)
LEMMA SnapshotBecomesKeeps ==
    ASSUME CinderInv, NEW s \in Snapshot, NEW r \in SnapshotRecord \cup {Gone},
           SnapshotBecomes(s, r), snapshot[s] # Gone, Save,
           r # Gone =>
               /\ volume[r.volume] # NotMade
               /\ IsThere(volume[r.volume]) => r.size <= volume[r.volume].size
    PROVE  CinderInv' /\ GoneStays
<1>1. /\ snapshot' \in [Snapshot -> OrNone(SnapshotRecord)] /\ snapshot'[s] = r
      /\ \A t \in Snapshot : t # s => snapshot'[t] = snapshot[t]
      /\ UNCHANGED <<volume, backup, transfer, group, groupSnapshot>>
  BY StoresInMemory DEF SnapshotBecomes, CinderInv, OrNone
<1>2. StoresOK(Memory)'
  <2>1. /\ volume' \in [Volume -> OrNone(VolumeRecord)]
        /\ backup' \in [Backup -> OrNone(BackupRecord)]
        /\ transfer' \in [Transfer -> OrNone(TransferRecord)]
        /\ group' \in [Group -> OrNone(GroupRecord)]
        /\ groupSnapshot' \in [GroupSnapshot -> OrNone(GroupSnapshotRecord)]
    BY <1>1, StoresInMemory DEF CinderInv
  <2> QED BY <1>1, <2>1, MemoryTyped
<1>3. ~IsThere(Gone)
  BY DEF IsThere
<1>4. SizesFitIn(Memory)'
  <2>1. SizesFitIn(Memory)
    BY DEF CinderInv, SizesFit
  <2>2. ASSUME NEW t \in Snapshot, IsThere(snapshot'[t])
        PROVE  /\ volume'[snapshot'[t].volume] # NotMade
               /\ IsThere(volume'[snapshot'[t].volume]) =>
                      snapshot'[t].size <= volume'[snapshot'[t].volume].size
    <3>1. CASE t = s
      BY <1>1, <1>3, <2>2, <3>1
    <3>2. CASE t # s
      BY <1>1, <2>1, <2>2, <3>2, FitInMemory
    <3> QED BY <3>1, <3>2
  <2>3. ASSUME NEW b \in Backup, IsThere(backup'[b])
        PROVE  /\ volume'[backup'[b].volume] # NotMade
               /\ IsThere(volume'[backup'[b].volume]) =>
                      backup'[b].size <= volume'[backup'[b].volume].size
    BY <1>1, <2>1, <2>3, FitInMemory
  <2> QED BY <2>2, <2>3, ImageParts DEF SizesFitIn, Memory
<1>5. CinderInv'
  BY <1>2, <1>4, StoredKeeps
<1>6. GoneStays
  BY <1>1 DEF GoneStays
<1> QED BY <1>5, <1>6

LEMMA CreateSnapshotKeeps ==
    ASSUME CinderInv, NEW p \in Project, NEW s \in Snapshot, NEW v \in Volume,
           NEW label \in Label, CreateSnapshot(p, s, v, label)
    PROVE  CinderInv' /\ GoneStays
<1> DEFINE r == NewSnapshot(p, v, volume[v].size, label)
<1>1. /\ SnapshotBecomes(s, r) /\ Save /\ IsThere(volume[v])
      /\ snapshot[s] # Gone
  BY BlockStorageAssumption DEF CreateSnapshot, BlockStorageAssumption
<1>2. volume[v].size \in Sizes /\ volume[v].size \in Nat /\ volume[v] # NotMade
  BY <1>1, ThereRecords DEF CinderInv, IsThere
<1>3. r \in SnapshotRecord /\ r.volume = v /\ r.size = volume[v].size
  BY <1>2, SnapshotMade
<1> HIDE DEF r
<1> QED BY <1>1, <1>2, <1>3, SnapshotBecomesKeeps

LEMMA UpdateSnapshotKeeps ==
    ASSUME CinderInv, NEW scope, NEW s \in Snapshot, NEW label \in Label,
           UpdateSnapshot(scope, s, label)
    PROVE  CinderInv' /\ GoneStays
<1> DEFINE r == NewSnapshot(snapshot[s].owner, snapshot[s].volume, snapshot[s].size, label)
<1>1. SnapshotBecomes(s, r) /\ Save /\ IsThere(snapshot[s]) /\ snapshot[s] # Gone
  BY DEF UpdateSnapshot, Reaches, IsThere
<1>2. snapshot[s] \in SnapshotRecord
  BY <1>1, ThereRecords DEF CinderInv
<1>3. r \in SnapshotRecord /\ r.volume = snapshot[s].volume /\ r.size = snapshot[s].size
  <2>1. /\ snapshot[s].owner \in Project /\ snapshot[s].volume \in Volume
        /\ snapshot[s].size \in Sizes
    BY <1>2 DEF SnapshotRecord
  <2> QED BY <2>1, SnapshotMade
<1> HIDE DEF r
<1>4. /\ volume[r.volume] # NotMade
      /\ IsThere(volume[r.volume]) => r.size <= volume[r.volume].size
  BY <1>1, <1>3, FitInMemory DEF CinderInv, SizesFit
<1> QED BY <1>1, <1>3, <1>4, SnapshotBecomesKeeps

LEMMA DeleteSnapshotKeeps ==
    ASSUME CinderInv, NEW scope, NEW s \in Snapshot, DeleteSnapshot(scope, s)
    PROVE  CinderInv' /\ GoneStays
<1>1. SnapshotBecomes(s, Gone) /\ Save /\ snapshot[s] # Gone
  BY DEF DeleteSnapshot, Reaches, IsThere
<1> QED BY <1>1, SnapshotBecomesKeeps

(* One backup comes or goes; none of these save.                           *)
LEMMA BackupBecomesKeeps ==
    ASSUME CinderInv, NEW b \in Backup, NEW r \in BackupRecord \cup {Gone},
           BackupBecomes(b, r),
           r # Gone =>
               /\ volume[r.volume] # NotMade
               /\ IsThere(volume[r.volume]) => r.size <= volume[r.volume].size
    PROVE  CinderInv' /\ GoneStays
<1>1. /\ backup' \in [Backup -> OrNone(BackupRecord)] /\ backup'[b] = r
      /\ \A t \in Backup : t # b => backup'[t] = backup[t]
      /\ UNCHANGED <<volume, snapshot, transfer, group, groupSnapshot, disk>>
  BY StoresInMemory DEF BackupBecomes, CinderInv, OrNone
<1>2. StoresOK(Memory)'
  <2>1. /\ volume' \in [Volume -> OrNone(VolumeRecord)]
        /\ snapshot' \in [Snapshot -> OrNone(SnapshotRecord)]
        /\ transfer' \in [Transfer -> OrNone(TransferRecord)]
        /\ group' \in [Group -> OrNone(GroupRecord)]
        /\ groupSnapshot' \in [GroupSnapshot -> OrNone(GroupSnapshotRecord)]
    BY <1>1, StoresInMemory DEF CinderInv
  <2> QED BY <1>1, <2>1, MemoryTyped
<1>3. ~IsThere(Gone)
  BY DEF IsThere
<1>4. SizesFitIn(Memory)'
  <2>1. SizesFitIn(Memory)
    BY DEF CinderInv, SizesFit
  <2>2. ASSUME NEW t \in Backup, IsThere(backup'[t])
        PROVE  /\ volume'[backup'[t].volume] # NotMade
               /\ IsThere(volume'[backup'[t].volume]) =>
                      backup'[t].size <= volume'[backup'[t].volume].size
    <3>1. CASE t = b
      BY <1>1, <1>3, <2>2, <3>1
    <3>2. CASE t # b
      BY <1>1, <2>1, <2>2, <3>2, FitInMemory
    <3> QED BY <3>1, <3>2
  <2>3. ASSUME NEW s \in Snapshot, IsThere(snapshot'[s])
        PROVE  /\ volume'[snapshot'[s].volume] # NotMade
               /\ IsThere(volume'[snapshot'[s].volume]) =>
                      snapshot'[s].size <= volume'[snapshot'[s].volume].size
    BY <1>1, <2>1, <2>3, FitInMemory
  <2> QED BY <2>2, <2>3, ImageParts DEF SizesFitIn, Memory
<1>5. NothingNewGone /\ GoneStays
  BY <1>1 DEF NothingNewGone, GoneStays
<1> QED BY <1>1, <1>2, <1>4, <1>5, StoredKeeps

LEMMA BackupRequestsKeep ==
    ASSUME CinderInv, NEW p \in Project, BackupRequests(p)
    PROVE  CinderInv' /\ GoneStays
<1>1. ASSUME NEW b \in Backup, NEW v \in Volume, CreateVolumeBackup(p, b, v)
      PROVE  CinderInv' /\ GoneStays
  <2> DEFINE r == NewBackup(p, v, volume[v].size)
  <2>1. BackupBecomes(b, r) /\ IsThere(volume[v])
    BY <1>1 DEF CreateVolumeBackup, Reaches
  <2>2. volume[v].size \in Sizes /\ volume[v].size \in Nat /\ volume[v] # NotMade
    BY <2>1, ThereRecords DEF CinderInv, IsThere
  <2>3. r \in BackupRecord /\ r.volume = v /\ r.size = volume[v].size
    BY <2>2, BackupMade
  <2> HIDE DEF r
  <2> QED BY <2>1, <2>2, <2>3, BackupBecomesKeeps
<1>2. ASSUME NEW b \in Backup, NEW v \in Volume, NEW label \in Label,
             RestoreVolumeBackup(p, b, v, label)
      PROVE  CinderInv' /\ GoneStays
  <2>1. CreateVolume(backup[b].owner, v, backup[b].size, label) /\ IsThere(backup[b])
    BY <1>2 DEF RestoreVolumeBackup, Reaches
  <2>2. backup[b].owner \in Project /\ backup[b].size \in Sizes
    BY <2>1, ThereRecords DEF CinderInv, BackupRecord
  <2> QED BY <2>1, <2>2, CreateVolumeKeeps
<1>3. ASSUME NEW b \in Backup, DeleteVolumeBackup(p, b)
      PROVE  CinderInv' /\ GoneStays
  BY <1>3, BackupBecomesKeeps DEF DeleteVolumeBackup
<1> QED BY <1>1, <1>2, <1>3 DEF BackupRequests

(* Transfers and groups come and go beside the rest.                       *)
LEMMA BesideKeeps ==
    ASSUME CinderInv, UNCHANGED <<volume, snapshot, backup, disk>>,
           transfer' \in [Transfer -> OrNone(TransferRecord)],
           group' \in [Group -> OrNone(GroupRecord)],
           groupSnapshot' \in [GroupSnapshot -> OrNone(GroupSnapshotRecord)]
    PROVE  CinderInv' /\ GoneStays
<1>1. StoresOK(Memory)'
  <2>1. /\ volume' \in [Volume -> OrNone(VolumeRecord)]
        /\ snapshot' \in [Snapshot -> OrNone(SnapshotRecord)]
        /\ backup' \in [Backup -> OrNone(BackupRecord)]
    BY StoresInMemory DEF CinderInv
  <2> QED BY <2>1, MemoryTyped
<1>2. SizesFitIn(Memory)'
  <2>1. SizesFitIn(Memory)
    BY DEF CinderInv, SizesFit
  <2> QED BY <2>1, ImageParts DEF SizesFitIn, Memory
<1>3. NothingNewGone /\ GoneStays
  BY DEF NothingNewGone, GoneStays
<1> QED BY <1>1, <1>2, <1>3, StoredKeeps

LEMMA TransferRequestsKeep ==
    ASSUME CinderInv, NEW p \in Project, TransferRequests(p)
    PROVE  CinderInv' /\ GoneStays
<1>1. ASSUME NEW t \in Transfer, NEW v \in Volume, CreateVolumeTransfer(p, t, v)
      PROVE  CinderInv' /\ GoneStays
  <2> DEFINE r == NewTransfer(p, v, FALSE)
  <2>1. r \in TransferRecord
    <3>1. \A x \in BOOLEAN : NewTransfer(p, v, x) \in TransferRecord
      BY TransferMade
    <3> QED BY <3>1
  <2>2. transfer' = [transfer EXCEPT ![t] = r]
        /\ UNCHANGED <<volume, snapshot, backup, group, groupSnapshot, disk>>
    BY <1>1 DEF CreateVolumeTransfer
  <2> HIDE DEF r
  <2>3. /\ transfer' \in [Transfer -> OrNone(TransferRecord)]
        /\ group' \in [Group -> OrNone(GroupRecord)]
        /\ groupSnapshot' \in [GroupSnapshot -> OrNone(GroupSnapshotRecord)]
    BY <2>1, <2>2, StoresInMemory DEF CinderInv, OrNone
  <2> QED BY <2>2, <2>3, BesideKeeps
<1>2. ASSUME NEW t \in Transfer, DeleteVolumeTransfer(p, t)
      PROVE  CinderInv' /\ GoneStays
  <2>1. /\ transfer' \in [Transfer -> OrNone(TransferRecord)]
        /\ group' \in [Group -> OrNone(GroupRecord)]
        /\ groupSnapshot' \in [GroupSnapshot -> OrNone(GroupSnapshotRecord)]
        /\ UNCHANGED <<volume, snapshot, backup, disk>>
    BY <1>2, StoresInMemory DEF DeleteVolumeTransfer, CinderInv, OrNone
  <2> QED BY <2>1, BesideKeeps
<1> QED BY <1>1, <1>2 DEF TransferRequests

LEMMA GroupRequestsKeep ==
    ASSUME CinderInv, GroupRequests \/ GroupSnapshotRequests
    PROVE  CinderInv' /\ GoneStays
<1>1. ASSUME NEW g \in Group, NEW q \in Project, CreateConsistencyGroup(q, g)
      PROVE  CinderInv' /\ GoneStays
  <2>1. NewGroup(q) \in GroupRecord
    BY DEF NewGroup, GroupRecord
  <2>2. /\ transfer' \in [Transfer -> OrNone(TransferRecord)]
        /\ group' \in [Group -> OrNone(GroupRecord)]
        /\ groupSnapshot' \in [GroupSnapshot -> OrNone(GroupSnapshotRecord)]
        /\ UNCHANGED <<volume, snapshot, backup, disk>>
    BY <1>1, <2>1, StoresInMemory DEF CreateConsistencyGroup, CinderInv, OrNone
  <2> QED BY <2>2, BesideKeeps
<1>2. ASSUME NEW g \in Group, NEW q \in Project, DeleteConsistencyGroup(q, g)
      PROVE  CinderInv' /\ GoneStays
  <2>1. /\ transfer' \in [Transfer -> OrNone(TransferRecord)]
        /\ group' \in [Group -> OrNone(GroupRecord)]
        /\ groupSnapshot' \in [GroupSnapshot -> OrNone(GroupSnapshotRecord)]
        /\ UNCHANGED <<volume, snapshot, backup, disk>>
    BY <1>2, StoresInMemory DEF DeleteConsistencyGroup, CinderInv, OrNone
  <2> QED BY <2>1, BesideKeeps
<1>3. ASSUME NEW s \in GroupSnapshot, NEW g \in Group, NEW q \in Project,
             CreateGroupSnapshot(q, s, g)
      PROVE  CinderInv' /\ GoneStays
  <2>1. NewGroupSnapshot(q, g) \in GroupSnapshotRecord
    BY DEF NewGroupSnapshot, GroupSnapshotRecord
  <2>2. /\ transfer' \in [Transfer -> OrNone(TransferRecord)]
        /\ group' \in [Group -> OrNone(GroupRecord)]
        /\ groupSnapshot' \in [GroupSnapshot -> OrNone(GroupSnapshotRecord)]
        /\ UNCHANGED <<volume, snapshot, backup, disk>>
    BY <1>3, <2>1, StoresInMemory DEF CreateGroupSnapshot, CinderInv, OrNone
  <2> QED BY <2>2, BesideKeeps
<1>4. ASSUME NEW s \in GroupSnapshot, NEW q \in Project, DeleteGroupSnapshot(q, s)
      PROVE  CinderInv' /\ GoneStays
  <2>1. /\ transfer' \in [Transfer -> OrNone(TransferRecord)]
        /\ group' \in [Group -> OrNone(GroupRecord)]
        /\ groupSnapshot' \in [GroupSnapshot -> OrNone(GroupSnapshotRecord)]
        /\ UNCHANGED <<volume, snapshot, backup, disk>>
    BY <1>4, StoresInMemory DEF DeleteGroupSnapshot, CinderInv, OrNone
  <2> QED BY <2>1, BesideKeeps
<1> QED BY <1>1, <1>2, <1>3, <1>4 DEF GroupRequests, GroupSnapshotRequests

(* A volume that changes hands is as large as it was.                      *)
LEMMA AcceptanceKeeps ==
    ASSUME CinderInv, Acceptance
    PROVE  CinderInv' /\ GoneStays
<1>1. PICK p \in Project, t \in Transfer : AcceptVolumeTransfer(p, t)
  BY DEF Acceptance
<1> DEFINE moved(v) == NewVolume(p, volume[v].size, volume[v].label, volume[v].inUse)
           taken(v) == v = transfer[t].volume /\ IsThere(volume[v])
           r == NewTransfer(transfer[t].source, transfer[t].volume, TRUE)
<1>2. /\ volume' = [v \in Volume |-> IF taken(v) THEN moved(v) ELSE volume[v]]
      /\ transfer' = [transfer EXCEPT ![t] = r]
      /\ IsThere(transfer[t])
      /\ UNCHANGED <<snapshot, backup, group, groupSnapshot, disk>>
  BY <1>1 DEF AcceptVolumeTransfer
<1>3. \A v \in Volume : taken(v) =>
          moved(v) \in VolumeRecord /\ moved(v).size = volume[v].size
  BY ThereRecords, VolumeMade DEF CinderInv
<1>4. r \in TransferRecord
  <2>1. transfer[t] \in TransferRecord
    BY <1>2, StoresInMemory DEF CinderInv, IsThere, OrNone
  <2>2. transfer[t].source \in Project /\ transfer[t].volume \in Volume
    BY <2>1 DEF TransferRecord
  <2>3. \A x \in BOOLEAN :
            NewTransfer(transfer[t].source, transfer[t].volume, x) \in TransferRecord
    BY <2>2, TransferMade
  <2> QED BY <2>3
<1>5. \A v \in Volume : taken(v) => IsThere(volume[v])
  OBVIOUS
<1> HIDE DEF moved, taken, r
<1>6. volume' \in [Volume -> OrNone(VolumeRecord)]
  BY <1>2, <1>3, StoresInMemory DEF CinderInv, OrNone
<1>7. StoresOK(Memory)'
  <2>1. /\ snapshot' \in [Snapshot -> OrNone(SnapshotRecord)]
        /\ backup' \in [Backup -> OrNone(BackupRecord)]
        /\ transfer' \in [Transfer -> OrNone(TransferRecord)]
        /\ group' \in [Group -> OrNone(GroupRecord)]
        /\ groupSnapshot' \in [GroupSnapshot -> OrNone(GroupSnapshotRecord)]
    BY <1>2, <1>4, StoresInMemory DEF CinderInv, OrNone
  <2> QED BY <1>6, <2>1, MemoryTyped
<1>8. ASSUME NEW v \in Volume
      PROVE  /\ volume'[v] = Gone <=> volume[v] = Gone
             /\ volume[v] # NotMade =>
                    /\ volume'[v] # NotMade
                    /\ IsThere(volume'[v]) =>
                           IsThere(volume[v]) /\ volume[v].size <= volume'[v].size
  <2>1. CASE taken(v)
    <3>1. volume'[v] = moved(v) /\ IsThere(volume[v]) /\ volume[v].size \in Nat
      BY <1>2, <1>5, <2>1, ThereRecords DEF CinderInv
    <3>2. IsThere(moved(v)) /\ moved(v).size = volume[v].size
      BY <1>3, <2>1, RecordsAreThere DEF Records
    <3> QED BY <3>1, <3>2 DEF IsThere
  <2>2. CASE ~taken(v)
    <3>1. volume'[v] = volume[v]
      BY <1>2, <2>2
    <3>2. IsThere(volume[v]) => volume[v].size \in Nat
      BY ThereRecords DEF CinderInv
    <3> QED BY <3>1, <3>2
  <2> QED BY <2>1, <2>2
<1>9. NothingNewGone /\ GoneStays
  BY <1>2, <1>8 DEF NothingNewGone, GoneStays
<1>10. SizesFitIn(Memory)'
  <2>1. VolumesGrow
    BY <1>8 DEF VolumesGrow
  <2> QED BY <1>2, <1>6, <2>1, GrowingFits DEF CinderInv, SizesFit
<1> QED BY <1>2, <1>7, <1>9, <1>10, StoredKeeps

LEMMA ServersUseVolumesKeep ==
    ASSUME CinderInv, ServersUseVolumes
    PROVE  CinderInv' /\ GoneStays
<1>1. PICK v \in Volume : AttachOrDetach(v) \/ DeleteOnTermination(v)
  BY DEF ServersUseVolumes
<1>2. CASE AttachOrDetach(v)
  BY <1>2, AttachOrDetachKeeps
<1>3. CASE DeleteOnTermination(v)
  BY <1>3, VolumeGoneKeeps DEF DeleteOnTermination
<1> QED BY <1>1, <1>2, <1>3

(* Whatever a token can ask for, an administrator's or not.                *)
LEMMA CinderRequestsKeep ==
    ASSUME CinderInv, NEW p \in Project, NEW scope, Requests(p, scope)
    PROVE  CinderInv' /\ GoneStays
<1>1. CASE VolumeRequests(p, scope)
  <2>1. PICK v \in Volume :
            \/ \E n \in Sizes, label \in Label : CreateVolume(p, v, n, label)
            \/ \E label \in Label : UpdateVolume(scope, v, label)
            \/ DeleteVolume(scope, v)
    BY <1>1 DEF VolumeRequests
  <2>2. ASSUME NEW label \in Label, UpdateVolume(scope, v, label)
        PROVE  CinderInv' /\ GoneStays
    BY <2>2, LabelChangeKeeps DEF UpdateVolume, Reaches
  <2>3. ASSUME DeleteVolume(scope, v)
        PROVE  CinderInv' /\ GoneStays
    BY <2>3, VolumeGoneKeeps DEF DeleteVolume, Reaches
  <2> QED BY <2>1, <2>2, <2>3, CreateVolumeKeeps
<1>2. CASE VolumeActionRequests(scope)
  BY <1>2, ExtendVolumeKeeps DEF VolumeActionRequests
<1>3. CASE VolumeMetadataRequests(scope)
  <2>1. PICK v \in Volume, label \in Label : UpdateVolumeMetadata(scope, v, label)
    BY <1>3 DEF VolumeMetadataRequests
  <2> QED BY <2>1, LabelChangeKeeps DEF UpdateVolumeMetadata, Reaches
<1>4. CASE SnapshotRequests(scope)
  BY <1>4, CreateSnapshotKeeps, UpdateSnapshotKeeps, DeleteSnapshotKeeps
     DEF SnapshotRequests
<1>5. CASE TransferRequests(p)
  BY <1>5, TransferRequestsKeep
<1>6. CASE BackupRequests(p)
  BY <1>6, BackupRequestsKeep
<1>7. CASE GroupRequests \/ GroupSnapshotRequests
  BY <1>7, GroupRequestsKeep
<1> QED BY <1>1, <1>2, <1>3, <1>4, <1>5, <1>6, <1>7 DEF Requests

(* What a start finds is what the last save left, in which what is gone    *)
(* from memory is gone.                                                    *)
LEMMA CinderRestartKeeps ==
    ASSUME CinderInv, CinderRestart
    PROVE  CinderInv' /\ (AutoSave => GoneStays)
<1>1. Memory' = disk /\ disk' = disk
  <2>1. disk = Image(disk.volume, disk.snapshot, disk.backup, disk.transfer, disk.group,
                     disk.groupSnapshot)
    BY DEF CinderInv, CinderTypeOK
  <2>2. /\ volume' = disk.volume /\ snapshot' = disk.snapshot /\ backup' = disk.backup
        /\ transfer' = disk.transfer /\ group' = disk.group
        /\ groupSnapshot' = disk.groupSnapshot /\ disk' = disk
    BY DEF CinderRestart
  <2>3. Memory' = Image(volume', snapshot', backup', transfer', group', groupSnapshot')
    BY DEF Memory
  <2> QED BY <2>1, <2>2, <2>3
<1>2. CinderTypeOK'
  <2>1. StoresOK(disk) /\ disk = Image(disk.volume, disk.snapshot, disk.backup,
                                       disk.transfer, disk.group, disk.groupSnapshot)
    BY DEF CinderInv, CinderTypeOK
  <2> QED BY <1>1, <2>1 DEF CinderTypeOK, StoresOK
<1>3. SizesFit'
  BY <1>1 DEF CinderInv, SizesFit, SizesFitIn
<1>4. DeletionsSaved'
  BY DEF CinderRestart, DeletionsSaved
<1>5. AutoSave => GoneStays
  BY DEF CinderRestart, GoneStays, CinderInv, DeletionsSaved
<1> QED BY <1>2, <1>3, <1>4, <1>5 DEF CinderInv

LEMMA CinderInitially == CinderInit => CinderInv
<1> SUFFICES ASSUME CinderInit PROVE CinderInv
  OBVIOUS
<1>1. /\ volume \in [Volume -> {NotMade}] /\ snapshot \in [Snapshot -> {NotMade}]
      /\ backup \in [Backup -> {NotMade}] /\ transfer \in [Transfer -> {NotMade}]
      /\ group \in [Group -> {NotMade}] /\ groupSnapshot \in [GroupSnapshot -> {NotMade}]
      /\ disk = Memory
  BY DEF CinderInit, Memory
<1>2. StoresOK(Memory)
  BY <1>1, ImageParts DEF StoresOK, Memory, OrNone
<1>3. CinderTypeOK
  BY <1>1, <1>2, ImageParts DEF CinderTypeOK, Memory
<1>4. SizesFitIn(Memory)
  BY <1>1, FitInMemory DEF IsThere
<1>5. DeletionsSaved
  BY <1>1, BlockStorageAssumption DEF DeletionsSaved, BlockStorageAssumption
<1> QED BY <1>1, <1>3, <1>4, <1>5 DEF CinderInv, SizesFit

LEMMA CinderStep ==
    CinderInv /\ [CinderNext]_cinderVars => CinderInv' /\ (AutoSave => GoneStays)
<1> SUFFICES ASSUME CinderInv, [CinderNext]_cinderVars
             PROVE  CinderInv' /\ (AutoSave => GoneStays)
  OBVIOUS
<1>1. ASSUME NEW p \in Project, NEW scope, Requests(p, scope)
      PROVE  CinderInv' /\ (AutoSave => GoneStays)
  BY <1>1, CinderRequestsKeep
<1>2. CASE Acceptance
  BY <1>2, AcceptanceKeeps
<1>3. CASE ServersUseVolumes
  BY <1>3, ServersUseVolumesKeep
<1>4. CASE CinderRestart
  BY <1>4, CinderRestartKeeps
<1>5. CASE UNCHANGED cinderVars
  <2>1. UNCHANGED <<volume, snapshot, backup, transfer, group, groupSnapshot, disk>>
    BY <1>5 DEF cinderVars, stores
  <2> QED BY <2>1, BesideKeeps, StoresInMemory DEF CinderInv
<1> QED BY <1>1, <1>2, <1>3, <1>4, <1>5 DEF CinderNext

(* The stores, in memory and in the file, are in order, and every deletion *)
(* is in the file, whatever is asked and wherever the process stops        *)
(* (core/database.py, save and load).                                      *)
THEOREM CinderInvariance == CinderSpec => []CinderInv
<1> QED BY CinderInitially, CinderStep, PTL DEF CinderSpec

(* Memory and the file hold what they are declared to hold.                *)
THEOREM CinderTypeCorrect == CinderSpec => []CinderTypeOK
<1>1. CinderInv => CinderTypeOK
  BY DEF CinderInv
<1> QED BY <1>1, CinderInvariance, PTL

(* No snapshot or backup outgrows its volume, in memory or in the file     *)
(* (extend_volume, create_snapshot, create_volume_backup).                 *)
THEOREM SnapshotsFit == CinderSpec => []SizesFit
<1>1. CinderInv => SizesFit
  BY DEF CinderInv
<1> QED BY <1>1, CinderInvariance, PTL

(* With --auto-save, no step brings back a volume or a snapshot that was   *)
(* deleted, a restart not excepted (delete_volume, delete_snapshot, load). *)
THEOREM DeletionsLast == CinderSpec => DeletedStaysDeleted
<1>1. CinderInv /\ [CinderNext]_cinderVars =>
          [AutoSave =>
              /\ \A v \in Volume : volume[v] = Gone => volume'[v] = Gone
              /\ \A s \in Snapshot : snapshot[s] = Gone => snapshot'[s] = Gone]_cinderVars
  BY CinderStep DEF GoneStays
<1> QED BY <1>1, CinderInvariance, PTL DEF CinderSpec, DeletedStaysDeleted

(* A project's request leaves what is another project's as it is.          *)
LEMMA RequestsStayOff ==
    ASSUME CinderTypeOK, NEW p \in Project, Requests(p, p)
    PROVE  /\ \A v \in Volume : IsThere(volume[v]) =>
                 volume'[v] = volume[v] \/ volume[v].owner = p
           /\ \A s \in Snapshot : IsThere(snapshot[s]) =>
                 snapshot'[s] = snapshot[s] \/ snapshot[s].owner = p
           /\ \A b \in Backup : IsThere(backup[b]) =>
                 backup'[b] = backup[b] \/ backup[b].owner = p
<1>1. p # Admin /\ ~IsThere(NotMade)
  BY BlockStorageAssumption DEF BlockStorageAssumption, IsThere
<1>2. /\ \A w, v \in Volume : \A r :
             VolumeBecomes(v, r) => w = v \/ volume'[w] = volume[w]
      /\ \A w, s \in Snapshot : \A r :
             SnapshotBecomes(s, r) => w = s \/ snapshot'[w] = snapshot[w]
      /\ \A w, b \in Backup : \A r :
             BackupBecomes(b, r) => w = b \/ backup'[w] = backup[w]
  BY StoresInMemory DEF VolumeBecomes, SnapshotBecomes, BackupBecomes
<1>3. ASSUME NEW v \in Volume, NEW r, VolumeBecomes(v, r),
             ~IsThere(volume[v]) \/ volume[v].owner = p
      PROVE  /\ \A w \in Volume : IsThere(volume[w]) =>
                   volume'[w] = volume[w] \/ volume[w].owner = p
             /\ UNCHANGED <<snapshot, backup>>
  BY <1>2, <1>3 DEF VolumeBecomes
<1>4. \A x : Reaches(p, x) => x.owner = p
  BY <1>1 DEF Reaches
<1>5. CASE VolumeRequests(p, p)
  <2>1. PICK v, r : /\ v \in Volume
                    /\ VolumeBecomes(v, r)
                    /\ volume[v] = NotMade \/ volume[v].owner = p
    BY <1>4, <1>5 DEF VolumeRequests, CreateVolume, UpdateVolume, DeleteVolume
  <2> QED BY <1>1, <1>3, <2>1
<1>6. CASE VolumeActionRequests(p) \/ VolumeMetadataRequests(p)
  <2>1. PICK v, r : v \in Volume /\ VolumeBecomes(v, r) /\ volume[v].owner = p
    BY <1>4, <1>6
       DEF VolumeActionRequests, VolumeMetadataRequests, ExtendVolume, UpdateVolumeMetadata
  <2> QED BY <1>3, <2>1
<1>7. CASE SnapshotRequests(p)
  <2>1. PICK s, r : /\ s \in Snapshot
                    /\ SnapshotBecomes(s, r)
                    /\ snapshot[s] = NotMade \/ snapshot[s].owner = p
    BY <1>4, <1>7 DEF SnapshotRequests, CreateSnapshot, UpdateSnapshot, DeleteSnapshot
  <2>2. ~IsThere(snapshot[s]) \/ snapshot[s].owner = p
    BY <1>1, <2>1
  <2>3. /\ \A w \in Snapshot : IsThere(snapshot[w]) =>
               snapshot'[w] = snapshot[w] \/ snapshot[w].owner = p
        /\ UNCHANGED <<volume, backup>>
    BY <1>2, <2>1, <2>2 DEF SnapshotBecomes
  <2> QED BY <2>3
<1>8. CASE TransferRequests(p)
  BY <1>8 DEF TransferRequests, CreateVolumeTransfer, DeleteVolumeTransfer
<1>9. CASE BackupRequests(p)
  <2>1. CASE \E b \in Backup, v \in Volume, label \in Label : RestoreVolumeBackup(p, b, v, label)
    <3>1. PICK v, r : v \in Volume /\ VolumeBecomes(v, r) /\ volume[v] = NotMade
      BY <2>1 DEF RestoreVolumeBackup, CreateVolume
    <3> QED BY <1>1, <1>3, <3>1
  <2>2. CASE \E b \in Backup : \/ \E v \in Volume : CreateVolumeBackup(p, b, v)
                               \/ DeleteVolumeBackup(p, b)
    <3>1. PICK b, r : /\ b \in Backup
                      /\ BackupBecomes(b, r)
                      /\ backup[b] = NotMade \/ backup[b].owner = p
      BY <1>4, <2>2 DEF CreateVolumeBackup, DeleteVolumeBackup
    <3>2. ~IsThere(backup[b]) \/ backup[b].owner = p
      BY <1>1, <3>1
    <3>3. /\ \A w \in Backup : IsThere(backup[w]) =>
                 backup'[w] = backup[w] \/ backup[w].owner = p
          /\ UNCHANGED <<volume, snapshot>>
      BY <1>2, <3>1, <3>2 DEF BackupBecomes
    <3> QED BY <3>3
  <2> QED BY <1>9, <2>1, <2>2 DEF BackupRequests
<1>10. CASE GroupRequests
  BY <1>10 DEF GroupRequests, CreateConsistencyGroup, DeleteConsistencyGroup
<1>11. CASE GroupSnapshotRequests
  BY <1>11 DEF GroupSnapshotRequests, CreateGroupSnapshot, DeleteGroupSnapshot
<1> QED BY <1>5, <1>6, <1>7, <1>8, <1>9, <1>10, <1>11 DEF Requests

(* The restriction comes from the token: a project's own token changes no  *)
(* volume, snapshot or backup of another project, for any number of        *)
(* projects and of things (_context_project).                              *)
THEOREM OthersLeftAlone == CinderSpec => OthersUntouched
<1>1. CinderTypeOK /\ [CinderNext]_cinderVars =>
        [\A p \in Project : Requests(p, p) =>
          /\ \A v \in Volume : IsThere(volume[v]) =>
                 volume'[v] = volume[v] \/ volume[v].owner = p
          /\ \A s \in Snapshot : IsThere(snapshot[s]) =>
                 snapshot'[s] = snapshot[s] \/ snapshot[s].owner = p
          /\ \A b \in Backup : IsThere(backup[b]) =>
                 backup'[b] = backup[b] \/ backup[b].owner = p]_cinderVars
  BY RequestsStayOff
<1> QED BY <1>1, CinderTypeCorrect, PTL DEF CinderSpec, OthersUntouched

(***************************************************************************)
(* Scenarios.  A degradation is timed because a profile that is put in     *)
(* place of another takes the start away, and enabling gives one, unless   *)
(* it fails, which the history of misfired scenarios tells of; and the     *)
(* totals add up because a request is counted when it stops being new, and *)
(* never becomes new again.                                                *)
(***************************************************************************)

(* A degradation has a start exactly while its scenario is enabled.        *)
Timed(s) == s.started <=> s.enabled /\ s.profile.gradual

(* The same, of a scenario that a failed request may have enabled.         *)
InTime(i) ==
    scenario[i].started <=> /\ scenario[i].enabled
                            /\ scenario[i].profile.gradual
                            /\ i \notin misfired

(* What the constructors make.                                             *)
LEMMA WithMade ==
    ASSUME NEW s \in Scenario, NEW p \in LoadProfile, NEW f \in FailureConfig,
           NEW e \in BOOLEAN, NEW b \in BOOLEAN
    PROVE  /\ With(s, p, f, e, b) \in Scenario
           /\ With(s, p, f, e, b).profile = p /\ With(s, p, f, e, b).failure = f
           /\ With(s, p, f, e, b).enabled = e /\ With(s, p, f, e, b).started = b
  BY DEF With, Scenario

LEMMA ScenarioMade ==
    ASSUME NEW t \in Target, NEW slow \in BOOLEAN, NEW p \in LoadProfile,
           NEW f \in FailureConfig, NEW b \in BOOLEAN
    PROVE  /\ NewScenario(t, slow, p, f, b) \in Scenario
           /\ NewScenario(t, slow, p, f, b).enabled = FALSE
           /\ NewScenario(t, slow, p, f, b).started = FALSE
  BY DEF NewScenario, Scenario

LEMMA ScenarioFields ==
    ASSUME NEW s \in Scenario
    PROVE  /\ s.profile \in LoadProfile /\ s.failure \in FailureConfig
           /\ s.enabled \in BOOLEAN /\ s.started \in BOOLEAN /\ s.slow \in BOOLEAN
           /\ s.profile.gradual \in BOOLEAN
           /\ s.failure.fails \in Draw /\ s.profile.delays \in Draw
           /\ s.profile.timeouts \in Draw
  BY DEF Scenario, LoadProfile, FailureConfig

(* What is enabled is timed, if it had a start for a degradation only.     *)
LEMMA EnabledIsTimed ==
    ASSUME NEW s \in Scenario, s.started => s.profile.gradual
    PROVE  WithEnabled(s) \in Scenario /\ Timed(WithEnabled(s))
<1> DEFINE e == TRUE
           b == s.started \/ s.profile.gradual
<1>1. e \in BOOLEAN /\ b \in BOOLEAN
  BY ScenarioFields
<1>2. e = TRUE /\ (b <=> s.profile.gradual)
  BY ScenarioFields
<1>3. WithEnabled(s) = With(s, s.profile, s.failure, e, b)
  BY DEF WithEnabled
<1> HIDE DEF e, b
<1>4. /\ WithEnabled(s) \in Scenario /\ WithEnabled(s).profile = s.profile
      /\ WithEnabled(s).enabled = e /\ WithEnabled(s).started = b
  <2>1. s.profile \in LoadProfile /\ s.failure \in FailureConfig
    BY ScenarioFields
  <2> QED BY <1>1, <1>3, <2>1, WithMade
<1>5. Timed(WithEnabled(s)) <=> (b <=> e /\ s.profile.gradual)
  BY <1>4 DEF Timed
<1> QED BY <1>4, <1>5, <1>2

(* What is disabled has no start.                                          *)
LEMMA DisabledIsTimed ==
    ASSUME NEW s \in Scenario
    PROVE  /\ WithDisabled(s) \in Scenario /\ Timed(WithDisabled(s))
           /\ ~WithDisabled(s).started
<1> DEFINE e == FALSE
<1>1. e \in BOOLEAN /\ e = FALSE
  OBVIOUS
<1>2. WithDisabled(s) = With(s, s.profile, s.failure, e, e)
  BY DEF WithDisabled
<1> HIDE DEF e
<1>3. /\ WithDisabled(s) \in Scenario
      /\ WithDisabled(s).enabled = e /\ WithDisabled(s).started = e
  <2>1. s.profile \in LoadProfile /\ s.failure \in FailureConfig
    BY ScenarioFields
  <2> QED BY <1>1, <1>2, <2>1, WithMade
<1> QED BY <1>1, <1>3 DEF Timed

(* A profile in place of another has not begun.                            *)
LEMMA NewProfileNotBegun ==
    ASSUME NEW s \in Scenario, NEW p \in LoadProfile
    PROVE  WithProfile(s, p) \in Scenario /\ ~WithProfile(s, p).started
<1> DEFINE e == FALSE
<1>1. e \in BOOLEAN /\ e = FALSE
  OBVIOUS
<1>2. WithProfile(s, p) = With(s, p, s.failure, s.enabled, e)
  BY DEF WithProfile
<1> HIDE DEF e
<1>3. s.failure \in FailureConfig /\ s.enabled \in BOOLEAN
  BY ScenarioFields
<1> QED BY <1>1, <1>2, <1>3, WithMade

(* Another failure configuration touches no degradation.                   *)
LEMMA NewFailureOnly ==
    ASSUME NEW s \in Scenario, NEW f \in FailureConfig
    PROVE  /\ WithFailure(s, f) \in Scenario
           /\ WithFailure(s, f).started = s.started
           /\ WithFailure(s, f).profile = s.profile
<1>1. s.profile \in LoadProfile /\ s.enabled \in BOOLEAN /\ s.started \in BOOLEAN
  BY ScenarioFields
<1>2. WithFailure(s, f) = With(s, s.profile, f, s.enabled, s.started)
  BY DEF WithFailure
<1> QED BY <1>1, <1>2, WithMade

(* Nor does enabling alone.                                                *)
LEMMA EnabledFlagOnly ==
    ASSUME NEW s \in Scenario, NEW e \in BOOLEAN
    PROVE  /\ With(s, s.profile, s.failure, e, s.started) \in Scenario
           /\ With(s, s.profile, s.failure, e, s.started).started = s.started
           /\ With(s, s.profile, s.failure, e, s.started).profile = s.profile
           /\ With(s, s.profile, s.failure, e, s.started).enabled = e
<1>1. /\ s.profile \in LoadProfile /\ s.failure \in FailureConfig
      /\ s.started \in BOOLEAN
  BY ScenarioFields
<1> QED BY <1>1, WithMade

(***************************************************************************)
(* The order of the manager's keys.                                        *)
(***************************************************************************)

(* A list of ids, each member of S once, and no other.                     *)
Enumerates(o, S) ==
    /\ o \in Seq(Id)
    /\ \A n \in 1..Len(o) : o[n] \in S
    /\ \A i \in S : \E n \in 1..Len(o) : o[n] = i
    /\ \A m, n \in 1..Len(o) : o[m] = o[n] => m = n

LEMMA OrderEnumerates ==
    ASSUME NEW o, NEW S
    PROVE  (/\ o \in Seq(Id) /\ {o[n] : n \in DOMAIN o} = S
            /\ \A m, n \in DOMAIN o : o[m] = o[n] => m = n) <=> Enumerates(o, S)
<1>1. o \in Seq(Id) => DOMAIN o = 1..Len(o)
  OBVIOUS
<1>2. o \in Seq(Id) =>
          (({o[n] : n \in DOMAIN o} = S) <=>
              /\ \A n \in 1..Len(o) : o[n] \in S
              /\ \A i \in S : \E n \in 1..Len(o) : o[n] = i)
  BY <1>1
<1> QED BY <1>1, <1>2 DEF Enumerates

(* Taking an id out leaves the others.                                     *)
LEMMA WithoutEnumerates ==
    ASSUME NEW o, NEW S, Enumerates(o, S), NEW i
    PROVE  Enumerates(Without(o, i), S \ {i})
<1>1. DOMAIN o = 1..Len(o) /\ Len(o) \in Nat
  BY DEF Enumerates
<1>2. CASE ~\E n \in DOMAIN o : o[n] = i
  <2>1. Without(o, i) = o
    BY <1>2 DEF Without
  <2>2. S \ {i} = S
    BY <1>1, <1>2 DEF Enumerates
  <2> QED BY <2>1, <2>2
<1>3. CASE \E n \in DOMAIN o : o[n] = i
  <2> DEFINE k == CHOOSE m \in DOMAIN o : o[m] = i
             w == [m \in 1..Len(o) - 1 |-> IF m < k THEN o[m] ELSE o[m + 1]]
  <2>1. k \in 1..Len(o) /\ o[k] = i
    BY <1>1, <1>3
  <2>2. Without(o, i) = w
    BY <1>3 DEF Without
  <2> HIDE DEF k
  <2>3. Len(o) - 1 \in Nat
    BY <1>1, <2>1
  <2>4. \A m \in 1..Len(o) - 1 : m \in 1..Len(o) /\ m + 1 \in 1..Len(o)
    BY <1>1
  <2>5. w \in Seq(Id) /\ Len(w) = Len(o) - 1
    <3>1. \A m \in 1..Len(o) : o[m] \in Id
      BY DEF Enumerates
    <3>2. w \in [1..Len(o) - 1 -> Id]
      BY <2>4, <3>1
    <3> HIDE DEF w
    <3> QED BY <2>3, <3>2
  <2>6. \A m \in 1..Len(w) : w[m] = IF m < k THEN o[m] ELSE o[m + 1]
    BY <2>5
  <2> HIDE DEF w
  <2>7. ASSUME NEW m \in 1..Len(w)
        PROVE  \E n \in 1..Len(o) : n # k /\ w[m] = o[n] /\ n = (IF m < k THEN m ELSE m + 1)
    <3>1. CASE m < k
      BY <2>1, <2>4, <2>5, <2>6, <3>1
    <3>2. CASE ~(m < k)
      <4>1. m + 1 \in 1..Len(o) /\ m + 1 # k
        BY <1>1, <2>1, <2>4, <2>5, <3>2
      <4> QED BY <2>6, <3>2, <4>1
    <3> QED BY <3>1, <3>2
  <2>8. \A m \in 1..Len(w) : w[m] \in S \ {i}
    BY <2>1, <2>7 DEF Enumerates
  <2>9. ASSUME NEW j \in S \ {i}
        PROVE  \E m \in 1..Len(w) : w[m] = j
    <3>1. PICK n \in 1..Len(o) : o[n] = j
      BY DEF Enumerates
    <3>2. CASE n < k
      <4>1. n \in 1..Len(w)
        BY <1>1, <2>1, <2>5, <3>2
      <4> QED BY <2>6, <3>1, <3>2, <4>1
    <3>3. CASE ~(n < k)
      <4>1. n # k
        BY <2>1, <3>1
      <4>2. n - 1 \in 1..Len(w) /\ ~(n - 1 < k) /\ (n - 1) + 1 = n
        BY <1>1, <2>1, <2>5, <3>3, <4>1
      <4> QED BY <2>6, <3>1, <4>2
    <3> QED BY <3>2, <3>3
  <2>10. ASSUME NEW m \in 1..Len(w), NEW n \in 1..Len(w), w[m] = w[n]
         PROVE  m = n
    <3>1. PICK p \in 1..Len(o) : w[m] = o[p] /\ p = (IF m < k THEN m ELSE m + 1)
      BY <2>7
    <3>2. PICK q \in 1..Len(o) : w[n] = o[q] /\ q = (IF n < k THEN n ELSE n + 1)
      BY <2>7
    <3>3. p = q
      BY <2>10, <3>1, <3>2 DEF Enumerates
    <3> QED BY <2>1, <2>5, <1>1, <3>1, <3>2, <3>3
  <2> QED BY <2>2, <2>5, <2>8, <2>9, <2>10 DEF Enumerates
<1> QED BY <1>2, <1>3

(* An id that is new goes to the end.                                      *)
LEMMA AppendEnumerates ==
    ASSUME NEW o, NEW S, Enumerates(o, S), NEW i \in Id, i \notin S
    PROVE  Enumerates(Append(o, i), S \cup {i})
<1> DEFINE a == Append(o, i)
<1>1. /\ a \in Seq(Id) /\ Len(a) = Len(o) + 1 /\ Len(o) \in Nat
      /\ \A n \in 1..Len(o) : a[n] = o[n]
      /\ a[Len(o) + 1] = i
  BY DEF Enumerates
<1> HIDE DEF a
<1>2. \A n \in 1..Len(a) : n \in 1..Len(o) \/ n = Len(o) + 1
  BY <1>1
<1>3. \A n \in 1..Len(o) : n \in 1..Len(a) /\ n # Len(o) + 1
  BY <1>1
<1>4. Len(o) + 1 \in 1..Len(a)
  BY <1>1
<1>5. \A n \in 1..Len(a) : a[n] \in S \cup {i}
  BY <1>1, <1>2 DEF Enumerates
<1>6. \A j \in S \cup {i} : \E n \in 1..Len(a) : a[n] = j
  BY <1>1, <1>3, <1>4 DEF Enumerates
<1>7. \A m, n \in 1..Len(a) : a[m] = a[n] => m = n
  BY <1>1, <1>2 DEF Enumerates
<1> QED BY <1>1, <1>5, <1>6, <1>7 DEF Enumerates, a

(***************************************************************************)
(* The manager's operations.                                               *)
(***************************************************************************)

(* A request that has been counted is not new.                             *)
CountedNotNew == \A r \in counted : request[r].state # "new"

(* The inductive invariant.                                                *)
ScenariosInv == ScenariosTypeOK /\ DegradationTimed /\ TotalsAddUp /\ CountedNotNew

RegisteredIds == {i \in Id : Registered(i)}

LEMMA OrderOK ==
    ScenariosTypeOK <=>
        /\ scenario \in [Id -> Scenario \cup {Absent}]
        /\ Enumerates(order, RegisteredIds)
        /\ stats \in [Id -> Stats]
        /\ total \in Stats
        /\ request \in [Request -> RequestRecord]
        /\ counted \subseteq Request
        /\ misfired \subseteq Id
  BY OrderEnumerates DEF ScenariosTypeOK, RegisteredIds

LEMMA OrderKept ==
    ASSUME scenario' \in [Id -> Scenario \cup {Absent}],
           Enumerates(order', RegisteredIds'),
           stats' \in [Id -> Stats], total' \in Stats,
           request' \in [Request -> RequestRecord], counted' \subseteq Request,
           misfired' \subseteq Id
    PROVE  ScenariosTypeOK'
  BY OrderEnumerates DEF ScenariosTypeOK, RegisteredIds

(* What is registered is a scenario.                                       *)
LEMMA RegisteredScenarios ==
    ASSUME scenario \in [Id -> Scenario \cup {Absent}], NEW i \in Id
    PROVE  Registered(i) <=> scenario[i] \in Scenario
  BY ScenariosAssumption DEF ScenariosAssumption, Registered

(* What is in time and what a failed request enabled is so by the id.      *)
LEMMA TimedIds ==
    DegradationTimed <=> \A i \in Id : scenario[i] # Absent => InTime(i)
  BY DEF DegradationTimed, Registered, InTime

(* If only one id's scenario changes, and is timed, all are in time.       *)
LEMMA OneInTime ==
    ASSUME DegradationTimed, NEW i \in Id,
           \A j \in Id : j # i => scenario'[j] = scenario[j],
           misfired' = misfired \ {i},
           scenario'[i] = Absent \/ Timed(scenario'[i])
    PROVE  \A j \in Id : scenario'[j] # Absent => InTime(j)'
<1>1. \A j \in Id : scenario[j] # Absent => InTime(j)
  BY TimedIds
<1>2. i \notin misfired' /\ \A j \in Id : j # i => (j \in misfired' <=> j \in misfired)
  OBVIOUS
<1> QED BY <1>1, <1>2 DEF InTime, Timed

(* If the same ids are registered, each with a scenario in time, and       *)
(* nothing was counted meanwhile, all is in order.                         *)
LEMMA SameIdsKeep ==
    ASSUME ScenariosInv, UNCHANGED <<order, stats, total, request, counted>>,
           scenario' \in [Id -> Scenario \cup {Absent}],
           \A i \in Id : scenario'[i] = Absent <=> scenario[i] = Absent,
           misfired' \subseteq Id,
           \A i \in Id : scenario'[i] # Absent => InTime(i)'
    PROVE  ScenariosInv'
<1>1. RegisteredIds' = RegisteredIds
  BY DEF RegisteredIds, Registered
<1>2. ScenariosTypeOK'
  <2>1. /\ Enumerates(order', RegisteredIds') /\ stats' \in [Id -> Stats]
        /\ total' \in Stats /\ request' \in [Request -> RequestRecord]
        /\ counted' \subseteq Request
    BY <1>1, OrderOK DEF ScenariosInv, Enumerates
  <2> QED BY <2>1, OrderKept
<1>3. DegradationTimed'
  BY DEF DegradationTimed, Registered, InTime
<1>4. TotalsAddUp' /\ CountedNotNew'
  BY DEF ScenariosInv, TotalsAddUp, CountedNotNew, FailedNow, TimedOutNow, InjectedNow
<1> QED BY <1>2, <1>3, <1>4 DEF ScenariosInv

LEMMA EnableKeeps ==
    ASSUME ScenariosInv, NEW i \in Id, NEW profiles \in SUBSET LoadProfile,
           NEW failures \in SUBSET FailureConfig, Enable(i, profiles, failures)
    PROVE  ScenariosInv'
<1>1. scenario \in [Id -> Scenario \cup {Absent}] /\ scenario[i] \in Scenario
  BY OrderOK, RegisteredScenarios DEF ScenariosInv, Enable
<1>2. PICK s \in {scenario[i]} \cup {WithProfile(scenario[i], p) : p \in profiles} :
          \E f \in {s.failure} \cup failures :
              scenario' = [scenario EXCEPT ![i] = WithEnabled(WithFailure(s, f))]
  BY DEF Enable
<1>3. PICK f \in {s.failure} \cup failures :
          scenario' = [scenario EXCEPT ![i] = WithEnabled(WithFailure(s, f))]
  BY <1>2
<1>4. s \in Scenario /\ (s.started => s.profile.gradual)
  <2>1. InTime(i)
    BY <1>1, RegisteredScenarios DEF ScenariosInv, DegradationTimed, InTime
  <2>2. CASE s = scenario[i]
    BY <1>1, <2>1, <2>2 DEF InTime
  <2>3. ASSUME NEW p \in profiles, s = WithProfile(scenario[i], p)
        PROVE  s \in Scenario /\ (s.started => s.profile.gradual)
    BY <1>1, <2>3, NewProfileNotBegun
  <2> QED BY <1>2, <2>2, <2>3
<1>5. f \in FailureConfig
  BY <1>3, <1>4, ScenarioFields
<1> DEFINE new == WithEnabled(WithFailure(s, f))
<1>6. new \in Scenario /\ Timed(new)
  <2> DEFINE w == WithFailure(s, f)
  <2>1. w \in Scenario /\ (w.started => w.profile.gradual)
    BY <1>4, <1>5, NewFailureOnly
  <2> HIDE DEF w
  <2>2. WithEnabled(w) \in Scenario /\ Timed(WithEnabled(w))
    BY <2>1, EnabledIsTimed
  <2> QED BY <2>2 DEF w
<1> HIDE DEF new
<1>7. misfired' = misfired \ {i} /\ misfired' \subseteq Id
  BY OrderOK DEF ScenariosInv, Enable
<1>8. scenario' = [scenario EXCEPT ![i] = new]
  BY <1>3 DEF new
<1>9. new # Absent /\ scenario[i] # Absent
  BY <1>1, <1>6, ScenariosAssumption DEF ScenariosAssumption
<1>10. scenario' \in [Id -> Scenario \cup {Absent}] /\ scenario'[i] = new
       /\ \A j \in Id : j # i => scenario'[j] = scenario[j]
  BY <1>1, <1>6, <1>8
<1>11. \A j \in Id : scenario'[j] = Absent <=> scenario[j] = Absent
  BY <1>9, <1>10
<1>12. \A j \in Id : scenario'[j] # Absent => InTime(j)'
  BY <1>6, <1>7, <1>10, OneInTime DEF ScenariosInv
<1> QED BY <1>7, <1>10, <1>11, <1>12, SameIdsKeep DEF Enable

(* A request that fails enables, and gives no start.                       *)
LEMMA EnableFailsKeeps ==
    ASSUME ScenariosInv, NEW i \in Id, EnableFails(i)
    PROVE  ScenariosInv'
<1> DEFINE yes == TRUE
           old == scenario[i]
           new == With(old, old.profile, old.failure, yes, old.started)
<1>1. scenario \in [Id -> Scenario \cup {Absent}] /\ old \in Scenario
  BY OrderOK, RegisteredScenarios DEF ScenariosInv, EnableFails
<1>2. scenario' = [scenario EXCEPT ![i] = new]
  BY DEF EnableFails
<1>3. yes = TRUE /\ yes \in BOOLEAN
  OBVIOUS
<1> HIDE DEF yes
<1>4. /\ new \in Scenario /\ new.profile = old.profile
      /\ new.enabled = yes /\ new.started = old.started
  BY <1>1, <1>3, EnabledFlagOnly
<1> HIDE DEF new
<1>5. new # Absent /\ scenario[i] # Absent
  BY <1>1, <1>4, ScenariosAssumption DEF ScenariosAssumption
<1>6. scenario' \in [Id -> Scenario \cup {Absent}] /\ scenario'[i] = new
      /\ \A j \in Id : j # i => scenario'[j] = scenario[j]
  BY <1>1, <1>2, <1>4
<1>7. \A j \in Id : scenario'[j] = Absent <=> scenario[j] = Absent
  BY <1>5, <1>6
<1>8. misfired' = (IF old.enabled THEN misfired ELSE misfired \cup {i})
      /\ misfired' \subseteq Id
  BY OrderOK DEF ScenariosInv, EnableFails
<1>9. \A j \in Id : scenario[j] # Absent => InTime(j)
  BY TimedIds DEF ScenariosInv
<1>10. InTime(i)'
  <2>1. old.started <=> old.enabled /\ old.profile.gradual /\ i \notin misfired
    BY <1>5, <1>9 DEF InTime
  <2>2. i \in misfired' <=> i \in misfired \/ ~old.enabled
    BY <1>8
  <2>3. InTime(i)' <=> (new.started <=> new.enabled /\ new.profile.gradual /\ i \notin misfired')
    BY <1>6 DEF InTime
  <2> HIDE DEF old
  <2> QED BY <1>3, <1>4, <2>1, <2>2, <2>3
<1>11. \A j \in Id : j # i => (j \in misfired' <=> j \in misfired)
  BY <1>8
<1>12. \A j \in Id : scenario'[j] # Absent => InTime(j)'
  BY <1>6, <1>9, <1>10, <1>11 DEF InTime
<1> QED BY <1>6, <1>7, <1>8, <1>12, SameIdsKeep DEF EnableFails

LEMMA DisableKeeps ==
    ASSUME ScenariosInv, NEW i \in Id, Disable(i)
    PROVE  ScenariosInv'
<1> DEFINE new == WithDisabled(scenario[i])
<1>1. scenario \in [Id -> Scenario \cup {Absent}] /\ scenario[i] \in Scenario
  BY OrderOK, RegisteredScenarios DEF ScenariosInv, Disable
<1>2. new \in Scenario /\ Timed(new)
  BY <1>1, DisabledIsTimed
<1>3. scenario' = [scenario EXCEPT ![i] = new]
  BY DEF Disable
<1> HIDE DEF new
<1>4. misfired' = misfired \ {i} /\ misfired' \subseteq Id
  BY OrderOK DEF ScenariosInv, Disable
<1>5. new # Absent /\ scenario[i] # Absent
  BY <1>1, <1>2, ScenariosAssumption DEF ScenariosAssumption
<1>6. scenario' \in [Id -> Scenario \cup {Absent}] /\ scenario'[i] = new
       /\ \A j \in Id : j # i => scenario'[j] = scenario[j]
  BY <1>1, <1>2, <1>3
<1>7. \A j \in Id : scenario'[j] = Absent <=> scenario[j] = Absent
  BY <1>5, <1>6
<1>8. \A j \in Id : scenario'[j] # Absent => InTime(j)'
  BY <1>2, <1>4, <1>6, OneInTime DEF ScenariosInv
<1> QED BY <1>4, <1>6, <1>7, <1>8, SameIdsKeep DEF Disable

(* No statistics.                                                          *)
LEMMA NoStatsMade ==
    NoStats \in Stats /\ NoStats.triggered = 0 /\ NoStats.failures = 0 /\ NoStats.timeouts = 0
  BY DEF NoStats, Stats

(* A registration or its end begins the scenario's statistics anew.        *)
LEMMA NewStatsKeep ==
    ASSUME ScenariosInv, NEW i \in Id, stats' = [stats EXCEPT ![i] = NoStats],
           UNCHANGED <<total, request, counted>>
    PROVE  /\ stats' \in [Id -> Stats]
           /\ TotalsAddUp' /\ CountedNotNew'
<1> DEFINE none == NoStats
<1>1. none \in Stats /\ none.triggered = 0 /\ none.failures = 0 /\ none.timeouts = 0
  BY NoStatsMade
<1>2. stats' = [stats EXCEPT ![i] = none]
  OBVIOUS
<1> HIDE DEF none
<1>3. stats \in [Id -> Stats] /\ total \in Stats
  BY OrderOK DEF ScenariosInv
<1>4. stats' \in [Id -> Stats] /\ stats'[i] = none
      /\ \A j \in Id : j # i => stats'[j] = stats[j]
  BY <1>1, <1>2, <1>3
<1>5. total.triggered >= 0 /\ total.failures >= 0 /\ total.timeouts >= 0
  BY <1>3 DEF Stats
<1>6. \A j \in Id : /\ stats'[j].failures <= total.failures
                    /\ stats'[j].timeouts <= total.timeouts
                    /\ stats'[j].triggered <= total.triggered
  BY <1>1, <1>4, <1>5 DEF ScenariosInv, TotalsAddUp
<1>7. TotalsAddUp'
  BY <1>6 DEF ScenariosInv, TotalsAddUp, FailedNow, TimedOutNow, InjectedNow
<1>8. CountedNotNew'
  BY DEF ScenariosInv, CountedNotNew
<1> QED BY <1>4, <1>7, <1>8

LEMMA RegisterKeeps ==
    ASSUME ScenariosInv, NEW i \in Id, NEW s \in Scenario, Timed(s), Register(i, s)
    PROVE  ScenariosInv'
<1>1. /\ scenario \in [Id -> Scenario \cup {Absent}]
      /\ Enumerates(order, RegisteredIds)
  BY OrderOK DEF ScenariosInv
<1>2. scenario' = [scenario EXCEPT ![i] = s] /\ order' = Append(Without(order, i), i)
  BY DEF Register
<1>3. /\ scenario' \in [Id -> Scenario \cup {Absent}] /\ scenario'[i] = s
      /\ \A j \in Id : j # i => scenario'[j] = scenario[j]
  BY <1>1, <1>2
<1>4. s # Absent
  BY ScenariosAssumption DEF ScenariosAssumption
<1>5. RegisteredIds' = (RegisteredIds \ {i}) \cup {i}
  BY <1>3, <1>4 DEF RegisteredIds, Registered
<1>6. Enumerates(order', RegisteredIds')
  <2>1. Enumerates(Without(order, i), RegisteredIds \ {i})
    BY <1>1, WithoutEnumerates
  <2>2. Enumerates(Append(Without(order, i), i), (RegisteredIds \ {i}) \cup {i})
    BY <2>1, AppendEnumerates
  <2> QED BY <1>2, <1>5, <2>2
<1>7. /\ stats' \in [Id -> Stats] /\ TotalsAddUp' /\ CountedNotNew'
      /\ UNCHANGED <<total, request, counted>>
      /\ misfired' = misfired \ {i}
  BY NewStatsKeep DEF Register
<1>8. ScenariosTypeOK'
  <2>1. /\ total' \in Stats /\ request' \in [Request -> RequestRecord]
        /\ counted' \subseteq Request /\ misfired' \subseteq Id
    BY <1>7, OrderOK DEF ScenariosInv
  <2> QED BY <1>3, <1>6, <1>7, <2>1, OrderKept
<1>9. DegradationTimed'
  <2>1. \A j \in Id : scenario'[j] # Absent => InTime(j)'
    BY <1>3, <1>7, OneInTime DEF ScenariosInv
  <2> QED BY <2>1 DEF DegradationTimed, Registered, InTime
<1> QED BY <1>7, <1>8, <1>9 DEF ScenariosInv

LEMMA UnregisterKeeps ==
    ASSUME ScenariosInv, NEW i \in Id, Unregister(i)
    PROVE  ScenariosInv'
<1>1. /\ scenario \in [Id -> Scenario \cup {Absent}]
      /\ Enumerates(order, RegisteredIds)
  BY OrderOK DEF ScenariosInv
<1>2. scenario' = [scenario EXCEPT ![i] = Absent] /\ order' = Without(order, i)
  BY DEF Unregister
<1>3. /\ scenario' \in [Id -> Scenario \cup {Absent}] /\ scenario'[i] = Absent
      /\ \A j \in Id : j # i => scenario'[j] = scenario[j]
  BY <1>1, <1>2
<1>4. RegisteredIds' = RegisteredIds \ {i}
  BY <1>3 DEF RegisteredIds, Registered
<1>5. Enumerates(order', RegisteredIds')
  BY <1>1, <1>2, <1>4, WithoutEnumerates
<1>6. /\ stats' \in [Id -> Stats] /\ TotalsAddUp' /\ CountedNotNew'
      /\ UNCHANGED <<total, request, counted>>
      /\ misfired' = misfired \ {i}
  BY NewStatsKeep DEF Unregister
<1>7. ScenariosTypeOK'
  <2>1. /\ total' \in Stats /\ request' \in [Request -> RequestRecord]
        /\ counted' \subseteq Request /\ misfired' \subseteq Id
    BY <1>6, OrderOK DEF ScenariosInv
  <2> QED BY <1>3, <1>5, <1>6, <2>1, OrderKept
<1>8. DegradationTimed'
  <2>1. \A j \in Id : scenario'[j] # Absent => InTime(j)'
    BY <1>3, <1>6, OneInTime DEF ScenariosInv
  <2> QED BY <2>1 DEF DegradationTimed, Registered, InTime
<1> QED BY <1>6, <1>7, <1>8 DEF ScenariosInv

(* A reset empties the totals and what they count together.                *)
LEMMA ResetKeeps ==
    ASSUME ScenariosInv, NEW enabled, Reset(enabled)
    PROVE  ScenariosInv'
<1>1. /\ scenario \in [Id -> Scenario \cup {Absent}]
      /\ Enumerates(order, RegisteredIds)
      /\ request \in [Request -> RequestRecord]
  BY OrderOK DEF ScenariosInv
<1>2. scenario' = AfterReset(enabled) /\ UNCHANGED <<order, request>>
      /\ counted' = {} /\ misfired' = {}
  BY DEF Reset
<1>3. ASSUME NEW i \in Id
      PROVE  /\ scenario'[i] \in Scenario \cup {Absent}
             /\ scenario'[i] = Absent <=> scenario[i] = Absent
             /\ scenario'[i] # Absent => InTime(i)'
  <2>1. CASE scenario[i] = Absent
    BY <1>2, <2>1 DEF AfterReset, Registered
  <2>2. CASE scenario[i] # Absent
    <3> DEFINE off == WithDisabled(scenario[i])
    <3>1. scenario[i] \in Scenario
      BY <1>1, <2>2
    <3>2. off \in Scenario /\ Timed(off) /\ ~off.started
      BY <3>1, DisabledIsTimed
    <3>3. scenario'[i] = off \/ scenario'[i] = WithEnabled(off)
      BY <1>2, <2>2 DEF AfterReset, Registered
    <3> HIDE DEF off
    <3>4. WithEnabled(off) \in Scenario /\ Timed(WithEnabled(off))
      BY <3>2, EnabledIsTimed
    <3>5. scenario'[i] \in Scenario /\ Timed(scenario'[i])
      BY <3>2, <3>3, <3>4
    <3>6. InTime(i)'
      BY <1>2, <3>5 DEF InTime, Timed
    <3> QED BY <2>2, <3>5, <3>6, ScenariosAssumption DEF ScenariosAssumption
  <2> QED BY <2>1, <2>2
<1>4. scenario' \in [Id -> Scenario \cup {Absent}]
  BY <1>2, <1>3 DEF AfterReset
<1>5. RegisteredIds' = RegisteredIds
  BY <1>3 DEF RegisteredIds, Registered
<1> DEFINE none == NoStats
<1>6. none \in Stats /\ none.triggered = 0 /\ none.failures = 0 /\ none.timeouts = 0
  BY NoStatsMade
<1>7. stats' = [i \in Id |-> none] /\ total' = none
  BY DEF Reset
<1> HIDE DEF none
<1>8. ScenariosTypeOK'
  <2>1. /\ stats' \in [Id -> Stats] /\ total' \in Stats
        /\ request' \in [Request -> RequestRecord] /\ counted' \subseteq Request
        /\ misfired' \subseteq Id
    BY <1>1, <1>2, <1>6, <1>7
  <2>2. Enumerates(order', RegisteredIds')
    BY <1>1, <1>2, <1>5
  <2> QED BY <1>4, <2>1, <2>2, OrderKept
<1>9. DegradationTimed'
  BY <1>3 DEF DegradationTimed, Registered, InTime
<1>10. TotalsAddUp'
  <2>1. FailedNow' = {} /\ TimedOutNow' = {} /\ InjectedNow' = {}
    BY <1>2 DEF FailedNow, TimedOutNow, InjectedNow
  <2>2. Cardinality({}) = 0
    BY FS_EmptySet
  <2>3. \A i \in Id : stats'[i] = none
    BY <1>7
  <2> QED BY <1>6, <1>7, <2>1, <2>2, <2>3 DEF TotalsAddUp
<1>11. CountedNotNew'
  BY <1>2 DEF CountedNotNew
<1> QED BY <1>8, <1>9, <1>10, <1>11 DEF ScenariosInv

(***************************************************************************)
(* Requests to the services.                                               *)
(***************************************************************************)

LEMMA RequestMade ==
    ASSUME NEW x \in RequestState, NEW d \in BOOLEAN, NEW t \in BOOLEAN, NEW S \in SUBSET Id
    PROVE  /\ NewRequest(x, d, t, S) \in RequestRecord
           /\ NewRequest(x, d, t, S).state = x /\ NewRequest(x, d, t, S).delayed = d
           /\ NewRequest(x, d, t, S).timeout = t
  BY DEF NewRequest, RequestRecord

(* What counting adds.                                                     *)
LEMMA CountMade ==
    ASSUME NEW s \in Stats, NEW a \in BOOLEAN, NEW b \in BOOLEAN, NEW c \in BOOLEAN
    PROVE  /\ Count(s, a, b, c) \in Stats
           /\ Count(s, a, b, c).triggered = s.triggered + Bit(a)
           /\ Count(s, a, b, c).failures = s.failures + Bit(b)
           /\ Count(s, a, b, c).timeouts = s.timeouts + Bit(c)
<1>1. Bit(a) \in Nat /\ Bit(b) \in Nat /\ Bit(c) \in Nat
  BY DEF Bit
<1>2. s.triggered \in Nat /\ s.failures \in Nat /\ s.timeouts \in Nat
  BY DEF Stats
<1> DEFINE x == s.triggered + Bit(a)
           y == s.failures + Bit(b)
           z == s.timeouts + Bit(c)
<1>3. x \in Nat /\ y \in Nat /\ z \in Nat
  BY <1>1, <1>2
<1>4. Count(s, a, b, c) = [triggered |-> x, failures |-> y, timeouts |-> z]
  BY DEF Count
<1> HIDE DEF x, y, z
<1>5. /\ Count(s, a, b, c) \in Stats
      /\ Count(s, a, b, c).triggered = x /\ Count(s, a, b, c).failures = y
      /\ Count(s, a, b, c).timeouts = z
  BY <1>3, <1>4 DEF Stats
<1> QED BY <1>5 DEF x, y, z

(* A set that gains a member, if it does, is larger by one.                *)
LEMMA GainCounts ==
    ASSUME NEW S, IsFiniteSet(S), NEW r, r \notin S, NEW b \in BOOLEAN,
           NEW T, T = IF b THEN S \cup {r} ELSE S
    PROVE  Cardinality(T) = Cardinality(S) + Bit(b)
<1>1. Cardinality(S) \in Nat
  BY FS_CardinalityType
<1>2. CASE b
  <2>1. Cardinality(S \cup {r}) = Cardinality(S) + 1
    BY FS_AddElement
  <2> QED BY <1>2, <2>1 DEF Bit
<1>3. CASE ~b
  BY <1>1, <1>3 DEF Bit
<1> QED BY <1>2, <1>3

(* What a request counts for, by what becomes of it.                       *)
Triggers(q) == Bit(q.state = "failed" \/ q.delayed)
FailsOne(q) == Bit(q.state = "failed")
TimesOut(q) == Bit(q.timeout)

(* A request that was new is counted by what becomes of it.                *)
LEMMA DispatchCounts ==
    ASSUME ScenariosInv, NEW r \in Request, request[r].state = "new",
           NEW q \in RequestRecord, q.state # "new",
           request' = [request EXCEPT ![r] = q], counted' = counted \cup {r}
    PROVE  /\ Cardinality(FailedNow') = Cardinality(FailedNow) + FailsOne(q)
           /\ Cardinality(TimedOutNow') = Cardinality(TimedOutNow) + TimesOut(q)
           /\ Cardinality(InjectedNow') = Cardinality(InjectedNow) + Triggers(q)
           /\ CountedNotNew'
           /\ request' \in [Request -> RequestRecord] /\ counted' \subseteq Request
<1>1. request \in [Request -> RequestRecord] /\ counted \subseteq Request /\ r \notin counted
  BY OrderOK DEF ScenariosInv, CountedNotNew
<1>2. request' \in [Request -> RequestRecord] /\ request'[r] = q
      /\ \A p \in Request : p # r => request'[p] = request[p]
  BY <1>1
<1>3. IsFiniteSet(counted)
  BY <1>1, FS_Subset, ScenariosAssumption DEF ScenariosAssumption
<1>4. /\ FailedNow \subseteq counted /\ TimedOutNow \subseteq counted
      /\ InjectedNow \subseteq counted
  BY DEF FailedNow, TimedOutNow, InjectedNow
<1>5. IsFiniteSet(FailedNow) /\ IsFiniteSet(TimedOutNow) /\ IsFiniteSet(InjectedNow)
  BY <1>3, <1>4, FS_Subset
<1>6. Cardinality(FailedNow') = Cardinality(FailedNow) + FailsOne(q)
  <2> DEFINE b == q.state = "failed"
  <2>1. FailedNow' = IF b THEN FailedNow \cup {r} ELSE FailedNow
    BY <1>1, <1>2 DEF FailedNow
  <2>2. b \in BOOLEAN
    OBVIOUS
  <2> HIDE DEF b
  <2>3. Cardinality(FailedNow') = Cardinality(FailedNow) + Bit(b)
    BY <1>1, <1>4, <1>5, <2>1, <2>2, GainCounts
  <2> QED BY <2>3 DEF b, FailsOne
<1>7. Cardinality(TimedOutNow') = Cardinality(TimedOutNow) + TimesOut(q)
  <2> DEFINE b == q.timeout
  <2>1. TimedOutNow' = IF b THEN TimedOutNow \cup {r} ELSE TimedOutNow
    BY <1>1, <1>2 DEF TimedOutNow
  <2>2. b \in BOOLEAN
    BY DEF RequestRecord
  <2> HIDE DEF b
  <2>3. Cardinality(TimedOutNow') = Cardinality(TimedOutNow) + Bit(b)
    BY <1>1, <1>4, <1>5, <2>1, <2>2, GainCounts
  <2> QED BY <2>3 DEF b, TimesOut
<1>8. Cardinality(InjectedNow') = Cardinality(InjectedNow) + Triggers(q)
  <2> DEFINE b == q.state = "failed" \/ q.delayed
  <2>1. InjectedNow' = IF b THEN InjectedNow \cup {r} ELSE InjectedNow
    BY <1>1, <1>2 DEF InjectedNow, FailedNow
  <2>2. b \in BOOLEAN
    OBVIOUS
  <2> HIDE DEF b
  <2>3. Cardinality(InjectedNow') = Cardinality(InjectedNow) + Bit(b)
    BY <1>1, <1>4, <1>5, <2>1, <2>2, GainCounts
  <2> QED BY <2>3 DEF b, Triggers
<1>9. CountedNotNew'
  BY <1>1, <1>2 DEF ScenariosInv, CountedNotNew
<1> QED BY <1>1, <1>2, <1>6, <1>7, <1>8, <1>9

(* What a request is counted as is added to the totals, and no scenario    *)
(* counts more of it.                                                      *)
LEMMA CountingKeeps ==
    ASSUME ScenariosInv, NEW r \in Request, request[r].state = "new",
           NEW q \in RequestRecord, q.state # "new",
           request' = [request EXCEPT ![r] = q], counted' = counted \cup {r},
           total' \in Stats, total'.triggered = total.triggered + Triggers(q),
           total'.failures = total.failures + FailsOne(q),
           total'.timeouts = total.timeouts + TimesOut(q),
           stats' \in [Id -> Stats],
           \A i \in Id : /\ stats'[i].triggered <= stats[i].triggered + Triggers(q)
                         /\ stats'[i].failures <= stats[i].failures + FailsOne(q)
                         /\ stats'[i].timeouts <= stats[i].timeouts + TimesOut(q),
           UNCHANGED <<scenario, order, misfired>>
    PROVE  ScenariosInv'
<1>1. /\ Cardinality(FailedNow') = Cardinality(FailedNow) + FailsOne(q)
      /\ Cardinality(TimedOutNow') = Cardinality(TimedOutNow) + TimesOut(q)
      /\ Cardinality(InjectedNow') = Cardinality(InjectedNow) + Triggers(q)
      /\ CountedNotNew'
      /\ request' \in [Request -> RequestRecord] /\ counted' \subseteq Request
  BY DispatchCounts
<1>2. /\ scenario \in [Id -> Scenario \cup {Absent}] /\ Enumerates(order, RegisteredIds)
      /\ total \in Stats /\ stats \in [Id -> Stats] /\ misfired \subseteq Id
  BY OrderOK DEF ScenariosInv
<1>3. Triggers(q) \in Nat /\ FailsOne(q) \in Nat /\ TimesOut(q) \in Nat
  BY DEF Triggers, FailsOne, TimesOut, Bit
<1>4. RegisteredIds' = RegisteredIds
  BY DEF RegisteredIds, Registered
<1>5. ScenariosTypeOK'
  BY <1>1, <1>2, <1>4, OrderKept
<1>6. DegradationTimed'
  BY DEF ScenariosInv, DegradationTimed, Registered
<1>7. TotalsAddUp'
  <2>1. /\ total'.failures = Cardinality(FailedNow')
        /\ total'.timeouts = Cardinality(TimedOutNow')
        /\ total'.triggered = Cardinality(InjectedNow')
    BY <1>1 DEF ScenariosInv, TotalsAddUp
  <2>2. ASSUME NEW i \in Id
        PROVE  /\ stats'[i].failures <= total'.failures
               /\ stats'[i].timeouts <= total'.timeouts
               /\ stats'[i].triggered <= total'.triggered
    <3>1. /\ stats[i].failures <= total.failures
          /\ stats[i].timeouts <= total.timeouts
          /\ stats[i].triggered <= total.triggered
      BY DEF ScenariosInv, TotalsAddUp
    <3>2. /\ stats[i].failures \in Nat /\ stats[i].timeouts \in Nat /\ stats[i].triggered \in Nat
          /\ stats'[i].failures \in Nat /\ stats'[i].timeouts \in Nat
          /\ stats'[i].triggered \in Nat
          /\ total.failures \in Nat /\ total.timeouts \in Nat /\ total.triggered \in Nat
      BY <1>2 DEF Stats
    <3> QED BY <1>3, <3>1, <3>2
  <2> QED BY <2>1, <2>2 DEF TotalsAddUp
<1> QED BY <1>1, <1>5, <1>6, <1>7 DEF ScenariosInv

LEMMA ShouldFailKeeps ==
    ASSUME ScenariosInv, NEW r \in Request, NEW failing \in SUBSET Id,
           request[r].state = "new", ShouldFail(r, failing),
           counted' = counted \cup {r}, UNCHANGED <<scenario, order, misfired>>
    PROVE  ScenariosInv'
<1>1. PICK i \in failing :
          /\ stats' = [stats EXCEPT ![i] = Count(@, TRUE, TRUE, FALSE)]
          /\ total' = Count(total, TRUE, TRUE, FALSE)
          /\ request' = [request EXCEPT ![r] = NewRequest("failed", FALSE, FALSE, {i})]
  BY DEF ShouldFail
<1> DEFINE yes == TRUE
           no == FALSE
           x == "failed"
           q == NewRequest(x, no, no, {i})
           c == Count(stats[i], yes, yes, no)
<1>2. yes \in BOOLEAN /\ no \in BOOLEAN /\ x \in RequestState /\ {i} \in SUBSET Id
  BY DEF RequestState
<1>3. stats' = [stats EXCEPT ![i] = c] /\ total' = Count(total, yes, yes, no)
      /\ request' = [request EXCEPT ![r] = q]
  BY <1>1
<1>4. x = "failed" /\ x # "new" /\ yes /\ ~no
  OBVIOUS
<1> HIDE DEF yes, no, x
<1>5. /\ q \in RequestRecord /\ q.state = x /\ q.delayed = no /\ q.timeout = no
  BY <1>2, RequestMade
<1>6. stats \in [Id -> Stats] /\ total \in Stats
  BY OrderOK DEF ScenariosInv
<1>7. /\ c \in Stats /\ c.triggered = stats[i].triggered + Bit(yes)
      /\ c.failures = stats[i].failures + Bit(yes) /\ c.timeouts = stats[i].timeouts + Bit(no)
  BY <1>2, <1>6, CountMade
<1> HIDE DEF q, c
<1>8. stats' \in [Id -> Stats] /\ stats'[i] = c
      /\ \A j \in Id : j # i => stats'[j] = stats[j]
  BY <1>3, <1>6, <1>7
<1>9. /\ total' \in Stats /\ total'.triggered = total.triggered + Bit(yes)
      /\ total'.failures = total.failures + Bit(yes)
      /\ total'.timeouts = total.timeouts + Bit(no)
  BY <1>2, <1>3, <1>6, CountMade
<1>10. /\ Bit(yes) = Triggers(q) /\ Bit(yes) = FailsOne(q) /\ Bit(no) = TimesOut(q)
       /\ Bit(yes) \in Nat /\ Bit(no) \in Nat
  BY <1>4, <1>5 DEF Bit, Triggers, FailsOne, TimesOut
<1>11. ASSUME NEW j \in Id
       PROVE  /\ stats'[j].triggered <= stats[j].triggered + Triggers(q)
              /\ stats'[j].failures <= stats[j].failures + FailsOne(q)
              /\ stats'[j].timeouts <= stats[j].timeouts + TimesOut(q)
  <2>1. /\ stats[j].triggered \in Nat /\ stats[j].failures \in Nat /\ stats[j].timeouts \in Nat
    BY <1>6 DEF Stats
  <2>2. CASE j = i
    BY <1>7, <1>8, <1>10, <2>1, <2>2
  <2>3. CASE j # i
    BY <1>8, <1>10, <2>1, <2>3
  <2> QED BY <2>2, <2>3
<1>12. q.state # "new"
  BY <1>4, <1>5
<1> QED BY <1>3, <1>5, <1>8, <1>9, <1>10, <1>11, <1>12, CountingKeeps

LEMMA CalculateDelayKeeps ==
    ASSUME ScenariosInv, NEW r \in Request, NEW failing \in SUBSET Id,
           NEW active \in SUBSET Id, NEW slowing \in SUBSET Id,
           request[r].state = "new", CalculateDelay(r, failing, active, slowing),
           counted' = counted \cup {r}, UNCHANGED <<scenario, order, misfired>>
    PROVE  ScenariosInv'
<1>1. PICK late \in Drawn(slowing, [i \in slowing |-> scenario[i].profile.delays]),
           timedOut \in Drawn(active, [i \in active |-> scenario[i].profile.timeouts]) :
          /\ stats' = [i \in Id |->
                 Count(stats[i], i \in late, FALSE,
                       i \in timedOut /\ Registered(i) /\ scenario[i].slow)]
          /\ total' = CountDelay(late, timedOut)
          /\ request' = [request EXCEPT ![r] =
                 NewRequest(IF late = {} /\ timedOut = {} THEN "handled" ELSE "asleep",
                            late # {}, timedOut # {},
                            late \cup {i \in timedOut : ~scenario[i].slow})]
  BY DEF CalculateDelay
<1> DEFINE no == FALSE
           t == late # {}
           o == timedOut # {}
           x == IF late = {} /\ timedOut = {} THEN "handled" ELSE "asleep"
           S == late \cup {i \in timedOut : ~scenario[i].slow}
           q == NewRequest(x, t, o, S)
           l(i) == i \in late
           m(i) == i \in timedOut /\ Registered(i) /\ scenario[i].slow
           c(i) == Count(stats[i], l(i), no, m(i))
<1>2. late \in SUBSET Id /\ timedOut \in SUBSET Id
  BY DEF Drawn
<1>3. /\ no \in BOOLEAN /\ t \in BOOLEAN /\ o \in BOOLEAN /\ x \in RequestState
      /\ S \in SUBSET Id /\ x # "new" /\ x # "failed" /\ ~no
      /\ \A i \in Id : l(i) \in BOOLEAN /\ m(i) \in BOOLEAN
  BY <1>2 DEF RequestState
<1>4. /\ stats' = [i \in Id |-> c(i)] /\ total' = Count(total, t, no, o)
      /\ request' = [request EXCEPT ![r] = q]
  BY <1>1 DEF CountDelay
<1>5. \A i \in Id : (l(i) => t) /\ (m(i) => o)
  OBVIOUS
<1> HIDE DEF no, t, o, x, S, l, m
<1>6. q \in RequestRecord /\ q.state = x /\ q.delayed = t /\ q.timeout = o
  BY <1>3, RequestMade
<1>7. stats \in [Id -> Stats] /\ total \in Stats
  BY OrderOK DEF ScenariosInv
<1>8. \A i \in Id : /\ c(i) \in Stats /\ c(i).triggered = stats[i].triggered + Bit(l(i))
                    /\ c(i).failures = stats[i].failures + Bit(no)
                    /\ c(i).timeouts = stats[i].timeouts + Bit(m(i))
  <2> SUFFICES ASSUME NEW i \in Id
               PROVE  /\ c(i) \in Stats /\ c(i).triggered = stats[i].triggered + Bit(l(i))
                      /\ c(i).failures = stats[i].failures + Bit(no)
                      /\ c(i).timeouts = stats[i].timeouts + Bit(m(i))
    OBVIOUS
  <2>1. stats[i] \in Stats /\ l(i) \in BOOLEAN /\ m(i) \in BOOLEAN
    BY <1>3, <1>7
  <2>2. no \in BOOLEAN
    BY <1>3
  <2> QED BY <2>1, <2>2, CountMade, ZenonT(30)
<1> HIDE DEF q, c
<1>9. stats' \in [Id -> Stats] /\ \A i \in Id : stats'[i] = c(i)
  BY <1>4, <1>8
<1>10. /\ total' \in Stats /\ total'.triggered = total.triggered + Bit(t)
       /\ total'.failures = total.failures + Bit(no)
       /\ total'.timeouts = total.timeouts + Bit(o)
  BY <1>3, <1>4, <1>7, CountMade
<1>11. /\ Bit(t) = Triggers(q) /\ Bit(no) = FailsOne(q) /\ Bit(o) = TimesOut(q)
       /\ Bit(t) \in Nat /\ Bit(no) \in Nat /\ Bit(o) \in Nat
  BY <1>3, <1>6 DEF Bit, Triggers, FailsOne, TimesOut
<1>12. ASSUME NEW i \in Id
       PROVE  /\ stats'[i].triggered <= stats[i].triggered + Triggers(q)
              /\ stats'[i].failures <= stats[i].failures + FailsOne(q)
              /\ stats'[i].timeouts <= stats[i].timeouts + TimesOut(q)
  <2>1. /\ stats[i].triggered \in Nat /\ stats[i].failures \in Nat /\ stats[i].timeouts \in Nat
    BY <1>7 DEF Stats
  <2>2. /\ Bit(l(i)) <= Bit(t) /\ Bit(m(i)) <= Bit(o)
        /\ Bit(l(i)) \in Nat /\ Bit(m(i)) \in Nat
    BY <1>5 DEF Bit
  <2> QED BY <1>8, <1>9, <1>11, <2>1, <2>2
<1>13. q.state # "new"
  BY <1>3, <1>6
<1> QED BY <1>4, <1>6, <1>9, <1>10, <1>11, <1>12, <1>13, CountingKeeps

LEMMA DispatchKeeps ==
    ASSUME ScenariosInv, NEW r \in Request, NEW service, NEW operation, NEW resource,
           Dispatch(r, service, operation, resource)
    PROVE  ScenariosInv'
<1> DEFINE failing == Failing(service, operation, resource)
           active == Active(service)
           slowing == Slowing(service, operation)
<1>1. failing \in SUBSET Id /\ active \in SUBSET Id /\ slowing \in SUBSET Id
  BY DEF Failing, Slowing, Active
<1>2. /\ request[r].state = "new" /\ counted' = counted \cup {r}
      /\ UNCHANGED <<scenario, order, misfired>>
      /\ ShouldFail(r, failing) \/ CalculateDelay(r, failing, active, slowing)
  BY DEF Dispatch
<1> HIDE DEF failing, active, slowing
<1> QED BY <1>1, <1>2, ShouldFailKeeps, CalculateDelayKeeps

(* What happens to a request that was not counted, or what leaves it       *)
(* counted as it was, changes no total.                                    *)
LEMMA UncountedKeeps ==
    ASSUME ScenariosInv, NEW r \in Request, NEW q \in RequestRecord, q.state # "new",
           request' = [request EXCEPT ![r] = q],
           UNCHANGED <<manager, counted, misfired>>,
           \/ r \notin counted
           \/ /\ q.delayed = request[r].delayed /\ q.timeout = request[r].timeout
              /\ q.state # "failed" /\ request[r].state # "failed"
    PROVE  ScenariosInv'
<1>1. /\ request \in [Request -> RequestRecord] /\ counted \subseteq Request
      /\ scenario \in [Id -> Scenario \cup {Absent}] /\ Enumerates(order, RegisteredIds)
      /\ total \in Stats /\ stats \in [Id -> Stats] /\ misfired \subseteq Id
  BY OrderOK DEF ScenariosInv
<1>2. request' \in [Request -> RequestRecord] /\ request'[r] = q
      /\ \A p \in Request : p # r => request'[p] = request[p]
  BY <1>1
<1>3. UNCHANGED <<scenario, order, stats, total, counted, misfired>>
  BY DEF manager
<1>4. RegisteredIds' = RegisteredIds
  BY <1>3 DEF RegisteredIds, Registered
<1>5. ScenariosTypeOK'
  BY <1>1, <1>2, <1>3, <1>4, OrderKept
<1>6. DegradationTimed'
  BY <1>3 DEF ScenariosInv, DegradationTimed, Registered
<1>7. FailedNow' = FailedNow
  BY <1>1, <1>2, <1>3 DEF FailedNow
<1>8. TimedOutNow' = TimedOutNow
  BY <1>1, <1>2, <1>3 DEF TimedOutNow
<1>9. InjectedNow' = InjectedNow
  BY <1>1, <1>2, <1>3, <1>7 DEF InjectedNow
<1>10. TotalsAddUp'
  BY <1>3, <1>7, <1>8, <1>9 DEF ScenariosInv, TotalsAddUp
<1>11. CountedNotNew'
  BY <1>1, <1>2, <1>3 DEF ScenariosInv, CountedNotNew
<1> QED BY <1>5, <1>6, <1>10, <1>11 DEF ScenariosInv

LEMMA DispatchExcludedKeeps ==
    ASSUME ScenariosInv, NEW r \in Request, DispatchExcluded(r)
    PROVE  ScenariosInv'
<1> DEFINE no == FALSE
           x == "handled"
           none == {}
           q == NewRequest(x, no, no, none)
<1>1. no \in BOOLEAN /\ x \in RequestState /\ none \in SUBSET Id /\ x # "new"
  BY DEF RequestState
<1>2. request' = [request EXCEPT ![r] = q] /\ UNCHANGED <<manager, counted, misfired>>
      /\ request[r].state = "new"
  BY DEF DispatchExcluded
<1> HIDE DEF no, x, none
<1>3. q \in RequestRecord /\ q.state # "new"
  BY <1>1, RequestMade
<1> HIDE DEF q
<1>4. r \notin counted
  BY <1>2 DEF ScenariosInv, CountedNotNew
<1> QED BY <1>2, <1>3, <1>4, UncountedKeeps

LEMMA WakeKeeps ==
    ASSUME ScenariosInv, NEW r \in Request, Wake(r)
    PROVE  ScenariosInv'
<1> DEFINE d == request[r].delayed
           t == request[r].timeout
           x == IF request[r].timeout THEN "timed out" ELSE "handled"
           S == request[r].names
           q == NewRequest(x, d, t, S)
<1>1. request[r] \in RequestRecord
  BY OrderOK DEF ScenariosInv
<1>2. /\ d \in BOOLEAN /\ t \in BOOLEAN /\ x \in RequestState /\ S \in SUBSET Id
      /\ x # "new" /\ x # "failed"
  BY <1>1 DEF RequestRecord, RequestState
<1>3. request' = [request EXCEPT ![r] = q] /\ UNCHANGED <<manager, counted, misfired>>
      /\ request[r].state = "asleep"
  BY DEF Wake
<1>4. d = request[r].delayed /\ t = request[r].timeout
  OBVIOUS
<1> HIDE DEF d, t, x, S
<1>5. q \in RequestRecord /\ q.state = x /\ q.delayed = d /\ q.timeout = t
  BY <1>2, RequestMade
<1> HIDE DEF q
<1>6. /\ q.delayed = request[r].delayed /\ q.timeout = request[r].timeout
      /\ q.state # "failed" /\ request[r].state # "failed" /\ q.state # "new"
  BY <1>2, <1>3, <1>4, <1>5
<1> QED BY <1>3, <1>5, <1>6, UncountedKeeps

(***************************************************************************)
(* The invariant.                                                          *)
(***************************************************************************)

(* The configurations that stand for a load level are configurations.      *)
LEMMA LoadLevelsMade ==
    ASSUME NEW level \in Int
    PROVE  LoadLevelProfile(level) \in LoadProfile /\ AnyFailure \in FailureConfig
<1> DEFINE no == FALSE
           delays == IF level > 0 THEN Always ELSE Never
           timeouts == IF level >= 180 THEN Always
                       ELSE IF level > 80 THEN Sometimes ELSE Never
<1>1. /\ no \in BOOLEAN /\ delays \in Draw /\ timeouts \in Draw /\ Always \in Draw
      /\ Operation \in SUBSET Operation
  BY DEF Draw
<1>2. LoadLevelProfile(level) =
          [delays |-> delays, timeouts |-> timeouts, operations |-> Operation, gradual |-> no]
  BY DEF LoadLevelProfile
<1> HIDE DEF no, delays, timeouts
<1>3. LoadLevelProfile(level) \in LoadProfile
  BY <1>1, <1>2 DEF LoadProfile
<1>4. AnyFailure \in FailureConfig
  BY <1>1 DEF AnyFailure, FailureConfig
<1> QED BY <1>3, <1>4

LEMMA SetLoadLevelKeeps ==
    ASSUME ScenariosInv, NEW loaded \in SUBSET Loaded, NEW levels \in SUBSET Level,
           SetLoadLevel(loaded, levels)
    PROVE  ScenariosInv'
<1>1. PICK t \in loaded, level \in levels :
        \/ /\ level = 0
           /\ Disable(LoadLevelId[t])
        \/ /\ level # 0
           /\ Register(LoadLevelId[t], WithEnabled(
                  NewScenario(t, TRUE, LoadLevelProfile(level), AnyFailure, FALSE)))
  BY DEF SetLoadLevel
<1>2. t \in Target /\ LoadLevelId[t] \in Id /\ level \in Int
  BY ScenariosAssumption DEF ScenariosAssumption, Id
<1> DEFINE yes == TRUE
           no == FALSE
           s == NewScenario(t, yes, LoadLevelProfile(level), AnyFailure, no)
           i == LoadLevelId[t]
<1>3. yes \in BOOLEAN /\ no \in BOOLEAN
  OBVIOUS
<1>4. Disable(i) \/ Register(i, WithEnabled(s))
  BY <1>1
<1> HIDE DEF yes, no
<1>5. s \in Scenario /\ s.started = FALSE
  BY <1>2, <1>3, LoadLevelsMade, ScenarioMade
<1> HIDE DEF s, i
<1>6. WithEnabled(s) \in Scenario /\ Timed(WithEnabled(s))
  BY <1>5, EnabledIsTimed
<1>7. i \in Id
  BY <1>2 DEF i
<1> QED BY <1>4, <1>6, <1>7, DisableKeeps, RegisterKeeps

LEMMA CreateCustomScenarioKeeps ==
    ASSUME ScenariosInv, CreateCustomScenario
    PROVE  ScenariosInv'
<1>1. PICK i \in Id, t \in Target, slow \in BOOLEAN, profile \in Profile, failure \in Failure :
          Register(i, NewScenario(t, slow, profile, failure, FALSE))
  BY DEF CreateCustomScenario
<1> DEFINE no == FALSE
           s == NewScenario(t, slow, profile, failure, no)
<1>2. no \in BOOLEAN /\ profile \in LoadProfile /\ failure \in FailureConfig
  BY ScenariosAssumption DEF ScenariosAssumption
<1>3. Register(i, s)
  BY <1>1
<1> HIDE DEF no
<1>4. s \in Scenario /\ s.enabled = FALSE /\ s.started = FALSE
  BY <1>2, ScenarioMade
<1> HIDE DEF s
<1>5. Timed(s)
  BY <1>4 DEF Timed
<1> QED BY <1>3, <1>4, <1>5, RegisterKeeps

LEMMA ScenariosApiKeeps ==
    ASSUME ScenariosInv, ScenariosApi \/ StatusPage
    PROVE  ScenariosInv'
<1>1. Profile \subseteq LoadProfile /\ Failure \subseteq FailureConfig
  BY ScenariosAssumption DEF ScenariosAssumption
<1>2. ASSUME NEW i \in Id, Enable(i, Profile, Failure) \/ Enable(i, {}, {})
      PROVE  ScenariosInv'
  <2>1. {} \in SUBSET LoadProfile /\ {} \in SUBSET FailureConfig
    OBVIOUS
  <2> QED BY <1>1, <1>2, <2>1, EnableKeeps
<1>3. CASE DisableScenario
  BY <1>3, DisableKeeps DEF DisableScenario
<1>4. CASE ResetAllScenarios \/ ApplyPreset
  BY <1>4, ResetKeeps DEF ResetAllScenarios, ApplyPreset
<1>5. CASE DeleteCustomScenario
  BY <1>5, UnregisterKeeps DEF DeleteCustomScenario
<1>6. CASE \/ SetLoadLevel(Loaded, Level \cap 0..100)
           \/ SetLoadLevel(Loaded \cap {AllServices}, Level)
  <2>1. /\ Loaded \in SUBSET Loaded /\ Level \cap 0..100 \in SUBSET Level
        /\ Loaded \cap {AllServices} \in SUBSET Loaded /\ Level \in SUBSET Level
    OBVIOUS
  <2> QED BY <1>6, <2>1, SetLoadLevelKeeps
<1> QED BY <1>2, <1>3, <1>4, <1>5, <1>6, EnableFailsKeeps, CreateCustomScenarioKeeps
        DEF ScenariosApi, StatusPage, EnableScenario

LEMMA TrafficKeeps ==
    ASSUME ScenariosInv, Traffic
    PROVE  ScenariosInv'
  BY DispatchKeeps, DispatchExcludedKeeps, WakeKeeps DEF Traffic

LEMMA ScenariosInitially == ScenariosInit => ScenariosInv
<1> SUFFICES ASSUME ScenariosInit PROVE ScenariosInv
  OBVIOUS
<1>1. \A i \in Id : i \in Builtin =>
          scenario[i] = Shipped[i] /\ Shipped[i] \in Scenario /\ scenario[i] # Absent
  BY ScenariosAssumption DEF ScenariosAssumption, ScenariosInit
<1>2. \A i \in Id : i \notin Builtin => scenario[i] = Absent
  BY DEF ScenariosInit
<1>3. scenario \in [Id -> Scenario \cup {Absent}]
  BY ScenariosAssumption DEF ScenariosAssumption, ScenariosInit
<1>4. RegisteredIds = Builtin
  BY <1>1, <1>2 DEF RegisteredIds, Registered, Id
<1>5. Enumerates(order, RegisteredIds)
  <2>1. /\ ShippedOrder \in Seq(Builtin)
        /\ \A i \in Builtin : \E n \in DOMAIN ShippedOrder : ShippedOrder[n] = i
        /\ \A m, n \in DOMAIN ShippedOrder : ShippedOrder[m] = ShippedOrder[n] => m = n
    BY ScenariosAssumption DEF ScenariosAssumption
  <2>2. /\ DOMAIN ShippedOrder = 1..Len(ShippedOrder)
        /\ \A n \in 1..Len(ShippedOrder) : ShippedOrder[n] \in Builtin
    BY <2>1
  <2>3. ShippedOrder \in Seq(Id)
    BY <2>1 DEF Id
  <2>4. Enumerates(ShippedOrder, Builtin)
    BY <2>1, <2>2, <2>3 DEF Enumerates
  <2> QED BY <1>4, <2>4 DEF ScenariosInit
<1> DEFINE none == NoStats
           unsent == Unsent
<1>6. none \in Stats /\ none.triggered = 0 /\ none.failures = 0 /\ none.timeouts = 0
  BY NoStatsMade
<1>7. unsent \in RequestRecord
  <2> DEFINE no == FALSE
             x == "new"
             S == {}
  <2>1. no \in BOOLEAN /\ x \in RequestState /\ S \in SUBSET Id
    BY DEF RequestState
  <2>2. unsent = NewRequest(x, no, no, S)
    BY DEF Unsent
  <2> HIDE DEF no, x, S, unsent
  <2> QED BY <2>1, <2>2, RequestMade
<1>8. /\ stats = [i \in Id |-> none] /\ total = none
      /\ request = [r \in Request |-> unsent] /\ counted = {} /\ misfired = {}
  BY DEF ScenariosInit
<1> HIDE DEF none, unsent
<1>9. ScenariosTypeOK
  <2>1. /\ stats \in [Id -> Stats] /\ total \in Stats
        /\ request \in [Request -> RequestRecord] /\ counted \subseteq Request
        /\ misfired \subseteq Id
    BY <1>6, <1>7, <1>8
  <2> QED BY <1>3, <1>5, <2>1, OrderOK
<1>10. DegradationTimed
  <2>1. \A i \in Builtin : ~Shipped[i].enabled /\ ~Shipped[i].started
    BY ScenariosAssumption DEF ScenariosAssumption
  <2> QED BY <1>1, <1>2, <2>1 DEF DegradationTimed, Registered
<1>11. TotalsAddUp
  <2>1. FailedNow = {} /\ TimedOutNow = {} /\ InjectedNow = {}
    BY <1>8 DEF FailedNow, TimedOutNow, InjectedNow
  <2>2. Cardinality({}) = 0
    BY FS_EmptySet
  <2>3. \A i \in Id : stats[i] = none
    BY <1>8
  <2> QED BY <1>6, <1>8, <2>1, <2>2, <2>3 DEF TotalsAddUp
<1>12. CountedNotNew
  BY <1>8 DEF CountedNotNew
<1> QED BY <1>9, <1>10, <1>11, <1>12 DEF ScenariosInv

LEMMA ScenariosStep == ScenariosInv /\ [ScenariosNext]_scenariosVars => ScenariosInv'
<1> SUFFICES ASSUME ScenariosInv, [ScenariosNext]_scenariosVars
             PROVE  ScenariosInv'
  OBVIOUS
<1>1. CASE UNCHANGED scenariosVars
  <2>1. UNCHANGED <<scenario, order, stats, total, request, counted, misfired>>
    BY <1>1 DEF scenariosVars
  <2>2. scenario \in [Id -> Scenario \cup {Absent}] /\ misfired \subseteq Id
    BY OrderOK DEF ScenariosInv
  <2>3. \A i \in Id : scenario'[i] # Absent => InTime(i)'
    BY <2>1, TimedIds DEF ScenariosInv, InTime
  <2> QED BY <2>1, <2>2, <2>3, SameIdsKeep
<1> QED BY <1>1, ScenariosApiKeeps, TrafficKeeps DEF ScenariosNext

(* The manager's scenarios, its statistics and what it counted stay in     *)
(* order, whatever is enabled, made, reset or asked for in between         *)
(* (scenario_manager.py).                                                  *)
THEOREM ScenariosInvariance == ScenariosSpec => []ScenariosInv
<1> QED BY ScenariosInitially, ScenariosStep, PTL DEF ScenariosSpec

(* The manager's dictionary has an order that lists each of its keys once. *)
THEOREM ScenariosTypeCorrect == ScenariosSpec => []ScenariosTypeOK
<1>1. ScenariosInv => ScenariosTypeOK
  BY DEF ScenariosInv
<1> QED BY <1>1, ScenariosInvariance, PTL

(* A degradation has a start exactly while its scenario is enabled, for    *)
(* any profiles users may give, unless only a request that failed enabled  *)
(* it (enable_scenario, disable_scenario).                                 *)
THEOREM DegradationsTimed == ScenariosSpec => []DegradationTimed
<1>1. ScenariosInv => DegradationTimed
  BY DEF ScenariosInv
<1> QED BY <1>1, ScenariosInvariance, PTL

(* The totals are the requests injected into since the last reset, however *)
(* many are asleep meanwhile (should_fail, calculate_delay, reset).        *)
THEOREM TotalsAlwaysAddUp == ScenariosSpec => []TotalsAddUp
<1>1. ScenariosInv => TotalsAddUp
  BY DEF ScenariosInv
<1> QED BY <1>1, ScenariosInvariance, PTL

(* A request is failed or delayed as the scenarios say that are enabled    *)
(* when it comes.                                                          *)
LEMMA DispatchObeys ==
    ASSUME ScenariosTypeOK, NEW r \in Request, request'[r] # request[r],
           NEW service \in Service, NEW operation \in Operation, NEW resource \in Resource,
           Dispatch(r, service, operation, resource)
    PROVE  IF request'[r].state = "handled"
           THEN \A i \in EnabledFor(service) : ~Sure(i)
           ELSE EnabledFor(service) # {}
<1> DEFINE failing == Failing(service, operation, resource)
           slowing == Slowing(service, operation)
<1>1. /\ failing \subseteq EnabledFor(service) /\ slowing \subseteq EnabledFor(service)
      /\ Active(service) = EnabledFor(service)
  BY DEF Failing, Slowing, Active, EnabledFor
<1>2. request \in [Request -> RequestRecord]
  BY OrderOK
<1>3. CASE ShouldFail(r, failing)
  <2>1. PICK i \in failing :
            request' = [request EXCEPT ![r] = NewRequest("failed", FALSE, FALSE, {i})]
    BY <1>3 DEF ShouldFail
  <2>2. request'[r].state = "failed"
    BY <1>2, <2>1 DEF NewRequest
  <2> QED BY <1>1, <2>1, <2>2
<1>4. CASE CalculateDelay(r, failing, Active(service), slowing)
  <2>1. \A i \in failing : FALSE \in scenario[i].failure.fails
    BY <1>4 DEF CalculateDelay
  <2>2. PICK late \in Drawn(slowing, [i \in slowing |-> scenario[i].profile.delays]),
             timedOut \in Drawn(Active(service),
                                [i \in Active(service) |-> scenario[i].profile.timeouts]) :
            request' = [request EXCEPT ![r] =
                 NewRequest(IF late = {} /\ timedOut = {} THEN "handled" ELSE "asleep",
                            late # {}, timedOut # {},
                            late \cup {i \in timedOut : ~scenario[i].slow})]
    BY <1>4 DEF CalculateDelay
  <2> DEFINE x == IF late = {} /\ timedOut = {} THEN "handled" ELSE "asleep"
  <2>3. request'[r].state = x
    BY <1>2, <2>2 DEF NewRequest
  <2>4. late \subseteq slowing /\ timedOut \subseteq Active(service)
        /\ \A i \in slowing \ late : FALSE \in scenario[i].profile.delays
    BY <2>2 DEF Drawn
  <2>5. CASE x = "asleep"
    <3>1. late # {} \/ timedOut # {}
      BY <2>5
    <3> QED BY <1>1, <2>3, <2>4, <2>5, <3>1
  <2>6. CASE x # "asleep"
    <3>1. x = "handled" /\ late = {}
      BY <2>6
    <3>2. ASSUME NEW i \in EnabledFor(service), Sure(i)
          PROVE  FALSE
      <4>1. CASE ~scenario[i].slow /\ scenario[i].failure = AnyFailure
        <5>1. /\ AnyFailure.operations = Operation /\ AnyFailure.resources = Resource
              /\ AnyFailure.fails = {TRUE}
          BY DEF AnyFailure, Always
        <5>2. i \in failing
          BY <4>1, <5>1 DEF Failing, Active, EnabledFor
        <5> QED BY <2>1, <4>1, <5>1, <5>2
      <4>2. CASE /\ scenario[i].slow /\ scenario[i].profile.delays = Always
                 /\ scenario[i].profile.operations = Operation
        <5>1. i \in slowing
          BY <4>2 DEF Slowing, Active, EnabledFor
        <5>2. FALSE \in Always
          BY <2>4, <3>1, <4>2, <5>1
        <5> QED BY <5>2 DEF Always
      <4> QED BY <3>2, <4>1, <4>2 DEF Sure
    <3> QED BY <2>3, <3>1, <3>2
  <2> QED BY <2>5, <2>6
<1> QED BY <1>3, <1>4 DEF Dispatch

(* Enabling a scenario takes effect on the next request, and only on its   *)
(* service's: for any scenarios, draws and interleavings with requests     *)
(* that are asleep (dispatch, get_active_scenarios).                       *)
THEOREM RequestsObey == ScenariosSpec => NextRequestObeys
<1>1. ScenariosTypeOK /\ [ScenariosNext]_scenariosVars =>
        [\A r \in Request : request'[r] # request[r] =>
          \A service \in Service, operation \in Operation, resource \in Resource :
              Dispatch(r, service, operation, resource) =>
                  IF request'[r].state = "handled"
                  THEN \A i \in EnabledFor(service) : ~Sure(i)
                  ELSE EnabledFor(service) # {}]_scenariosVars
  BY DispatchObeys
<1> QED BY <1>1, ScenariosTypeCorrect, PTL DEF ScenariosSpec, NextRequestObeys
============================================================================
