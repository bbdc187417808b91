------------------------- MODULE ServerPortsProofs -------------------------
(***************************************************************************)
(* What ServerPorts promises for every set of servers, ports and routers.  *)
(* The two sides of a binding agree because every step of Nova's changes   *)
(* them together (Fits), because a port that was never created is listed   *)
(* nowhere, and because the file is the memory (--auto-save) or empty: a   *)
(* crash at any step of a request loads a state that fits.                 *)
(***************************************************************************)
EXTENDS ServerPorts, TLAPS

----------------------------------------------------------------------------
(* Lists of interfaces.                                                    *)

Once(list, p) == \A i, j \in Positions(list, p) : i = j

\* The first entry that a list has for a port says that Nova created the port.
HeadCreated(list, p) ==
    \E k \in Positions(list, p) :
        /\ list[k].nova_created
        /\ \A j \in Positions(list, p) : k <= j

\* An empty list names no port.
LEMMA EmptyPositions ==
    ASSUME NEW p
    PROVE  Positions(<<>>, p) = {}
BY DEF Positions

\* An appended interface is listed, last, and the others stay where they are.
LEMMA AppendPositions ==
    ASSUME NEW list \in Seq(Interface), NEW e \in Interface, NEW q
    PROVE  /\ Append(list, e) \in Seq(Interface)
           /\ Positions(Append(list, e), q) =
                Positions(list, q) \cup (IF e.port = q THEN {Len(list) + 1} ELSE {})
           /\ \A k \in Positions(list, q) :
                Append(list, e)[k] = list[k] /\ k <= Len(list)
           /\ Append(list, e)[Len(list) + 1] = e
           /\ Len(list) + 1 \notin Positions(list, q)
<1> DEFINE n   == Len(list)
           new == Append(list, e)
<1>1. /\ n \in Nat /\ DOMAIN list = 1..n
      /\ new \in Seq(Interface) /\ DOMAIN new = 1..(n + 1)
      /\ \A i \in 1..n : new[i] = list[i]
      /\ new[n + 1] = e
  OBVIOUS
<1>2. 1..(n + 1) = (1..n) \cup {n + 1} /\ n + 1 \notin 1..n
  BY <1>1
<1>3. Positions(new, q) = Positions(list, q) \cup (IF e.port = q THEN {n + 1} ELSE {})
  <2> HIDE DEF n, new
  <2> QED BY <1>1, <1>2 DEF Positions
<1>4. Positions(list, q) \subseteq 1..n
  BY <1>1 DEF Positions
<1>5. /\ \A k \in Positions(list, q) : new[k] = list[k] /\ k <= n
      /\ new[n + 1] = e
      /\ n + 1 \notin Positions(list, q)
  BY <1>1, <1>2, <1>4
<1> QED BY <1>1, <1>3, <1>5

\* Deleting an interface leaves the entries of every other port, and each of
\* them as often as before.
LEMMA WithoutPositions ==
    ASSUME NEW list \in Seq(Interface), NEW i \in DOMAIN list
    PROVE  /\ Without(list, i) \in Seq(Interface)
           /\ \A q : q # list[i].port =>
                /\ Positions(Without(list, i), q) = {} <=> Positions(list, q) = {}
                /\ Once(list, q) => Once(Without(list, i), q)
           /\ Once(list, list[i].port) => Positions(Without(list, i), list[i].port) = {}
           /\ \A j \in DOMAIN Without(list, i) :
                \E k \in DOMAIN list : Without(list, i)[j] = list[k]
           /\ \A q : q # list[i].port /\ HeadCreated(list, q)
                    => HeadCreated(Without(list, i), q)
<1> DEFINE n   == Len(list)
           new == Without(list, i)
<1>1. /\ n \in Nat /\ DOMAIN list = 1..n /\ i \in 1..n
      /\ \A j \in 1..n : list[j] \in Interface
  OBVIOUS
<1>2. /\ new \in [1..(n - 1) -> Interface]
      /\ DOMAIN new = 1..(n - 1)
      /\ \A j \in 1..(n - 1) : new[j] = IF j < i THEN list[j] ELSE list[j + 1]
  BY <1>1 DEF Without
<1>3. new \in Seq(Interface)
  <2>1. n - 1 \in Nat
    BY <1>1
  <2> HIDE DEF n, new
  <2> QED BY <1>2, <2>1
<1>4. \A q, j : j \in Positions(new, q) <=>
          j \in 1..(n - 1) /\ (IF j < i THEN list[j] ELSE list[j + 1]).port = q
  <2> HIDE DEF n, new
  <2> QED BY <1>2 DEF Positions
<1>5. \A q, j : j \in Positions(list, q) <=> j \in 1..n /\ list[j].port = q
  BY <1>1 DEF Positions
<1>6. ASSUME NEW q, NEW j \in Positions(new, q)
      PROVE  (IF j < i THEN j ELSE j + 1) \in Positions(list, q) \ {i}
  <2> HIDE DEF n, new
  <2> QED BY <1>1, <1>4, <1>5, <1>6
<1>7. ASSUME NEW q, NEW j \in Positions(list, q) \ {i}
      PROVE  (IF j < i THEN j ELSE j - 1) \in Positions(new, q)
  <2>1. CASE j < i
    <3> HIDE DEF n, new
    <3> QED BY <1>1, <1>4, <1>5, <1>7, <2>1
  <2>2. CASE ~(j < i)
    <3>1. j - 1 \in 1..(n - 1) /\ ~(j - 1 < i) /\ (j - 1) + 1 = j
      <4> HIDE DEF n, new
      <4> QED BY <1>1, <1>5, <1>7, <2>2
    <3> HIDE DEF n, new
    <3> QED BY <1>4, <1>5, <1>7, <2>2, <3>1
  <2> QED BY <2>1, <2>2
<1>8. ASSUME NEW q, q # list[i].port PROVE i \notin Positions(list, q)
  BY <1>5, <1>8
<1>9. ASSUME NEW q, q # list[i].port
      PROVE  Positions(new, q) = {} <=> Positions(list, q) = {}
  <2> HIDE DEF new
  <2> QED BY <1>6, <1>7, <1>8, <1>9
<1>10. ASSUME NEW q, Once(list, q) PROVE Once(new, q)
  <2> SUFFICES ASSUME NEW j \in Positions(new, q), NEW k \in Positions(new, q)
               PROVE  j = k
    BY DEF Once
  <2>1. (IF j < i THEN j ELSE j + 1) = (IF k < i THEN k ELSE k + 1)
    <3> HIDE DEF new
    <3> QED BY <1>6, <1>10 DEF Once
  <2>2. j \in Int /\ k \in Int /\ i \in Int
    <3> HIDE DEF n, new
    <3> QED BY <1>1, <1>4
  <2> QED BY <2>1, <2>2
<1>12. \A j \in DOMAIN new : \E k \in DOMAIN list : new[j] = list[k]
  <2> SUFFICES ASSUME NEW j \in DOMAIN new PROVE \E k \in DOMAIN list : new[j] = list[k]
    OBVIOUS
  <2> HIDE DEF n, new
  <2>1. j \in 1..(n - 1)
    BY <1>2
  <2>2. j \in 1..n /\ j + 1 \in 1..n
    BY <1>1, <2>1
  <2>3. CASE j < i
    BY <1>1, <1>2, <2>1, <2>2, <2>3
  <2>4. CASE ~(j < i)
    BY <1>1, <1>2, <2>1, <2>2, <2>4
  <2> QED BY <2>3, <2>4
<1>13. ASSUME NEW q, q # list[i].port, HeadCreated(list, q)
       PROVE  HeadCreated(new, q)
  <2>1. PICK k \in Positions(list, q) :
            list[k].nova_created /\ \A j \in Positions(list, q) : k <= j
    BY <1>13 DEF HeadCreated
  <2> DEFINE l == IF k < i THEN k ELSE k - 1
  <2> HIDE DEF n, new
  <2>2. k \in 1..n /\ k # i /\ i \in 1..n /\ n \in Nat
    BY <1>1, <1>5, <1>8, <1>13, <2>1
  <2>3. l \in Positions(new, q)
    BY <1>7, <1>8, <1>13, <2>1
  <2>4. new[l] = list[k]
    <3>1. l \in 1..(n - 1)
      BY <2>2
    <3>2. new[l] = IF l < i THEN list[l] ELSE list[l + 1]
      BY <1>2, <3>1
    <3>3. CASE k < i
      BY <2>2, <3>2, <3>3
    <3>4. CASE ~(k < i)
      <4>1. l = k - 1 /\ ~(l < i) /\ l + 1 = k
        BY <2>2, <3>4
      <4> QED BY <3>2, <4>1
    <3> QED BY <3>3, <3>4
  <2>5. ASSUME NEW j \in Positions(new, q) PROVE l <= j
    <3>1. k <= (IF j < i THEN j ELSE j + 1)
      BY <1>6, <2>1
    <3>2. j \in Int
      BY <1>1, <1>4
    <3> QED BY <2>2, <3>1, <3>2
  <2> HIDE DEF l
  <2> QED BY <2>1, <2>3, <2>4, <2>5 DEF HeadCreated
<1>11. ASSUME Once(list, list[i].port) PROVE Positions(new, list[i].port) = {}
  <2>1. i \in Positions(list, list[i].port)
    BY <1>1, <1>5
  <2> HIDE DEF new
  <2> QED BY <1>6, <1>11, <2>1 DEF Once
<1> QED
  <2> HIDE DEF new
  <2>1. new = Without(list, i)
    BY DEF new
  <2> QED BY <1>3, <1>9, <1>10, <1>11, <1>12, <1>13, <2>1

----------------------------------------------------------------------------
(* The inductive invariant.                                                *)

Typed(sv, po, in) ==
    /\ sv \in [Server -> ServerState]
    /\ po \in [Port -> PortRecord]
    /\ in \in [Server -> Seq(Interface)]

NowhereYet(po, in) ==
    \A p \in Port :
        /\ po[p].state # "here" => po[p].device = Nobody
        /\ po[p].state = "unborn" =>
              \A s \in Server : Positions(in[s], p) = {}

\* Agree of ServerPorts, the clients' meddling a parameter.
Fit(po, in, me) ==
    \A s \in Server, p \in Port \ me :
        po[p].state = "here" =>
            /\ po[p].device = s <=> Positions(in[s], p) # {}
            /\ Once(in[s], p)

Freed(sv, po, me) ==
    \A s \in Server, p \in Port \ me : sv[s] = "gone" => po[p].device # s

\* Nova removes only what it made; an interface says so only of such a port;
\* and a port that Nova made for a server is the server's until either goes.
Owns(sv, po, in) ==
    \A p \in Port :
        /\ po[p].state = "released" => po[p].maker = "nova"
        /\ \A s \in Server :
              /\ \A k \in Positions(in[s], p) :
                    in[s][k].nova_created => po[p].maker = "nova"
              /\ po[p].state = "here" /\ po[p].owner = s =>
                    HeadCreated(in[s], p) /\ sv[s] # "gone"

Good(sv, po, in, me) ==
    /\ Typed(sv, po, in)
    /\ NowhereYet(po, in)
    /\ Fit(po, in, me)
    /\ Freed(sv, po, me)
    /\ Owns(sv, po, in)

NoServers    == [s \in Server |-> "unborn"]
NoPorts      == [p \in Port |-> NoPortYet]
NoInterfaces == [s \in Server |-> <<>>]

DiskOK ==
    disk = IF AutoSave THEN Image(server, port, interfaces)
           ELSE Image(NoServers, NoPorts, NoInterfaces)

RequestOK ==
    request # Idle =>
        /\ request \in Request
        /\ server[request.server] = IF request.boot THEN "unborn" ELSE "live"
        /\ request.created # NoPort =>
              /\ port[request.created].maker = "nova"
              /\ \A s \in Server : Positions(interfaces[s], request.created) = {}

IInv ==
    /\ Good(server, port, interfaces, meddled)
    /\ meddled \subseteq Port
    /\ RequestOK
    /\ DiskOK

\* The empty database is in order.
LEMMA EmptyGood ==
    ASSUME NEW me
    PROVE  Good(NoServers, NoPorts, NoInterfaces, me)
<1>1. Typed(NoServers, NoPorts, NoInterfaces)
  <2>1. <<>> \in Seq(Interface)
    OBVIOUS
  <2> QED BY <2>1 DEF Typed, NoServers, NoPorts, NoInterfaces, ServerState, PortRecord, NoPortYet
<1>2. NowhereYet(NoPorts, NoInterfaces)
  BY EmptyPositions DEF NowhereYet, NoPorts, NoInterfaces, NoPortYet
<1>3. Fit(NoPorts, NoInterfaces, me) /\ Freed(NoServers, NoPorts, me)
  BY DEF Fit, Freed, NoServers, NoPorts, NoPortYet
<1>4. Owns(NoServers, NoPorts, NoInterfaces)
  BY EmptyPositions, ServerPortsAssumption
     DEF Owns, NoServers, NoPorts, NoInterfaces, NoPortYet
<1> QED BY <1>1, <1>2, <1>3, <1>4 DEF Good

\* After a save the file is what memory is, or has never been written.
LEMMA SaveKeeps ==
    ASSUME DiskOK, Save
    PROVE  DiskOK'
BY DEF DiskOK, Save, NoServers, NoPorts, NoInterfaces

----------------------------------------------------------------------------
(* Neutron's steps.                                                        *)

\* A port whose device a client sets is exempt; one that a client creates
\* unbound is listed nowhere; one that is deleted is out of the agreement.
LEMMA NeutronGood ==
    ASSUME IInv, NEW p \in Port,
           \/ \E d \in Device : CreatePort(p, d) \/ UpdatePort(p, d)
           \/ DeletePort(p)
           \/ \E r \in Router : AddRouterInterface(r, p) \/ RemoveRouterInterface(r, p)
    PROVE  /\ Good(server', port', interfaces', meddled')
           /\ meddled' \subseteq Port
           /\ UNCHANGED <<server, interfaces, request>>
           /\ Save
<1> USE DEF IInv, Good
<1>0. Device \subseteq Server \cup Router \cup {Nobody}
  BY DEF Device
<1>1. ASSUME NEW d \in Device, CreatePort(p, d) PROVE
         /\ Good(server', port', interfaces', meddled') /\ meddled' \subseteq Port
         /\ UNCHANGED <<server, interfaces, request>> /\ Save
  <2>1. /\ port' = [port EXCEPT ![p] = New("client", d)]
        /\ UNCHANGED <<server, interfaces, request>> /\ Save
        /\ port[p].state = "unborn"
        /\ meddled' = IF d = Nobody THEN meddled ELSE meddled \cup {p}
    BY <1>1 DEF CreatePort, SetPort
  <2>2. Typed(server', port', interfaces')
    BY <1>0, <2>1 DEF Typed, PortRecord, New, NoPortYet
  <2>3. NowhereYet(port', interfaces')
    BY <2>1 DEF NowhereYet, Typed, PortRecord, New, NoPortYet
  <2>4. Fit(port', interfaces', meddled')
    BY <2>1, ServerPortsAssumption DEF Fit, NowhereYet, Typed, PortRecord, New, NoPortYet, Once
  <2>5. Freed(server', port', meddled')
    BY <2>1, ServerPortsAssumption DEF Freed, Typed, PortRecord, New, NoPortYet
  <2>6. Owns(server', port', interfaces')
    BY <2>1, ServerPortsAssumption DEF Owns, NowhereYet, Typed, New, NoPortYet
  <2> QED BY <2>1, <2>2, <2>3, <2>4, <2>5, <2>6
<1>2. ASSUME NEW d \in Server \cup Router \cup {Nobody}, SetPort(p, On(port[p], d)), Here(p),
             meddled' = meddled \cup {p}
      PROVE  /\ Good(server', port', interfaces', meddled') /\ meddled' \subseteq Port
             /\ UNCHANGED <<server, interfaces, request>> /\ Save
  <2>1. /\ port' = [port EXCEPT ![p] = On(port[p], d)]
        /\ UNCHANGED <<server, interfaces, request>> /\ Save
    BY <1>2 DEF SetPort
  <2>2. Typed(server', port', interfaces')
    BY <1>0, <2>1 DEF Typed, PortRecord, On, Here
  <2>3. NowhereYet(port', interfaces')
    BY <1>2, <2>1 DEF NowhereYet, Typed, PortRecord, On, Here
  <2>4. Fit(port', interfaces', meddled')
    BY <1>2, <2>1 DEF Fit, Typed, PortRecord, On, Here
  <2>5. Freed(server', port', meddled')
    BY <1>2, <2>1 DEF Freed, Typed, PortRecord, On, Here
  <2>6. Owns(server', port', interfaces')
    BY <1>2, <2>1 DEF Owns, Typed, On, Here, PortRecord
  <2> QED BY <1>2, <2>1, <2>2, <2>3, <2>4, <2>5, <2>6
<1>3. ASSUME DeletePort(p) PROVE
         /\ Good(server', port', interfaces', meddled') /\ meddled' \subseteq Port
         /\ UNCHANGED <<server, interfaces, request>> /\ Save
  <2>1. /\ port' = [port EXCEPT ![p] = Ended(port[p], "deleted")]
        /\ UNCHANGED <<server, interfaces, request, meddled>> /\ Save
    BY <1>3 DEF DeletePort, SetPort
  <2>2. Typed(server', port', interfaces')
    BY <2>1 DEF Typed, PortRecord, Ended
  <2>3. NowhereYet(port', interfaces')
    BY <2>1 DEF NowhereYet, Typed, PortRecord, Ended
  <2>4. Fit(port', interfaces', meddled')
    BY <2>1 DEF Fit, Typed, PortRecord, Ended
  <2>5. Freed(server', port', meddled')
    BY <2>1, ServerPortsAssumption DEF Freed, Typed, PortRecord, Ended
  <2>6. Owns(server', port', interfaces')
    BY <2>1 DEF Owns, Typed, Ended, PortRecord
  <2> QED BY <2>1, <2>2, <2>3, <2>4, <2>5, <2>6
<1>4. ASSUME NEW d \in Device, UpdatePort(p, d) PROVE
         /\ Good(server', port', interfaces', meddled') /\ meddled' \subseteq Port
         /\ UNCHANGED <<server, interfaces, request>> /\ Save
  BY <1>0, <1>2, <1>4 DEF UpdatePort
<1>5. ASSUME NEW r \in Router, AddRouterInterface(r, p) PROVE
         /\ Good(server', port', interfaces', meddled') /\ meddled' \subseteq Port
         /\ UNCHANGED <<server, interfaces, request>> /\ Save
  BY <1>2, <1>5 DEF AddRouterInterface
<1>6. ASSUME NEW r \in Router, RemoveRouterInterface(r, p) PROVE
         /\ Good(server', port', interfaces', meddled') /\ meddled' \subseteq Port
         /\ UNCHANGED <<server, interfaces, request>> /\ Save
  BY <1>3, <1>6 DEF RemoveRouterInterface
<1> QED BY <1>1, <1>3, <1>4, <1>5, <1>6

----------------------------------------------------------------------------
(* Nova's steps.                                                           *)

\* Binding a free port changes both sides.
LEMMA BindGood ==
    ASSUME IInv, NEW s \in Server, NEW p \in Port, NEW created \in BOOLEAN,
           Bind(s, p, created), server[s] # "gone",
           created => /\ port[p].maker = "nova"
                      /\ \A t \in Server : Positions(interfaces[t], p) = {}
    PROVE  /\ Good(server', port', interfaces', meddled')
           /\ UNCHANGED <<server, meddled>>
           /\ Save
<1> USE DEF IInv, Good
<1> DEFINE e   == [port |-> p, nova_created |-> created]
           new == Bound(port[p], s, created)
<1>1. /\ port' = [port EXCEPT ![p] = new]
      /\ interfaces' = [interfaces EXCEPT ![s] = Append(@, e)]
      /\ UNCHANGED <<server, meddled>> /\ Save
      /\ port[p].state = "here" /\ port[p].device = Nobody
  BY DEF Bind, Free, Here
<1>2. e \in Interface /\ e.port = p /\ e.nova_created = created
  BY DEF Interface
<1>0. /\ new \in PortRecord /\ new.state = "here" /\ new.device = s
      /\ new.maker = port[p].maker
      /\ new.owner = IF created THEN s ELSE port[p].owner
  BY <1>1 DEF Bound, Typed, PortRecord
<1> HIDE DEF e, new
<1>3. interfaces[s] \in Seq(Interface)
  BY DEF Typed
<1>4. /\ Append(interfaces[s], e) \in Seq(Interface)
      /\ \A q : Positions(Append(interfaces[s], e), q) =
             Positions(interfaces[s], q) \cup
                 (IF p = q THEN {Len(interfaces[s]) + 1} ELSE {})
  BY <1>2, <1>3, AppendPositions
<1>12. Append(interfaces[s], e)[Len(interfaces[s]) + 1] = e
  BY <1>2, <1>3, AppendPositions
<1>13. ASSUME NEW q, NEW k \in Positions(interfaces[s], q)
       PROVE  /\ Append(interfaces[s], e)[k] = interfaces[s][k]
              /\ k \in Nat /\ k <= Len(interfaces[s])
  <2>1. k \in Nat
    BY <1>3, <1>13 DEF Positions
  <2>2. \A j \in Positions(interfaces[s], q) :
            Append(interfaces[s], e)[j] = interfaces[s][j] /\ j <= Len(interfaces[s])
    BY <1>2, <1>3, AppendPositions
  <2> QED BY <1>13, <2>1, <2>2
<1>5. \A t \in Server : interfaces'[t] = IF t = s THEN Append(interfaces[s], e)
                                         ELSE interfaces[t]
  BY <1>1 DEF Typed
<1>6. \A q \in Port : port'[q] = IF q = p THEN new ELSE port[q]
  BY <1>1 DEF Typed
<1>7. Typed(server', port', interfaces')
  BY <1>0, <1>1, <1>4 DEF Typed
<1>8. NowhereYet(port', interfaces')
  <2> SUFFICES ASSUME NEW q \in Port
               PROVE  /\ port'[q].state # "here" => port'[q].device = Nobody
                      /\ port'[q].state = "unborn" =>
                            \A t \in Server : Positions(interfaces'[t], q) = {}
    BY <1>1 DEF NowhereYet
  <2>1. CASE q # p
    <3>1. \A t \in Server : Positions(interfaces'[t], q) = Positions(interfaces[t], q)
      BY <1>4, <1>5, <2>1
    <3>2. port'[q] = port[q]
      BY <1>6, <2>1
    <3> QED BY <3>1, <3>2 DEF NowhereYet
  <2>2. CASE q = p
    BY <1>0, <1>6, <2>2
  <2> QED BY <2>1, <2>2
<1>9. Fit(port', interfaces', meddled')
  <2> SUFFICES ASSUME NEW t \in Server, NEW q \in Port \ meddled, port'[q].state = "here"
               PROVE  /\ port'[q].device = t <=> Positions(interfaces'[t], q) # {}
                      /\ Once(interfaces'[t], q)
    BY <1>1 DEF Fit
  <2>1. CASE q # p
    <3>1. Positions(interfaces'[t], q) = Positions(interfaces[t], q)
      BY <1>4, <1>5, <2>1
    <3> QED BY <1>6, <2>1, <3>1 DEF Fit, Once
  <2>2. CASE q = p
    <3>1. Positions(interfaces[t], p) = {}
      BY <1>1, <2>2, ServerPortsAssumption DEF Fit
    <3>2. Positions(interfaces'[t], p) = IF t = s THEN {Len(interfaces[s]) + 1} ELSE {}
      BY <1>4, <1>5, <3>1
    <3> QED BY <1>0, <1>6, <2>2, <3>2 DEF Once
  <2> QED BY <2>1, <2>2
<1>10. Freed(server', port', meddled')
  BY <1>0, <1>1, <1>6 DEF Freed
<1>11. Owns(server', port', interfaces')
  <2> SUFFICES ASSUME NEW q \in Port
               PROVE  /\ port'[q].state = "released" => port'[q].maker = "nova"
                      /\ \A t \in Server :
                            /\ \A k \in Positions(interfaces'[t], q) :
                                  interfaces'[t][k].nova_created => port'[q].maker = "nova"
                            /\ port'[q].state = "here" /\ port'[q].owner = t =>
                                  HeadCreated(interfaces'[t], q) /\ server'[t] # "gone"
    BY DEF Owns
  <2>0. port'[q].maker = port[q].maker /\ port'[q].state \in {port[q].state, "here"}
    BY <1>0, <1>6
  <2>1. port'[q].state = "released" => port'[q].maker = "nova"
    BY <2>0 DEF Owns
  <2>2. ASSUME NEW t \in Server, NEW k \in Positions(interfaces'[t], q),
               interfaces'[t][k].nova_created
        PROVE  port'[q].maker = "nova"
    <3>1. CASE k \in Positions(interfaces[t], q)
      <4>1. interfaces'[t][k] = interfaces[t][k]
        BY <1>5, <1>13, <3>1
      <4> QED BY <2>0, <2>2, <3>1, <4>1 DEF Owns
    <3>2. CASE k \notin Positions(interfaces[t], q)
      <4>1. t = s /\ q = p /\ k = Len(interfaces[s]) + 1
        BY <1>4, <1>5, <2>2, <3>2
      <4>2. interfaces'[t][k] = e
        BY <1>5, <1>12, <4>1
      <4> QED BY <1>2, <2>0, <2>2, <4>1, <4>2
    <3> QED BY <3>1, <3>2
  <2>3. ASSUME NEW t \in Server, port[q].state = "here", port[q].owner = t
        PROVE  HeadCreated(interfaces'[t], q)
    <3>1. PICK k \in Positions(interfaces[t], q) :
              /\ interfaces[t][k].nova_created
              /\ \A j \in Positions(interfaces[t], q) : k <= j
      BY <2>3 DEF Owns, HeadCreated
    <3>2. CASE t # s
      BY <1>5, <3>1, <3>2 DEF HeadCreated
    <3>3. CASE t = s
      <4>1. /\ k \in Positions(interfaces'[t], q) /\ interfaces'[t][k] = interfaces[t][k]
            /\ k \in Nat /\ k <= Len(interfaces[s])
        BY <1>4, <1>5, <1>13, <3>1, <3>3
      <4>2. ASSUME NEW j \in Positions(interfaces'[t], q) PROVE k <= j
        <5>1. CASE j \in Positions(interfaces[s], q)
          BY <3>1, <3>3, <5>1
        <5>2. CASE j = Len(interfaces[s]) + 1
          BY <1>3, <4>1, <5>2
        <5> QED BY <1>4, <1>5, <3>3, <4>2, <5>1, <5>2
      <4> QED BY <3>1, <4>1, <4>2 DEF HeadCreated
    <3> QED BY <3>2, <3>3
  <2>4. ASSUME NEW t \in Server, port'[q].state = "here", port'[q].owner = t
        PROVE  HeadCreated(interfaces'[t], q) /\ server'[t] # "gone"
    <3>1. CASE q = p /\ created
      <4>1. t = s
        BY <1>0, <1>6, <2>4, <3>1
      <4>2. Positions(interfaces'[s], p) = {Len(interfaces[s]) + 1}
        BY <1>4, <1>5, <3>1
      <4>3. interfaces'[s][Len(interfaces[s]) + 1] = e
        BY <1>5, <1>12
      <4>4. Len(interfaces[s]) + 1 <= Len(interfaces[s]) + 1
        BY <1>3
      <4> QED BY <1>1, <1>2, <3>1, <4>1, <4>2, <4>3, <4>4 DEF HeadCreated
    <3>2. CASE ~(q = p /\ created)
      <4>1. port[q].state = "here" /\ port[q].owner = t
        BY <1>0, <1>1, <1>6, <2>4, <3>2
      <4> QED BY <1>1, <2>3, <4>1 DEF Owns
    <3> QED BY <3>1, <3>2
  <2> QED BY <2>1, <2>2, <2>4
<1> QED BY <1>1, <1>7, <1>8, <1>9, <1>10, <1>11

\* A port that Nova creates is bound to nobody yet, and listed nowhere.
LEMMA CreateUnboundGood ==
    ASSUME IInv, NEW p \in Port, CreateUnbound(p)
    PROVE  /\ Good(server', port', interfaces', meddled')
           /\ UNCHANGED <<server, meddled>>
           /\ port'[p].maker = "nova"
           /\ \A s \in Server : Positions(interfaces'[s], p) = {}
           /\ Save
<1> USE DEF IInv, Good
<1>1. /\ port' = [port EXCEPT ![p] = New("nova", Nobody)]
      /\ UNCHANGED <<server, interfaces, meddled>> /\ Save
      /\ port[p].state = "unborn"
  BY DEF CreateUnbound
<1>2. Typed(server', port', interfaces')
  BY <1>1 DEF Typed, PortRecord, New, NoPortYet
<1>3. NowhereYet(port', interfaces')
  BY <1>1 DEF NowhereYet, Typed, PortRecord, New, NoPortYet
<1>4. Fit(port', interfaces', meddled')
  BY <1>1, ServerPortsAssumption DEF Fit, NowhereYet, Typed, PortRecord, New, NoPortYet, Once
<1>5. Freed(server', port', meddled')
  BY <1>1, ServerPortsAssumption DEF Freed, Typed, PortRecord, New, NoPortYet
<1>6. Owns(server', port', interfaces')
  BY <1>1, ServerPortsAssumption DEF Owns, NowhereYet, Typed, New, NoPortYet
<1>7. port'[p].maker = "nova" /\ \A s \in Server : Positions(interfaces'[s], p) = {}
  BY <1>1 DEF NowhereYet, Typed, New, NoPortYet
<1> QED BY <1>1, <1>2, <1>3, <1>4, <1>5, <1>6, <1>7

\* What a release makes of a port.
LEMMA ReleasedType ==
    ASSUME IInv, NEW s \in Server, NEW p \in Port, NEW created
    PROVE  /\ Released(s, p, created) \in PortRecord
           /\ Released(s, p, created).state = "unborn" <=> port[p].state = "unborn"
           /\ port[p].device = Nobody => Released(s, p, created).device = Nobody
           /\ Released(s, p, created).device \in {port[p].device, Nobody}
           /\ Released(s, p, created).state # "here" =>
                 Released(s, p, created).device = Nobody
           /\ port[p].state = "here" /\ port[p].device = s
                 => Released(s, p, created).device = Nobody
           /\ Released(s, p, created).maker = port[p].maker
           /\ Released(s, p, created).owner = port[p].owner
           /\ created => Released(s, p, created).state # "here"
           /\ Released(s, p, created).state = "released" =>
                 port[p].state = "released" \/ created
<1>1. port[p] \in PortRecord
  BY DEF IInv, Good, Typed
<1>2. port[p].state # "here" => port[p].device = Nobody
  BY DEF IInv, Good, NowhereYet
<1> QED BY <1>1, <1>2 DEF Released, PortRecord, Here, Ended, On

\* Detaching takes the binding off both sides.
LEMMA DetachGood ==
    ASSUME IInv, NEW s \in Server, NEW p \in Port, DetachInterface(s, p)
    PROVE  /\ Good(server', port', interfaces', meddled')
           /\ UNCHANGED <<server, request, meddled>>
           /\ Save
<1> USE DEF IInv, Good
<1>1. PICK i \in Positions(interfaces[s], p) :
          /\ interfaces' = [interfaces EXCEPT ![s] = Without(@, i)]
          /\ port' = [port EXCEPT ![p] = Released(s, p, interfaces[s][i].nova_created)]
          /\ \A j \in Positions(interfaces[s], p) : i <= j
  BY DEF DetachInterface
<1>2. UNCHANGED <<server, request, meddled>> /\ Save
  BY DEF DetachInterface
<1> DEFINE r   == Released(s, p, interfaces[s][i].nova_created)
           new == Without(interfaces[s], i)
<1>3. /\ interfaces[s] \in Seq(Interface) /\ i \in DOMAIN interfaces[s]
      /\ interfaces[s][i].port = p
  BY <1>1 DEF Typed, Positions
<1>4. /\ new \in Seq(Interface)
      /\ \A q : q # p =>
            /\ Positions(new, q) = {} <=> Positions(interfaces[s], q) = {}
            /\ Once(interfaces[s], q) => Once(new, q)
      /\ Once(interfaces[s], p) => Positions(new, p) = {}
      /\ \A j \in DOMAIN new : \E k \in DOMAIN interfaces[s] : new[j] = interfaces[s][k]
      /\ \A q : q # p /\ HeadCreated(interfaces[s], q) => HeadCreated(new, q)
  BY <1>3, WithoutPositions
<1>5. /\ r \in PortRecord
      /\ r.state = "unborn" <=> port[p].state = "unborn"
      /\ r.device \in {port[p].device, Nobody}
      /\ r.state # "here" => r.device = Nobody
      /\ port[p].state = "here" /\ port[p].device = s => r.device = Nobody
      /\ r.maker = port[p].maker /\ r.owner = port[p].owner
      /\ interfaces[s][i].nova_created => r.state # "here"
      /\ r.state = "released" =>
            port[p].state = "released" \/ interfaces[s][i].nova_created
  BY ReleasedType
<1>6. r.state = "here" => port[p].state = "here"
  BY DEF Released, Here, Ended, On, Typed, PortRecord
<1>7. /\ \A t \in Server : interfaces'[t] = IF t = s THEN new ELSE interfaces[t]
      /\ \A q \in Port : port'[q] = IF q = p THEN r ELSE port[q]
  BY <1>1 DEF Typed
<1>8. Typed(server', port', interfaces')
  <2> HIDE DEF r, new
  <2>1. /\ port' = [port EXCEPT ![p] = r]
        /\ interfaces' = [interfaces EXCEPT ![s] = new]
    BY <1>1 DEF r, new
  <2> QED BY <1>2, <1>4, <1>5, <2>1 DEF Typed
<1> HIDE DEF r, new
<1>9. NowhereYet(port', interfaces')
  <2> SUFFICES ASSUME NEW q \in Port
               PROVE  /\ port'[q].state # "here" => port'[q].device = Nobody
                      /\ port'[q].state = "unborn" =>
                            \A t \in Server : Positions(interfaces'[t], q) = {}
    BY <1>2 DEF NowhereYet
  <2>1. CASE q # p
    BY <1>4, <1>7, <2>1 DEF NowhereYet
  <2>2. CASE q = p
    <3>1. r.state = "unborn" => FALSE
      BY <1>1, <1>5 DEF NowhereYet
    <3> QED BY <1>5, <1>7, <2>2, <3>1
  <2> QED BY <2>1, <2>2
<1>10. Fit(port', interfaces', meddled')
  <2> SUFFICES ASSUME NEW t \in Server, NEW q \in Port \ meddled, port'[q].state = "here"
               PROVE  /\ port'[q].device = t <=> Positions(interfaces'[t], q) # {}
                      /\ Once(interfaces'[t], q)
    BY <1>2 DEF Fit
  <2>1. CASE q # p
    <3>1. port'[q] = port[q]
      BY <1>7, <2>1
    <3>2. Once(interfaces[t], q) => Once(interfaces'[t], q)
      BY <1>4, <1>7, <2>1
    <3>3. Positions(interfaces'[t], q) = {} <=> Positions(interfaces[t], q) = {}
      BY <1>4, <1>7, <2>1
    <3> QED BY <3>1, <3>2, <3>3 DEF Fit
  <2>2. CASE q = p
    <3>1. port[p].state = "here"
      BY <1>6, <1>7, <2>2
    <3>2. port[p].device = s /\ Once(interfaces[s], p)
      BY <1>1, <2>2, <3>1 DEF Fit
    <3>3. r.device = Nobody /\ port'[q].device = Nobody /\ Nobody \notin Server
      BY <1>5, <1>7, <2>2, <3>1, <3>2, ServerPortsAssumption
    <3>4. \A u \in Server : u # s => Positions(interfaces[u], p) = {}
      BY <2>2, <3>1, <3>2 DEF Fit
    <3>5. Positions(interfaces'[t], q) = {}
      BY <1>4, <1>7, <2>2, <3>2, <3>4
    <3> QED BY <3>3, <3>5 DEF Once
  <2> QED BY <2>1, <2>2
<1>11. Freed(server', port', meddled')
  BY <1>2, <1>5, <1>7, ServerPortsAssumption DEF Freed
<1>12. Owns(server', port', interfaces')
  <2> SUFFICES ASSUME NEW q \in Port
               PROVE  /\ port'[q].state = "released" => port'[q].maker = "nova"
                      /\ \A t \in Server :
                            /\ \A k \in Positions(interfaces'[t], q) :
                                  interfaces'[t][k].nova_created => port'[q].maker = "nova"
                            /\ port'[q].state = "here" /\ port'[q].owner = t =>
                                  HeadCreated(interfaces'[t], q) /\ server'[t] # "gone"
    BY DEF Owns
  <2>0. port'[q].maker = port[q].maker /\ port'[q].owner = port[q].owner
    BY <1>5, <1>7
  <2>1. port'[q].state = "released" => port'[q].maker = "nova"
    <3>1. interfaces[s][i].nova_created => port[p].maker = "nova"
      BY <1>1 DEF Owns
    <3> QED BY <1>5, <1>7, <2>0, <3>1 DEF Owns
  <2>2. ASSUME NEW t \in Server, NEW k \in Positions(interfaces'[t], q),
               interfaces'[t][k].nova_created
        PROVE  port'[q].maker = "nova"
    <3>1. PICK l \in Positions(interfaces[t], q) : interfaces'[t][k] = interfaces[t][l]
      <4>1. CASE t = s
        <5>1. k \in DOMAIN new /\ new[k].port = q
          BY <1>7, <2>2, <4>1 DEF Positions
        <5>2. PICK l \in DOMAIN interfaces[s] : new[k] = interfaces[s][l]
          BY <1>4, <5>1
        <5> QED BY <1>7, <4>1, <5>1, <5>2 DEF Positions
      <4>2. CASE t # s
        BY <1>7, <2>2, <4>2
      <4> QED BY <4>1, <4>2
    <3> QED BY <2>0, <2>2, <3>1 DEF Owns
  <2>3. ASSUME NEW t \in Server, port'[q].state = "here", port'[q].owner = t
        PROVE  HeadCreated(interfaces'[t], q) /\ server'[t] # "gone"
    <3>1. port[q].state = "here" /\ port[q].owner = t
      BY <1>6, <1>7, <2>0, <2>3
    <3>2. HeadCreated(interfaces[t], q) /\ server'[t] # "gone"
      BY <1>2, <3>1 DEF Owns
    <3>3. CASE t # s
      BY <1>7, <3>2, <3>3
    <3>4. CASE t = s /\ q # p
      BY <1>4, <1>7, <3>2, <3>4
    <3>5. CASE t = s /\ q = p
      <4>1. PICK k \in Positions(interfaces[s], p) :
                /\ interfaces[s][k].nova_created
                /\ \A j \in Positions(interfaces[s], p) : k <= j
        BY <3>2, <3>5 DEF HeadCreated
      <4>2. k <= i /\ i <= k /\ k \in Int /\ i \in Int
        BY <1>1, <1>3, <4>1 DEF Positions
      <4>3. k = i
        BY <4>2
      <4> QED BY <1>5, <1>7, <2>3, <3>5, <4>1, <4>3
    <3> QED BY <3>3, <3>4, <3>5
  <2> QED BY <2>1, <2>2, <2>3
<1> QED BY <1>2, <1>8, <1>9, <1>10, <1>11, <1>12

\* Deleting a server releases every port it lists; no other lists them.
LEMMA DeleteServerGood ==
    ASSUME IInv, NEW s \in Server, DeleteServer(s)
    PROVE  /\ Good(server', port', interfaces', meddled')
           /\ UNCHANGED <<request, meddled>>
           /\ server' = [server EXCEPT ![s] = "gone"]
           /\ request = Idle
           /\ Save
<1> USE DEF IInv, Good
<1>1. /\ request = Idle
      /\ server' = [server EXCEPT ![s] = "gone"]
      /\ interfaces' = [interfaces EXCEPT ![s] = <<>>]
      /\ port' = [p \in Port |->
             IF Listed(s, p) THEN Released(s, p, Created(s, p)) ELSE port[p]]
      /\ UNCHANGED <<request, meddled>> /\ Save
  BY DEF DeleteServer
<1>2. \A p \in Port : port'[p] = IF Listed(s, p) THEN Released(s, p, Created(s, p))
                                 ELSE port[p]
  BY <1>1
<1>3. \A t \in Server : interfaces'[t] = IF t = s THEN <<>> ELSE interfaces[t]
  BY <1>1 DEF Typed
<1>4. ASSUME NEW p \in Port
      PROVE  /\ port'[p] \in PortRecord
             /\ port'[p].state = "unborn" <=> port[p].state = "unborn"
             /\ port'[p].state = "here" => port[p].state = "here"
             /\ port'[p].state # "here" => port'[p].device = Nobody
             /\ port'[p].device \in {port[p].device, Nobody}
             /\ port[p].state = "here" /\ port[p].device = s /\ Listed(s, p)
                   => port'[p].device = Nobody
             /\ port'[p].maker = port[p].maker /\ port'[p].owner = port[p].owner
             /\ Created(s, p) => port'[p].state # "here"
             /\ port'[p].state = "released" => port[p].state = "released" \/ Created(s, p)
  <2>1. CASE Listed(s, p)
    <3>1. port'[p] = Released(s, p, Created(s, p))
      BY <1>2, <2>1
    <3>2. port'[p].state = "here" => port[p].state = "here"
      BY <3>1 DEF Released, Here, Ended, On, Typed, PortRecord
    <3> QED BY <3>1, <3>2, ReleasedType
  <2>2. CASE ~Listed(s, p)
    BY <1>2, <2>2 DEF Typed, NowhereYet, Listed, Created
  <2> QED BY <2>1, <2>2
<1>5. Typed(server', port', interfaces')
  <2>1. <<>> \in Seq(Interface)
    OBVIOUS
  <2>2. port' \in [Port -> PortRecord]
    BY <1>1, <1>4
  <2> QED BY <1>1, <2>1, <2>2 DEF Typed, ServerState
<1>6. NowhereYet(port', interfaces')
  BY <1>1, <1>3, <1>4, EmptyPositions DEF NowhereYet
<1>7. Fit(port', interfaces', meddled')
  <2> SUFFICES ASSUME NEW t \in Server, NEW p \in Port \ meddled, port'[p].state = "here"
               PROVE  /\ port'[p].device = t <=> Positions(interfaces'[t], p) # {}
                      /\ Once(interfaces'[t], p)
    BY <1>1 DEF Fit
  <2>1. port[p].state = "here"
    BY <1>4
  <2>2. CASE t = s
    <3>1. Positions(interfaces'[t], p) = {}
      BY <1>3, <2>2, EmptyPositions
    <3>2. port'[p].device # s
      BY <1>4, <2>1, ServerPortsAssumption DEF Fit, Listed
    <3> QED BY <2>2, <3>1, <3>2 DEF Once
  <2>3. CASE t # s
    <3>1. interfaces'[t] = interfaces[t]
      BY <1>3, <2>3
    <3>2. port'[p].device = t <=> port[p].device = t
      <4>1. CASE Listed(s, p)
        <5>1. port[p].device = s
          BY <2>1, <4>1 DEF Fit, Listed
        <5> QED BY <1>4, <2>1, <2>3, <4>1, <5>1, ServerPortsAssumption
      <4>2. CASE ~Listed(s, p)
        BY <1>2, <4>2
      <4> QED BY <4>1, <4>2
    <3> QED BY <2>1, <3>1, <3>2 DEF Fit
  <2> QED BY <2>2, <2>3
<1>8. Freed(server', port', meddled')
  <2> SUFFICES ASSUME NEW t \in Server, NEW p \in Port \ meddled, server'[t] = "gone",
                      port'[p].device = t
               PROVE  FALSE
    BY <1>1 DEF Freed
  <2>1. port[p].device = t
    BY <1>4, ServerPortsAssumption
  <2>2. t = s
    BY <1>1, <2>1 DEF Freed, Typed
  <2>3. port[p].state = "here"
    BY <2>1, ServerPortsAssumption DEF NowhereYet
  <2>4. Listed(s, p)
    BY <2>1, <2>2, <2>3 DEF Fit, Listed
  <2> QED BY <1>4, <2>1, <2>2, <2>3, <2>4, ServerPortsAssumption
<1>9. Owns(server', port', interfaces')
  <2>1. ASSUME NEW p \in Port
        PROVE  port'[p].state = "released" => port'[p].maker = "nova"
    BY <1>4 DEF Owns, Created
  <2>2. ASSUME NEW p \in Port, NEW t \in Server, NEW k \in Positions(interfaces'[t], p),
               interfaces'[t][k].nova_created
        PROVE  port'[p].maker = "nova"
    <3>1. t # s
      BY <1>3, <2>2, EmptyPositions
    <3> QED BY <1>3, <1>4, <2>2, <3>1 DEF Owns
  <2>3. ASSUME NEW p \in Port, NEW t \in Server,
               port'[p].state = "here", port'[p].owner = t
        PROVE  HeadCreated(interfaces'[t], p) /\ server'[t] # "gone"
    <3>1. port[p].state = "here" /\ port[p].owner = t
      BY <1>4, <2>3
    <3>2. HeadCreated(interfaces[t], p) /\ server[t] # "gone"
      BY <3>1 DEF Owns
    <3>3. t # s
      BY <1>4, <2>3, <3>2 DEF HeadCreated, Created
    <3> QED BY <1>1, <1>3, <3>2, <3>3 DEF Typed
  <2> QED BY <2>1, <2>2, <2>3 DEF Owns
<1> QED BY <1>1, <1>5, <1>6, <1>7, <1>8, <1>9

----------------------------------------------------------------------------
(* Every step.                                                             *)

\* Initially nothing is there, in memory or in the file.
LEMMA InitInv == Init => IInv
<1> SUFFICES ASSUME Init PROVE IInv
  OBVIOUS
<1>1. server = NoServers /\ port = NoPorts /\ interfaces = NoInterfaces
  BY DEF Init, NoServers, NoPorts, NoInterfaces
<1>2. Good(server, port, interfaces, meddled)
  BY <1>1, EmptyGood
<1>3. DiskOK
  BY <1>1 DEF Init, DiskOK
<1> QED BY <1>2, <1>3 DEF Init, IInv, RequestOK

\* Every step of Neutron, of a request in progress or of a restart keeps it.
LEMMA NextInv == IInv /\ [Next]_vars => IInv'
<1> SUFFICES ASSUME IInv, [Next]_vars PROVE IInv'
  OBVIOUS
<1>0. /\ Good(server, port, interfaces, meddled) /\ Typed(server, port, interfaces)
      /\ meddled \subseteq Port /\ RequestOK /\ DiskOK
  BY DEF IInv, Good
<1> DEFINE Kept == Good(server', port', interfaces', meddled') /\ meddled' \subseteq Port
<1>1. ASSUME NeutronRequest, request = Idle PROVE IInv'
  <2>1. PICK p \in Port :
          \/ \E d \in Device : CreatePort(p, d) \/ UpdatePort(p, d)
          \/ DeletePort(p)
          \/ \E r \in Router : AddRouterInterface(r, p) \/ RemoveRouterInterface(r, p)
    BY <1>1 DEF NeutronRequest
  <2>2. Kept /\ UNCHANGED <<server, interfaces, request>> /\ Save
    BY <2>1, NeutronGood
  <2> QED BY <1>0, <1>1, <2>2, SaveKeeps DEF IInv, RequestOK
<1>2. ASSUME NEW s \in Server, BeginBoot(s) PROVE IInv'
  <2>1. /\ UNCHANGED <<server, port, interfaces, disk, meddled>>
        /\ request' = [server |-> s, boot |-> TRUE, created |-> NoPort]
        /\ server[s] = "unborn"
    BY <1>2 DEF BeginBoot
  <2>2. RequestOK'
    BY <2>1 DEF RequestOK, Request
  <2> QED BY <1>0, <2>1, <2>2 DEF IInv, DiskOK
<1>3. ASSUME Booting
      PROVE  request.server \in Server /\ server[request.server] = "unborn" /\ request \in Request
  BY <1>0, <1>3 DEF Booting, RequestOK, Request
<1>4. ASSUME NEW p \in Port, BootPort(p) PROVE IInv'
  <2>1. Kept /\ UNCHANGED <<server, meddled, request>> /\ Save
    BY <1>0, <1>3, <1>4, BindGood DEF BootPort
  <2>2. request.created = NoPort
    BY <1>4 DEF BootPort, Booting
  <2> QED BY <1>0, <2>1, <2>2, SaveKeeps DEF IInv, RequestOK
<1>5. ASSUME NEW p \in Port, BootNetwork(p) PROVE IInv'
  <2>1. /\ Kept /\ UNCHANGED <<server, meddled>> /\ Save
        /\ port'[p].maker = "nova" /\ \A s \in Server : Positions(interfaces'[s], p) = {}
    BY <1>0, <1>5, CreateUnboundGood DEF BootNetwork
  <2>2. RequestOK'
    BY <1>0, <1>3, <1>5, <2>1 DEF BootNetwork, RequestOK, Request, Booting
  <2> QED BY <1>0, <2>1, <2>2, SaveKeeps DEF IInv
<1>6. ASSUME RefuseBoot PROVE IInv'
  BY <1>0, <1>6 DEF RefuseBoot, IInv, RequestOK, DiskOK
<1>7. ASSUME CompleteBoot PROVE IInv'
  <2>1. /\ server' = [server EXCEPT ![request.server] = "live"] /\ request' = Idle
        /\ UNCHANGED <<port, interfaces, meddled>> /\ Save
    BY <1>7 DEF CompleteBoot
  <2>2. request.server \in Server
    BY <1>3, <1>7 DEF CompleteBoot
  <2>3. Typed(server', port', interfaces')
    BY <1>0, <2>1, <2>2 DEF Typed, ServerState
  <2>4. Freed(server', port', meddled')
    BY <1>0, <2>1, <2>2 DEF Good, Freed, Typed
  <2>6. Owns(server', port', interfaces')
    BY <1>0, <2>1, <2>2 DEF Good, Owns, Typed
  <2>5. NowhereYet(port', interfaces') /\ Fit(port', interfaces', meddled')
    BY <1>0, <2>1 DEF Good
  <2> QED BY <1>0, <2>1, <2>3, <2>4, <2>5, <2>6, SaveKeeps DEF IInv, Good, RequestOK
<1>8. ASSUME NEW s \in Server, NEW p \in Port, AttachPort(s, p) PROVE IInv'
  <2>1. Kept /\ UNCHANGED <<server, meddled, request>> /\ Save
    BY <1>0, <1>8, BindGood DEF AttachPort
  <2> QED BY <1>0, <1>8, <2>1, SaveKeeps DEF IInv, RequestOK, AttachPort
<1>9. ASSUME NEW s \in Server, NEW p \in Port, AttachNetwork(s, p) PROVE IInv'
  <2>1. /\ Kept /\ UNCHANGED <<server, meddled>> /\ Save
        /\ port'[p].maker = "nova" /\ \A t \in Server : Positions(interfaces'[t], p) = {}
    BY <1>0, <1>9, CreateUnboundGood DEF AttachNetwork
  <2>2. RequestOK'
    BY <1>0, <1>9, <2>1 DEF AttachNetwork, RequestOK, Request
  <2> QED BY <1>0, <2>1, <2>2, SaveKeeps DEF IInv
<1>10. ASSUME BindCreated PROVE IInv'
  <2>1. /\ request # Idle /\ request.created # NoPort
        /\ Bind(request.server, request.created, TRUE)
        /\ request' = IF request.boot THEN [request EXCEPT !.created = NoPort] ELSE Idle
    BY <1>10 DEF BindCreated
  <2>2. /\ request \in Request /\ request.server \in Server /\ request.created \in Port
        /\ server[request.server] = IF request.boot THEN "unborn" ELSE "live"
        /\ port[request.created].maker = "nova"
        /\ \A s \in Server : Positions(interfaces[s], request.created) = {}
    BY <1>0, <2>1 DEF RequestOK, Request
  <2>3. Kept /\ UNCHANGED <<server, meddled>> /\ Save
    BY <1>0, <2>1, <2>2, BindGood
  <2>4. RequestOK'
    BY <2>1, <2>2, <2>3 DEF RequestOK, Request
  <2> QED BY <1>0, <2>3, <2>4, SaveKeeps DEF IInv
<1>11. ASSUME NEW s \in Server, NEW p \in Port, DetachInterface(s, p) PROVE IInv'
  <2>1. Kept /\ UNCHANGED <<server, meddled, request>> /\ Save
    BY <1>0, <1>11, DetachGood
  <2> QED BY <1>0, <1>11, <2>1, SaveKeeps DEF IInv, RequestOK, DetachInterface
<1>12. ASSUME NEW s \in Server, DeleteServer(s) PROVE IInv'
  <2>1. Kept /\ UNCHANGED <<meddled, request>> /\ request = Idle /\ Save
    BY <1>0, <1>12, DeleteServerGood
  <2> QED BY <1>0, <2>1, SaveKeeps DEF IInv, RequestOK
<1>13. ASSUME Restart PROVE IInv'
  <2>1. /\ server' = disk.server /\ port' = disk.port /\ interfaces' = disk.interfaces
        /\ request' = Idle /\ UNCHANGED <<disk, meddled>>
    BY <1>13 DEF Restart
  <2>2. CASE AutoSave
    <3>1. UNCHANGED <<server, port, interfaces>>
      BY <1>0, <2>1, <2>2 DEF DiskOK, Image
    <3> QED BY <1>0, <2>1, <3>1 DEF IInv, RequestOK, DiskOK
  <2>3. CASE ~AutoSave
    <3>1. server' = NoServers /\ port' = NoPorts /\ interfaces' = NoInterfaces
      BY <1>0, <2>1, <2>3 DEF DiskOK, Image
    <3>2. DiskOK'
      BY <1>0, <2>1, <2>3 DEF DiskOK, NoServers, NoPorts, NoInterfaces
    <3> QED BY <1>0, <2>1, <3>1, <3>2, EmptyGood DEF IInv, RequestOK
  <2> QED BY <2>2, <2>3
<1>14. CASE UNCHANGED vars
  BY <1>0, <1>14 DEF vars, IInv, RequestOK, DiskOK
<1> QED BY <1>1, <1>2, <1>4, <1>5, <1>6, <1>7, <1>8, <1>9, <1>10, <1>11, <1>12,
           <1>13, <1>14 DEF Next

\* Ports, interfaces, the request in progress and the file fit together at all
\* times, crashes within a request included.
THEOREM Invariance == Spec => []IInv
BY InitInv, NextInv, PTL DEF Spec

----------------------------------------------------------------------------
(* What follows from it.                                                   *)

\* What the file holds, where memory is in order.
LEMMA FileGood ==
    ASSUME IInv
    PROVE  /\ Good(disk.server, disk.port, disk.interfaces, meddled)
           /\ disk = Image(disk.server, disk.port, disk.interfaces)
<1>1. CASE AutoSave
  BY <1>1 DEF IInv, DiskOK, Image
<1>2. CASE ~AutoSave
  BY <1>2, EmptyGood DEF IInv, DiskOK, Image
<1> QED BY <1>1, <1>2

\* The stores hold what they are declared to hold, in memory and in the file.
THEOREM TypeCorrect == Spec => []TypeOK
<1>1. IInv => TypeOK
  <2> SUFFICES ASSUME IInv PROVE TypeOK
    OBVIOUS
  <2>1. Typed(server, port, interfaces) /\ meddled \subseteq Port /\ RequestOK
    BY DEF IInv, Good
  <2>2. /\ Typed(disk.server, disk.port, disk.interfaces)
        /\ disk = Image(disk.server, disk.port, disk.interfaces)
    BY FileGood DEF Good
  <2> QED BY <2>1, <2>2 DEF TypeOK, Typed, RequestOK, Image
<1> QED BY <1>1, Invariance, PTL

\* The two sides of a binding agree, in memory and after a crash at any moment.
THEOREM SidesAgree == Spec => []PortsAgreeWithInterfaces
<1>1. IInv => PortsAgreeWithInterfaces
  BY FileGood DEF IInv, Good, Fit, Once, PortsAgreeWithInterfaces, Agree
<1> QED BY <1>1, Invariance, PTL

\* No port still names a deleted server, unless a client made it.
THEOREM DeletionFrees == Spec => []DeletedServerFreesPorts
<1>1. IInv => DeletedServerFreesPorts
  BY DEF IInv, Good, Freed, DeletedServerFreesPorts
<1> QED BY <1>1, Invariance, PTL

\* With --auto-save the file is never behind.
THEOREM FileIsMemory == Spec => []BindingsAreSaved
<1>1. IInv => BindingsAreSaved
  BY DEF IInv, DiskOK, BindingsAreSaved
<1> QED BY <1>1, Invariance, PTL

\* What Nova removes is of its own making, and what it made for a server goes
\* with the server, whoever set the ports' devices in between.
THEOREM NovaTakesItsOwnPorts == Spec => []NovaTakesItsOwn
<1>1. IInv => NovaTakesItsOwn
  BY DEF IInv, Good, Owns, NovaTakesItsOwn, Here
<1> QED BY <1>1, Invariance, PTL
============================================================================
