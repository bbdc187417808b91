----------------------- MODULE NetworkAddressesProofs -----------------------
(***************************************************************************)
(* What NetworkAddresses promises for every set of networks, subnets and   *)
(* ports and every pool.  Two arguments run side by side.                  *)
(*                                                                         *)
(* Ownership: a gateway port has its router and a floating IP its port,    *)
(* because every operation that takes a port away from its owner is either *)
(* the owner's own or is remembered in "meddled".                          *)
(*                                                                         *)
(* Addresses: allocation looks for the address on one subnet only, a named *)
(* address is looked for on the whole network.  Both exclude every other   *)
(* vetted address of the network because a vetted address lies in its own  *)
(* subnet's range (Sound), and the ranges of a network do not overlap.     *)
(***************************************************************************)
EXTENDS NetworkAddresses, WellFoundedInduction, TLAPS

----------------------------------------------------------------------------
(* Lowest and last elements.                                               *)

\* A set of natural numbers has a least element, and Lowest is it.
LEMMA LowestExists ==
    ASSUME NEW S, S \subseteq Nat, S # {}
    PROVE  Lowest(S) \in S /\ \A b \in S : Lowest(S) <= b
<1>1. PICK x \in S : \A y \in S : ~(<<y, x>> \in OpToRel(<, Nat))
  BY NatLessThanWellFounded, WFMin, Zenon
<1>2. \A y \in S : ~(y < x)
  BY <1>1 DEF OpToRel
<1>3. \A y \in S : x <= y
  BY <1>2
<1> QED BY <1>3 DEF Lowest

\* A non-empty set of positions has a last one.
LEMMA LastExists ==
    ASSUME NEW n \in Nat, NEW S \in SUBSET (1 .. n), S # {}
    PROVE  \E i \in S : \A j \in S : j <= i
<1> DEFINE T == {n - i : i \in S}
<1>1. T \subseteq Nat /\ T # {}
  <2>1. PICK i \in S : TRUE
    OBVIOUS
  <2>2. n - i \in T
    OBVIOUS
  <2>3. \A j \in S : n - j \in Nat
    OBVIOUS
  <2> QED BY <2>2, <2>3
<1>2. Lowest(T) \in T /\ \A b \in T : Lowest(T) <= b
  <2> HIDE DEF T
  <2> QED BY <1>1, LowestExists
<1>3. PICK i \in S : Lowest(T) = n - i
  BY <1>2
<1>4. ASSUME NEW j \in S PROVE j <= i
  <2>1. n - j \in T
    OBVIOUS
  <2>2. n - i <= n - j
    BY <1>2, <1>3, <2>1
  <2> QED BY <2>2
<1> QED BY <1>4

\* Dividing a natural number, and multiplying two.
LEMMA Arithmetic ==
    ASSUME NEW x \in Nat, NEW k \in Nat \ {0}
    PROVE  x \div k \in Nat /\ x % k \in Nat /\ k * (x \div k) \in Nat
<1>1. x \div k \in Nat /\ x % k \in Nat
  OBVIOUS
<1>2. \A y \in Nat : k * y \in Nat
  OBVIOUS
<1> QED BY <1>1, <1>2

----------------------------------------------------------------------------
(* Looking addresses up.                                                   *)

\* The addresses that an allocation tries are natural numbers.
LEMMA WalkNat ==
    ASSUME NEW s \in Subnet
    PROVE  Walk(s) \subseteq Nat /\ Walk(s) \subseteq Cidr[s] /\ Cidr[s] \subseteq Address
<1>1. /\ PoolStart[s] \in Nat /\ PoolEnd[s] \in Nat /\ Octet \in Nat \ {0}
      /\ Walk(s) \subseteq Cidr[s] /\ Cidr[s] \subseteq Address
  BY NetworkAddressesAssumption
<1> DEFINE base == Octet * (PoolStart[s] \div Octet)
           lo   == PoolStart[s] % Octet
           hi   == PoolEnd[s] % Octet
<1>2. base \in Nat /\ lo \in Nat /\ hi \in Nat
  BY <1>1, Arithmetic
<1>3. {base + h : h \in lo .. hi} \subseteq Nat
  <2> HIDE DEF base, lo, hi
  <2> QED BY <1>2
<1>4. PoolStart[s] .. PoolEnd[s] \subseteq Nat
  BY <1>1
<1>5. Walk(s) = {base + h : h \in lo .. hi} \/ Walk(s) = PoolStart[s] .. PoolEnd[s]
  BY DEF Walk
<1> QED
  <2> HIDE DEF base, lo, hi
  <2> QED BY <1>1, <1>3, <1>4, <1>5

\* What is allocated lies in the subnet's range and no port has it there.
LEMMA AllocateFree ==
    ASSUME NEW po, NEW s \in Subnet, Free(po, s) # {}
    PROVE  /\ Allocate(po, s) \in Cidr[s] /\ Allocate(po, s) \in Address
           /\ \A q \in Port : \A i \in DOMAIN po[q].fixed_ips :
                 ~(po[q].fixed_ips[i].subnet = s /\
                   po[q].fixed_ips[i].address = Allocate(po, s))
<1>1. Free(po, s) \subseteq Walk(s)
  BY DEF Free
<1>2. Lowest(Free(po, s)) \in Free(po, s)
  BY <1>1, WalkNat, LowestExists
<1>3. Allocate(po, s) = Lowest(Free(po, s))
  BY DEF Allocate
<1>4. Allocate(po, s) \in Walk(s) /\ Allocate(po, s) \notin UsedIn(po, s)
  BY <1>2, <1>3 DEF Free
<1>5. Allocate(po, s) \in Cidr[s] /\ Allocate(po, s) \in Address
  BY <1>4, WalkNat
<1> QED BY <1>4, <1>5 DEF UsedIn

\* An address lies in the range of the subnet that is found for it, which is
\* listed with the network.
LEMMA SubnetForRange ==
    ASSUME TypeOK, NEW n \in Network, NEW a
    PROVE  /\ SubnetFor(n, a) \in Subnet \cup {None}
           /\ SubnetFor(n, a) # None =>
                 SubnetFor(n, a) \in Listed(n) /\ a \in Cidr[SubnetFor(n, a)]
           /\ \A s \in Listed(n) : a \in Cidr[s] =>
                 SubnetFor(n, a) \in Listed(n) /\ a \in Cidr[SubnetFor(n, a)]
<1>1. network[n].subnets \in Seq(Subnet)
  BY DEF TypeOK
<1>2. Listed(n) \subseteq Subnet
  BY <1>1 DEF Listed
<1> QED BY <1>2, NetworkAddressesAssumption DEF SubnetFor

----------------------------------------------------------------------------
(* The inductive invariant: addresses.                                     *)

\* A vetted address lies in the range of its subnet, which is there and of the
\* network; one that comes from a prefix comes from the port's own MAC.
Sound(sb, p, n, e) ==
    e.vetted =>
        /\ e.subnet \in Subnet /\ NetworkOf[e.subnet] = n
        /\ sb[e.subnet].state = "here"
        /\ e.address \in Cidr[e.subnet]
        /\ e.subnet \in FromPrefix => e.address = Eui64[e.subnet][p]

\* No other port of the network has the vetted address, vetted too.
Clear(po, p, n, e) ==
    e.vetted =>
        \A q \in Port \ {p} : po[q].network = n =>
            \A i \in DOMAIN po[q].fixed_ips :
                po[q].fixed_ips[i].vetted => po[q].fixed_ips[i].address # e.address

Addressed(sb, po, p, n, ips) ==
    \A i \in DOMAIN ips : Sound(sb, p, n, ips[i]) /\ Clear(po, p, n, ips[i])

AddressesOK(sb, po) ==
    \A p \in Port : Addressed(sb, po, p, po[p].network, po[p].fixed_ips)

\* Some ports are gone, the others are as they were.
Fewer(po, before) == \A q \in Port : po[q] \in {before[q], NoPort}

\* Ports that go take no address from those that stay.
LEMMA FewerAddresses ==
    ASSUME NEW sb, NEW before, NEW po, Fewer(po, before), AddressesOK(sb, before)
    PROVE  AddressesOK(sb, po)
<1> SUFFICES ASSUME NEW p \in Port, NEW i \in DOMAIN po[p].fixed_ips
             PROVE  /\ Sound(sb, p, po[p].network, po[p].fixed_ips[i])
                    /\ Clear(po, p, po[p].network, po[p].fixed_ips[i])
  BY DEF AddressesOK, Addressed
<1>1. DOMAIN NoPort.fixed_ips = {}
  BY DEF NoPort
<1>2. po[p] = before[p]
  BY <1>1 DEF Fewer
<1>3. /\ Sound(sb, p, po[p].network, po[p].fixed_ips[i])
      /\ Clear(before, p, po[p].network, po[p].fixed_ips[i])
  BY <1>2 DEF AddressesOK, Addressed
<1>4. \A q \in Port : po[q] = before[q] \/ DOMAIN po[q].fixed_ips = {}
  BY <1>1 DEF Fewer
<1> QED BY <1>3, <1>4 DEF Clear

\* A port that is made, or given another list, keeps the order if each of its
\* addresses does.
LEMMA PutAddresses ==
    ASSUME NEW sb, NEW before, NEW po, NEW p \in Port,
           AddressesOK(sb, before),
           \A q \in Port \ {p} : /\ po[q].network = before[q].network
                                 /\ po[q].fixed_ips = before[q].fixed_ips,
           Addressed(sb, before, p, po[p].network, po[p].fixed_ips)
    PROVE  AddressesOK(sb, po)
<1> SUFFICES ASSUME NEW r \in Port, NEW i \in DOMAIN po[r].fixed_ips
             PROVE  /\ Sound(sb, r, po[r].network, po[r].fixed_ips[i])
                    /\ Clear(po, r, po[r].network, po[r].fixed_ips[i])
  BY DEF AddressesOK, Addressed
<1>1. CASE r = p
  BY <1>1 DEF Addressed, Clear
<1>2. CASE r # p
  <2>1. /\ po[r].network = before[r].network
        /\ po[r].fixed_ips = before[r].fixed_ips
    BY <1>2
  <2>2. /\ Sound(sb, r, po[r].network, po[r].fixed_ips[i])
        /\ Clear(before, r, po[r].network, po[r].fixed_ips[i])
    BY <2>1 DEF AddressesOK, Addressed
  <2>3. ASSUME po[r].fixed_ips[i].vetted, po[p].network = po[r].network,
               NEW j \in DOMAIN po[p].fixed_ips, po[p].fixed_ips[j].vetted
        PROVE  po[p].fixed_ips[j].address # po[r].fixed_ips[i].address
    <3>1. Clear(before, p, po[p].network, po[p].fixed_ips[j])
      BY DEF Addressed
    <3> QED BY <1>2, <2>1, <2>3, <3>1 DEF Clear
  <2> QED BY <2>2, <2>3 DEF Clear
<1> QED BY <1>1, <1>2

\* The lists of subnets: each subnet that is there is listed, once, with its
\* network, and no other is.
ListsOK(nw, sb) ==
    \A n \in Network :
        /\ nw[n].state = "absent" => nw[n].subnets = <<>>
        /\ \A s \in Subnet :
              s \in {nw[n].subnets[i] : i \in DOMAIN nw[n].subnets} <=>
                  sb[s].state = "here" /\ NetworkOf[s] = n
        /\ \A i, j \in DOMAIN nw[n].subnets :
              nw[n].subnets[i] = nw[n].subnets[j] => i = j

\* What a network lists.
LEMMA ListedHere ==
    ASSUME TypeOK, ListsOK(network, subnet), NEW n \in Network
    PROVE  \A s : s \in Listed(n) <=>
               s \in Subnet /\ subnet[s].state = "here" /\ NetworkOf[s] = n
<1>1. network[n].subnets \in Seq(Subnet)
  BY DEF TypeOK
<1>2. Listed(n) \subseteq Subnet
  BY <1>1 DEF Listed
<1> QED BY <1>2 DEF ListsOK, Listed

----------------------------------------------------------------------------
(* What the requests resolve to.                                           *)

\* The fields of an entry.
LEMMA EntryType ==
    ASSUME NEW s \in Subnet \cup {None}, NEW a \in Address \cup {None}, NEW v \in BOOLEAN
    PROVE  [subnet |-> s, address |-> a, vetted |-> v] \in FixedIp
BY DEF FixedIp

\* A derived or allocated address is in order.
LEMMA GiveOK ==
    ASSUME NEW sb, NEW po, AddressesOK(sb, po), NEW p \in Port, NEW s \in Subnet,
           sb[s].state = "here", CanGive(po, s)
    PROVE  /\ Give(po, s, p) \in FixedIp
           /\ Sound(sb, p, NetworkOf[s], Give(po, s, p))
           /\ Clear(po, p, NetworkOf[s], Give(po, s, p))
<1> DEFINE e == Give(po, s, p)
<1>1. e.subnet = s /\ e.vetted = TRUE
  BY DEF Give
<1>2. e.address = IF s \in FromPrefix THEN Eui64[s][p] ELSE Allocate(po, s)
  BY DEF Give
<1>3. s \in FromPrefix => Eui64[s][p] \in Cidr[s]
  BY NetworkAddressesAssumption
<1>4. s \notin FromPrefix => Free(po, s) # {}
  BY DEF CanGive
<1>5. Cidr[s] \subseteq Address
  BY WalkNat
<1>6. e.address \in Cidr[s] /\ e.address \in Address
  BY <1>2, <1>3, <1>4, <1>5, AllocateFree
<1>7. e \in FixedIp
  <2>1. e = [subnet |-> s, address |-> e.address, vetted |-> TRUE]
    BY DEF Give
  <2> HIDE DEF e
  <2> QED BY <1>6, <2>1, EntryType
<1>8. Sound(sb, p, NetworkOf[s], e)
  <2> HIDE DEF e
  <2> QED BY <1>1, <1>2, <1>6 DEF Sound
<1>9. Clear(po, p, NetworkOf[s], e)
  <2> SUFFICES ASSUME NEW q \in Port \ {p}, po[q].network = NetworkOf[s],
                      NEW i \in DOMAIN po[q].fixed_ips,
                      po[q].fixed_ips[i].vetted, po[q].fixed_ips[i].address = e.address
               PROVE  FALSE
    BY DEF Clear
  <2> DEFINE g == po[q].fixed_ips[i]
  <2>1. Sound(sb, q, NetworkOf[s], g)
    BY DEF AddressesOK, Addressed
  <2>2. /\ g.subnet \in Subnet /\ NetworkOf[g.subnet] = NetworkOf[s]
        /\ g.address \in Cidr[g.subnet]
        /\ g.subnet \in FromPrefix => g.address = Eui64[g.subnet][q]
    BY <2>1 DEF Sound
  <2>3. g.subnet = s
    <3> HIDE DEF e, g
    <3>1. g.address \in Cidr[s]
      BY <1>6 DEF g
    <3> QED BY <2>2, <3>1, NetworkAddressesAssumption
  <2>4. CASE s \in FromPrefix
    <3>1. Eui64[s][q] = Eui64[s][p]
      BY <1>2, <2>2, <2>3, <2>4
    <3> QED BY <2>4, <3>1, NetworkAddressesAssumption
  <2>5. CASE s \notin FromPrefix
    <3>1. Free(po, s) # {} /\ g.address = Allocate(po, s)
      BY <1>2, <1>4, <2>5
    <3> QED BY <2>3, <3>1, AllocateFree
  <2> QED BY <2>4, <2>5
<1> QED BY <1>7, <1>8, <1>9

\* What a port holds on a subnet: an entry of its own, or nothing vetted.
LEMMA CurrentHeld ==
    ASSUME NEW held \in Seq(FixedIp), NEW s \in Subnet \cup {None}
    PROVE  /\ Current(held, s) \in FixedIp
           /\ \/ \E i \in DOMAIN held : Current(held, s) = held[i]
              \/ Current(held, s).vetted = FALSE /\ Current(held, s).address = None
<1> DEFINE S == {i \in DOMAIN held : held[i].subnet = s}
<1>1. CASE S # {}
  <2>1. Len(held) \in Nat /\ DOMAIN held = 1 .. Len(held)
    OBVIOUS
  <2>2. \E i \in S : \A j \in S : j <= i
    <3>1. S \in SUBSET (1 .. Len(held))
      BY <2>1
    <3> HIDE DEF S
    <3> QED BY <1>1, <2>1, <3>1, LastExists
  <2>3. \E i \in DOMAIN held : /\ held[i].subnet = s
                               /\ \A j \in DOMAIN held : held[j].subnet = s => j <= i
    BY <2>2
  <2>4. \E i \in DOMAIN held : held[i].subnet = s
    BY <1>1
  <2>5. \E i \in DOMAIN held : Current(held, s) = held[i]
    BY <2>3, <2>4 DEF Current
  <2> QED BY <2>5
<1>2. CASE S = {}
  <2>1. Current(held, s) = [subnet |-> s, address |-> None, vetted |-> FALSE]
    BY <1>2 DEF Current
  <2> QED BY <2>1 DEF FixedIp
<1> QED BY <1>1, <1>2

\* A request that is accepted resolves to addresses that are in order.
LEMMA ResolveOK ==
    ASSUME TypeOK, ListsOK(network, subnet), AddressesOK(subnet, port),
           NEW n \in Network, NEW p \in Port, NEW request \in Request,
           NEW held \in Seq(FixedIp), Addressed(subnet, port, p, n, held),
           AcceptsAll(n, request, held)
    PROVE  /\ Resolve(n, p, request, held) \in Seq(FixedIp)
           /\ Addressed(subnet, port, p, n, Resolve(n, p, request, held))
<1>1. PICK k \in 0 .. MaxEntries : request \in [1 .. k -> {e \in Entry : Sane(e)}]
  BY DEF Request
<1>2. k \in Nat
  BY <1>1, NetworkAddressesAssumption
<1>3. ASSUME NEW s \in Subnet \cup {None}
      PROVE  /\ Current(held, s) \in FixedIp
             /\ Sound(subnet, p, n, Current(held, s))
             /\ Clear(port, p, n, Current(held, s))
  <2>1. Current(held, s) \in FixedIp
    BY <1>3, CurrentHeld
  <2>2. CASE \E i \in DOMAIN held : Current(held, s) = held[i]
    BY <2>1, <2>2 DEF Addressed
  <2>3. CASE Current(held, s).vetted = FALSE
    BY <2>1, <2>3 DEF Sound, Clear
  <2> QED BY <1>3, <2>2, <2>3, CurrentHeld
<1>4. ASSUME NEW e \in Entry, Accepts(n, e, held), e.address # None
      PROVE  /\ Named(n, e, held) \in FixedIp
             /\ Sound(subnet, p, n, Named(n, e, held))
             /\ Clear(port, p, n, Named(n, e, held))
  <2> DEFINE s == IF e.subnet = None THEN SubnetFor(n, e.address) ELSE e.subnet
  <2>1. s \in Subnet \cup {None} /\ e.address \in Address
    BY <1>4, SubnetForRange, NetworkAddressesAssumption DEF Entry
  <2>2. CASE e.address = Current(held, s).address
    <3>1. Named(n, e, held) = Current(held, s)
      BY <2>2 DEF Named
    <3> HIDE DEF s
    <3> QED BY <1>3, <2>1, <3>1
  <2>3. CASE e.address # Current(held, s).address
    <3> DEFINE g == [subnet |-> s, address |-> e.address,
                     vetted |-> s = SubnetFor(n, e.address) /\ s \notin FromPrefix]
    <3>1. Named(n, e, held) = g
      BY <2>3 DEF Named
    <3>2. g \in FixedIp /\ g.address = e.address /\ g.subnet = s
      <4> HIDE DEF s
      <4> QED BY <2>1 DEF FixedIp
    <3>3. ASSUME g.vetted
          PROVE  s = SubnetFor(n, e.address) /\ s \notin FromPrefix
      BY <3>3
    <3>4. ASSUME g.vetted PROVE s # None /\ ~InUse(n, e.address)
      <4>1. CASE e.subnet \in FromPrefix /\ Here(subnet[e.subnet])
        <5>1. s = e.subnet
          BY <4>1, NetworkAddressesAssumption
        <5>2. s \notin FromPrefix
          BY <3>3, <3>4
        <5> HIDE DEF s, g
        <5> QED BY <4>1, <5>1, <5>2
      <4>2. CASE ~(e.subnet \in FromPrefix /\ Here(subnet[e.subnet]))
        <5> DEFINE t == SubnetFor(n, e.address)
        <5>1. t # None /\ (e.address = Current(held, t).address \/ ~InUse(n, e.address))
          BY <1>4, <4>2 DEF Accepts
        <5>2. s = t
          BY <3>3, <3>4
        <5> HIDE DEF s, t
        <5> QED BY <2>3, <5>1, <5>2
      <4> QED BY <4>1, <4>2
    <3>5. Sound(subnet, p, n, g)
      <4> SUFFICES ASSUME g.vetted
                   PROVE  /\ s \in Subnet /\ NetworkOf[s] = n
                          /\ subnet[s].state = "here"
                          /\ e.address \in Cidr[s]
                          /\ s \notin FromPrefix
        <5> HIDE DEF s
        <5> QED BY <3>2 DEF Sound
      <4>1. s \in Listed(n) /\ e.address \in Cidr[s]
        BY <3>3, <3>4, SubnetForRange
      <4>2. s \in Subnet /\ NetworkOf[s] = n /\ subnet[s].state = "here"
        <5> HIDE DEF s
        <5> QED BY <4>1, ListedHere
      <4> HIDE DEF s
      <4> QED BY <3>3, <4>1, <4>2
    <3>6. Clear(port, p, n, g)
      <4> SUFFICES ASSUME g.vetted, NEW q \in Port, port[q].network = n,
                          NEW i \in DOMAIN port[q].fixed_ips,
                          port[q].fixed_ips[i].address = e.address
                   PROVE  FALSE
        <5> HIDE DEF s
        <5> QED BY <3>2 DEF Clear
      <4> QED BY <3>4 DEF InUse
    <3> HIDE DEF g, s
    <3> QED BY <3>1, <3>2, <3>5, <3>6
  <2> QED BY <2>2, <2>3
<1>5. ASSUME NEW s \in Subnet \cup {None}
      PROVE  /\ Unnamed(n, p, s, held) \in FixedIp
             /\ Sound(subnet, p, n, Unnamed(n, p, s, held))
             /\ Clear(port, p, n, Unnamed(n, p, s, held))
  <2>1. CASE s = None \/ ~Here(subnet[s])
    <3>1. Unnamed(n, p, s, held) = [subnet |-> s, address |-> None, vetted |-> FALSE]
      BY <2>1 DEF Unnamed
    <3> QED BY <3>1 DEF FixedIp, Sound, Clear
  <2>2. CASE s # None /\ Here(subnet[s]) /\ Current(held, s).address # None
    BY <1>3, <2>2 DEF Unnamed
  <2>3. CASE s # None /\ Here(subnet[s]) /\ Current(held, s).address = None
    <3> DEFINE w == CanGive(port, s) /\ NetworkOf[s] = n
               g == [Give(port, s, p) EXCEPT !.vetted = w]
    <3>1. Unnamed(n, p, s, held) = g
      BY <2>3 DEF Unnamed
    <3>2. s \in Subnet /\ subnet[s].state = "here"
      BY <2>3 DEF Here
    <3>3. CASE w
      <4>0. w = TRUE
        BY <3>3
      <4>1. g = Give(port, s, p)
        <5> DEFINE a == Give(port, s, p).address
        <5>1. Give(port, s, p) = [subnet |-> s, address |-> a, vetted |-> TRUE]
          BY DEF Give
        <5>2. g = [subnet |-> s, address |-> a, vetted |-> w]
          <6> HIDE DEF w, a
          <6> QED BY <5>1
        <5> HIDE DEF w, a, g
        <5> QED BY <4>0, <5>1, <5>2
      <4> HIDE DEF g
      <4> QED BY <3>1, <3>2, <3>3, <4>1, GiveOK
    <3>4. CASE ~w
      <4>1. Give(port, s, p).address \in Address \cup {None}
        <5>1. s \in FromPrefix => Eui64[s][p] \in Address
          BY <3>2, NetworkAddressesAssumption
        <5>2. Allocate(port, s) \in Address \cup {None}
          BY <3>2, AllocateFree DEF Allocate
        <5> QED BY <5>1, <5>2 DEF Give
      <4>2. g \in FixedIp /\ g.vetted = FALSE
        BY <3>2, <3>4, <4>1 DEF FixedIp, Give
      <4> HIDE DEF g
      <4> QED BY <3>1, <4>2 DEF Sound, Clear
    <3> QED BY <3>3, <3>4
  <2> QED BY <2>1, <2>2, <2>3
<1>6. ASSUME NEW i \in 1 .. k
      PROVE  /\ Resolve(n, p, request, held)[i] \in FixedIp
             /\ Sound(subnet, p, n, Resolve(n, p, request, held)[i])
             /\ Clear(port, p, n, Resolve(n, p, request, held)[i])
  <2>1. request[i] \in Entry /\ Accepts(n, request[i], held)
    BY <1>1 DEF AcceptsAll
  <2>2. Resolve(n, p, request, held)[i] =
           IF request[i].address # None THEN Named(n, request[i], held)
           ELSE Unnamed(n, p, request[i].subnet, held)
    BY <1>1 DEF Resolve
  <2>3. request[i].subnet \in Subnet \cup {None}
    BY <2>1 DEF Entry
  <2> QED BY <1>4, <1>5, <2>1, <2>2, <2>3
<1>7. DOMAIN Resolve(n, p, request, held) = 1 .. k
  BY <1>1 DEF Resolve
<1>8. Resolve(n, p, request, held) \in [1 .. k -> FixedIp]
  BY <1>1, <1>6, <1>7 DEF Resolve
<1>9. Resolve(n, p, request, held) \in Seq(FixedIp)
  BY <1>2, <1>8
<1> QED BY <1>6, <1>7, <1>9 DEF Addressed

\* The addresses that a list of subnets has to give, an entry at most per family.
LEMMA GiveFirstOK ==
    ASSUME TypeOK, ListsOK(network, subnet), NEW po, AddressesOK(subnet, po),
           NEW n \in Network, NEW p \in Port, NEW family, NEW passes,
           \A i \in FirstOf(n, family, passes) : CanGive(po, network[n].subnets[i])
    PROVE  /\ GiveFirst(po, n, family, passes, p) \in Seq(FixedIp)
           /\ Addressed(subnet, po, p, n, GiveFirst(po, n, family, passes, p))
<1> DEFINE first == FirstOf(n, family, passes)
           i     == CHOOSE j \in first : TRUE
           s     == network[n].subnets[i]
<1>1. CASE first = {}
  <2>1. GiveFirst(po, n, family, passes, p) = <<>>
    BY <1>1 DEF GiveFirst
  <2> QED BY <2>1 DEF Addressed
<1>2. CASE first # {}
  <2>1. GiveFirst(po, n, family, passes, p) = <<Give(po, s, p)>>
    BY <1>2 DEF GiveFirst
  <2>2. i \in first
    BY <1>2
  <2>3. i \in DOMAIN network[n].subnets /\ CanGive(po, s)
    BY <2>2 DEF FirstOf
  <2>4. s \in Listed(n)
    BY <2>3 DEF Listed
  <2> HIDE DEF s
  <2>5. s \in Subnet /\ subnet[s].state = "here" /\ NetworkOf[s] = n
    BY <2>4, ListedHere
  <2>6. /\ Give(po, s, p) \in FixedIp
        /\ Sound(subnet, p, n, Give(po, s, p))
        /\ Clear(po, p, n, Give(po, s, p))
    BY <2>3, <2>5, GiveOK
  <2> DEFINE e == Give(po, s, p)
  <2>7. <<e>> \in Seq(FixedIp) /\ DOMAIN <<e>> = {1} /\ <<e>>[1] = e
    <3> HIDE DEF e
    <3>1. e \in FixedIp
      BY <2>6 DEF e
    <3> QED BY <3>1
  <2> HIDE DEF e
  <2>8. Addressed(subnet, po, p, n, <<e>>)
    BY <2>6, <2>7 DEF Addressed, e
  <2> QED BY <2>1, <2>7, <2>8 DEF e
<1> QED BY <1>1, <1>2

\* Two lists in order make one.
LEMMA ConcatOK ==
    ASSUME NEW sb, NEW po, NEW p, NEW n, NEW l1 \in Seq(FixedIp), NEW l2 \in Seq(FixedIp),
           Addressed(sb, po, p, n, l1), Addressed(sb, po, p, n, l2)
    PROVE  l1 \o l2 \in Seq(FixedIp) /\ Addressed(sb, po, p, n, l1 \o l2)
<1>1. l1 \o l2 \in Seq(FixedIp)
  OBVIOUS
<1>2. ASSUME NEW i \in DOMAIN (l1 \o l2)
      PROVE  (\E j \in DOMAIN l1 : (l1 \o l2)[i] = l1[j])
             \/ (\E j \in DOMAIN l2 : (l1 \o l2)[i] = l2[j])
  <2>1. i \in 1 .. Len(l1) + Len(l2)
    OBVIOUS
  <2>2. CASE i <= Len(l1)
    BY <2>1, <2>2
  <2>3. CASE ~(i <= Len(l1))
    <3>1. i - Len(l1) \in DOMAIN l2 /\ (l1 \o l2)[i] = l2[i - Len(l1)]
      BY <2>1, <2>3
    <3> QED BY <3>1
  <2> QED BY <2>2, <2>3
<1>3. \A i \in DOMAIN (l1 \o l2) : Sound(sb, p, n, (l1 \o l2)[i])
                                   /\ Clear(po, p, n, (l1 \o l2)[i])
  BY <1>2 DEF Addressed
<1> QED BY <1>1, <1>3 DEF Addressed

----------------------------------------------------------------------------
(* The inductive invariant: ownership.                                     *)

PortsOK(po) ==
    \A p \in Port :
        /\ po[p].state = "absent" => po[p] = NoPort
        /\ po[p].state = "here" => po[p].network \in Network

GatewayOK(po, ro, me, p) ==
    /\ ~po[p].claimed =>
          /\ po[p].device \in Router
          /\ ro[po[p].device].state = "here"
          /\ \A q \in Port :
                po[q].owner = "gateway" /\ po[q].device = po[p].device /\ ~po[q].claimed
                    => q = p
    /\ po[p].device \in Router \ me =>
          /\ ~po[p].claimed
          /\ ro[po[p].device].gateway =
                [network |-> po[p].network, ips |-> po[p].fixed_ips]

GatewaysOK(po, ro, me) ==
    \A p \in Port : po[p].owner = "gateway" => GatewayOK(po, ro, me, p)

FipsOK(po, fi, me) ==
    /\ \A p \in Port : po[p].owner = "floatingip" /\ ~po[p].claimed =>
          po[p].device \in FloatingIp /\ fi[po[p].device].holder = p
    /\ \A f \in FloatingIp :
          /\ fi[f].state = "here" => fi[f].holder \in Port
          /\ fi[f].state = "absent" => fi[f].holder = None
          /\ fi[f].state = "here" /\ f \notin me =>
                po[fi[f].holder].owner = "floatingip" /\ po[fi[f].holder].device = f
    /\ \A f, g \in FloatingIp :
          fi[f].holder = fi[g].holder /\ fi[f].holder # None => f = g

OwnershipOK(po, ro, fi, me) == PortsOK(po) /\ GatewaysOK(po, ro, me) /\ FipsOK(po, fi, me)

IInv ==
    /\ TypeOK
    /\ ListsOK(network, subnet)
    /\ AddressesOK(subnet, port)
    /\ OwnershipOK(port, router, fip, meddled)

\* What is done to ports by their ids takes nothing from a router or a floating
\* IP that is not remembered as meddled with.
LEMMA TakenOwned ==
    ASSUME IInv, NEW C \in SUBSET Port, Meddle(C), router' = router, fip' = fip,
           \A q \in Port \ C : port'[q] = port[q],
           PortsOK(port'),
           \A q \in C :
              \/ port'[q].claimed
              \/ port'[q].owner \in {"none", "interface"}
              \/ /\ port'[q].owner = port[q].owner /\ port'[q].device = port[q].device
                 /\ ~port[q].claimed
    PROVE  OwnershipOK(port', router', fip', meddled')
<1> USE DEF IInv, OwnershipOK
<1>0. None \notin Router \cup FloatingIp
  BY NetworkAddressesAssumption
<1>1. meddled \subseteq meddled'
  BY DEF Meddle
<1>2. \A q \in C : port[q].owner = "floatingip" /\ port[q].device # None
                       => port[q].device \in meddled'
  BY DEF Meddle, Served
<1>3. \A q \in C : port'[q].owner = "gateway" /\ port'[q].device # None
                       => port'[q].device \in meddled'
  BY DEF Meddle, Served
<1>4. GatewaysOK(port', router', meddled')
  <2> SUFFICES ASSUME NEW p \in Port, port'[p].owner = "gateway"
               PROVE  GatewayOK(port', router', meddled', p)
    BY DEF GatewaysOK
  <2>1. \A q \in Port : port'[q].owner = "gateway" /\ ~port'[q].claimed =>
            port[q].owner = "gateway" /\ ~port[q].claimed /\ port'[q].device = port[q].device
    OBVIOUS
  <2>2. ASSUME ~port'[p].claimed
        PROVE  /\ port'[p].device \in Router
               /\ router[port'[p].device].state = "here"
               /\ \A q \in Port :
                     port'[q].owner = "gateway" /\ port'[q].device = port'[p].device
                     /\ ~port'[q].claimed => q = p
    <3>1. port[p].owner = "gateway" /\ ~port[p].claimed /\ port'[p].device = port[p].device
      BY <2>1, <2>2
    <3>2. GatewayOK(port, router, meddled, p)
      BY <3>1 DEF GatewaysOK
    <3> QED BY <2>1, <3>1, <3>2 DEF GatewayOK
  <2>3. ASSUME port'[p].device \in Router \ meddled'
        PROVE  /\ ~port'[p].claimed
               /\ router[port'[p].device].gateway =
                     [network |-> port'[p].network, ips |-> port'[p].fixed_ips]
    <3>1. p \notin C
      BY <1>0, <1>3, <2>3
    <3>2. port'[p] = port[p] /\ port[p].device \in Router \ meddled
      BY <1>1, <2>3, <3>1
    <3>3. GatewayOK(port, router, meddled, p)
      BY <3>2 DEF GatewaysOK
    <3> QED BY <3>2, <3>3 DEF GatewayOK
  <2> QED BY <2>2, <2>3 DEF GatewayOK
<1>5. FipsOK(port', fip', meddled')
  <2>1. ASSUME NEW p \in Port, port'[p].owner = "floatingip", ~port'[p].claimed
        PROVE  port'[p].device \in FloatingIp /\ fip[port'[p].device].holder = p
    BY <2>1 DEF FipsOK
  <2>2. ASSUME NEW f \in FloatingIp, fip[f].state = "here", f \notin meddled'
        PROVE  port'[fip[f].holder].owner = "floatingip" /\ port'[fip[f].holder].device = f
    <3> DEFINE p == fip[f].holder
    <3>1. p \in Port /\ port[p].owner = "floatingip" /\ port[p].device = f
      BY <1>1, <2>2 DEF FipsOK
    <3>2. p \notin C
      BY <1>0, <1>2, <2>2, <3>1
    <3> QED BY <3>1, <3>2
  <2> QED BY <2>1, <2>2 DEF FipsOK
<1> QED BY <1>4, <1>5

\* A list of a port that is or was there.
LEMMA HeldTyped ==
    ASSUME IInv, NEW p \in Port
    PROVE  /\ port[p] \in PortRecord
           /\ port[p].fixed_ips \in Seq(FixedIp)
           /\ Addressed(subnet, port, p, port[p].network, port[p].fixed_ips)
BY DEF IInv, TypeOK, PortRecord, AddressesOK

\* An address list fills the record of a port.
LEMMA OwnedType ==
    ASSUME NEW n \in Network, NEW ips \in Seq(FixedIp), NEW o \in Owner,
           NEW d \in Router \cup FloatingIp \cup {None}
    PROVE  /\ Owned(n, ips, o, d) \in PortRecord
           /\ Owned(n, ips, o, d).state = "here" /\ Owned(n, ips, o, d).network = n
           /\ Owned(n, ips, o, d).fixed_ips = ips
           /\ Owned(n, ips, o, d).owner = o /\ Owned(n, ips, o, d).device = d
           /\ ~Owned(n, ips, o, d).claimed
BY DEF Owned, PortRecord, State

\* A claim changes owner and device, and is remembered if it does.
LEMMA ClaimType ==
    ASSUME NEW rec \in PortRecord, NEW o \in Owner,
           NEW d \in Router \cup FloatingIp \cup {None}
    PROVE  /\ Claim(rec, o, d) \in PortRecord
           /\ Claim(rec, o, d).state = rec.state /\ Claim(rec, o, d).network = rec.network
           /\ Claim(rec, o, d).fixed_ips = rec.fixed_ips
           /\ Claim(rec, o, d).owner = o /\ Claim(rec, o, d).device = d
           /\ Claim(rec, o, d).claimed \/ (rec.owner = o /\ rec.device = d /\ ~rec.claimed)
<1> DEFINE c == rec.claimed \/ rec.owner # o \/ rec.device # d
           new == [rec EXCEPT !.owner = o, !.device = d, !.claimed = c]
<1>1. Claim(rec, o, d) = new
  BY DEF Claim
<1>2. c \in BOOLEAN
  OBVIOUS
<1>3. c \/ (rec.owner = o /\ rec.device = d /\ ~rec.claimed)
  OBVIOUS
<1> HIDE DEF c
<1>4. /\ new \in PortRecord /\ new.state = rec.state /\ new.network = rec.network
      /\ new.fixed_ips = rec.fixed_ips /\ new.owner = o /\ new.device = d
      /\ new.claimed = c
  BY <1>2 DEF PortRecord
<1> HIDE DEF new
<1> QED BY <1>1, <1>3, <1>4

\* The absence of a port.
LEMMA NoPortType ==
    /\ NoPort \in PortRecord /\ NoPort.state = "absent" /\ NoPort.owner = "none"
    /\ NoPort.fixed_ips = <<>> /\ NoPort.network = None /\ NoPort.device = None
<1>1. <<>> \in Seq(FixedIp)
  OBVIOUS
<1> QED BY <1>1 DEF NoPort, PortRecord, State, Owner

----------------------------------------------------------------------------
(* Networks and subnets.                                                   *)

\* A network comes with no subnets.
LEMMA CreateNetworkKeeps ==
    ASSUME IInv, NEW n \in Network, CreateNetwork(n)
    PROVE  IInv'
<1>1. /\ network' = [network EXCEPT ![n].state = "here"]
      /\ network[n].state = "absent"
      /\ UNCHANGED <<subnet, port, router, fip, meddled>>
  BY DEF CreateNetwork
<1>2. TypeOK'
  <2>1. network \in [Network -> [state : State, subnets : Seq(Subnet)]]
    BY DEF IInv, TypeOK
  <2>2. "here" \in State
    BY DEF State
  <2>3. network' \in [Network -> [state : State, subnets : Seq(Subnet)]]
    BY <1>1, <2>1, <2>2
  <2> QED BY <1>1, <2>3 DEF IInv, TypeOK
<1>3. \A m \in Network : /\ network'[m].subnets = network[m].subnets
                         /\ network'[m].state = "absent" => network[m].state = "absent"
  BY <1>1 DEF IInv, TypeOK
<1>4. ListsOK(network', subnet')
  BY <1>1, <1>3 DEF IInv, ListsOK
<1> QED BY <1>1, <1>2, <1>4 DEF IInv

\* A network that no port is on takes its subnets along: no address is on them.
LEMMA DeleteNetworkKeeps ==
    ASSUME IInv, NEW n \in Network, DeleteNetwork(n)
    PROVE  IInv'
<1>1. /\ network' = [network EXCEPT ![n] = NoNetwork]
      /\ subnet' = [s \in Subnet |-> IF NetworkOf[s] = n THEN NoSubnet ELSE subnet[s]]
      /\ \A p \in Port : port[p].network # n
      /\ UNCHANGED <<port, router, fip, meddled>>
  BY DEF DeleteNetwork
<1>2. TypeOK'
  <2>1. <<>> \in Seq(Subnet)
    OBVIOUS
  <2>2. network' \in [Network -> [state : State, subnets : Seq(Subnet)]]
    BY <1>1, <2>1 DEF IInv, TypeOK, State, NoNetwork
  <2>3. subnet' \in [Subnet -> [state : State, gateway_ip : Address \cup {None}]]
    BY <1>1 DEF IInv, TypeOK, State, NoSubnet
  <2> QED BY <1>1, <2>2, <2>3 DEF IInv, TypeOK
<1>3. \A m \in Network : network'[m] = IF m = n THEN NoNetwork ELSE network[m]
  BY <1>1 DEF IInv, TypeOK
<1>4. \A s \in Subnet : subnet'[s] = IF NetworkOf[s] = n THEN NoSubnet ELSE subnet[s]
  BY <1>1
<1>5. NoNetwork.state = "absent" /\ NoNetwork.subnets = <<>> /\ NoSubnet.state = "absent"
  BY DEF NoNetwork, NoSubnet
<1>6. ListsOK(network', subnet')
  <2> SUFFICES ASSUME NEW m \in Network
               PROVE  /\ network'[m].state = "absent" => network'[m].subnets = <<>>
                      /\ \A s \in Subnet :
                            s \in {network'[m].subnets[i] : i \in DOMAIN network'[m].subnets}
                                <=> subnet'[s].state = "here" /\ NetworkOf[s] = m
                      /\ \A i, j \in DOMAIN network'[m].subnets :
                            network'[m].subnets[i] = network'[m].subnets[j] => i = j
    BY DEF ListsOK
  <2>1. CASE m = n
    BY <1>3, <1>4, <1>5, <2>1
  <2>2. CASE m # n
    <3>1. network'[m] = network[m]
      BY <1>3, <2>2
    <3>2. \A s \in Subnet : NetworkOf[s] = m => subnet'[s] = subnet[s]
      BY <1>4, <2>2
    <3> QED BY <3>1, <3>2 DEF IInv, ListsOK
  <2> QED BY <2>1, <2>2
<1>7. AddressesOK(subnet', port')
  <2> SUFFICES ASSUME NEW p \in Port, NEW i \in DOMAIN port[p].fixed_ips
               PROVE  /\ Sound(subnet', p, port[p].network, port[p].fixed_ips[i])
                      /\ Clear(port, p, port[p].network, port[p].fixed_ips[i])
    BY <1>1 DEF AddressesOK, Addressed
  <2>1. /\ Sound(subnet, p, port[p].network, port[p].fixed_ips[i])
        /\ Clear(port, p, port[p].network, port[p].fixed_ips[i])
    BY DEF IInv, AddressesOK, Addressed
  <2> QED BY <1>1, <1>4, <2>1 DEF Sound
<1> QED BY <1>1, <1>2, <1>6, <1>7 DEF IInv

\* A new subnet is added to its network's list.
LEMMA CreateSubnetKeeps ==
    ASSUME IInv, NEW s \in Subnet, NEW ip \in GatewayIp[s], CreateSubnet(s, ip)
    PROVE  IInv'
<1> DEFINE n   == NetworkOf[s]
           old == network[n].subnets
           new == Append(old, s)
<1>1. /\ subnet' = [subnet EXCEPT ![s] = [state |-> "here", gateway_ip |-> ip]]
      /\ network' = [network EXCEPT ![n].subnets = new]
      /\ subnet[s].state = "absent" /\ network[n].state = "here"
      /\ UNCHANGED <<port, router, fip, meddled>>
  BY DEF CreateSubnet, Here
<1>2. n \in Network /\ ip \in Address \cup {None}
  BY NetworkAddressesAssumption
<1>3. old \in Seq(Subnet) /\ DOMAIN old = 1 .. Len(old) /\ Len(old) \in Nat
  BY <1>2 DEF IInv, TypeOK
<1>4. /\ new \in Seq(Subnet) /\ DOMAIN new = 1 .. Len(old) + 1
      /\ \A i \in 1 .. Len(old) : new[i] = old[i]
      /\ new[Len(old) + 1] = s
  <2> HIDE DEF old
  <2> QED BY <1>3
<1>5. /\ \A m \in Network : network'[m].subnets = IF m = n THEN new ELSE network[m].subnets
      /\ \A m \in Network : network'[m].state = network[m].state
  <2> HIDE DEF new
  <2> QED BY <1>1, <1>2 DEF IInv, TypeOK
<1>6. \A t \in Subnet : subnet'[t].state = IF t = s THEN "here" ELSE subnet[t].state
  BY <1>1 DEF IInv, TypeOK
<1>7. TypeOK'
  <2>1. subnet' \in [Subnet -> [state : State, gateway_ip : Address \cup {None}]]
    BY <1>1, <1>2 DEF IInv, TypeOK, State
  <2>2. network' \in [Network -> [state : State, subnets : Seq(Subnet)]]
    <3> HIDE DEF new, n
    <3> QED BY <1>1, <1>2, <1>4 DEF IInv, TypeOK
  <2> QED BY <1>1, <2>1, <2>2 DEF IInv, TypeOK
<1>8. s \notin {old[i] : i \in DOMAIN old}
  BY <1>1, <1>2 DEF IInv, ListsOK
<1>9. {new[i] : i \in DOMAIN new} = {old[i] : i \in DOMAIN old} \cup {s}
  <2> HIDE DEF old, new
  <2> QED BY <1>3, <1>4
<1>10. \A i, j \in DOMAIN old : old[i] = old[j] => i = j
  BY <1>2 DEF IInv, ListsOK
<1>11. \A i, j \in DOMAIN new : new[i] = new[j] => i = j
  <2> HIDE DEF old, new
  <2> QED BY <1>3, <1>4, <1>8, <1>10
<1>12. ListsOK(network', subnet')
  <2> SUFFICES ASSUME NEW m \in Network
               PROVE  /\ network'[m].state = "absent" => network'[m].subnets = <<>>
                      /\ \A t \in Subnet :
                            t \in {network'[m].subnets[i] : i \in DOMAIN network'[m].subnets}
                                <=> subnet'[t].state = "here" /\ NetworkOf[t] = m
                      /\ \A i, j \in DOMAIN network'[m].subnets :
                            network'[m].subnets[i] = network'[m].subnets[j] => i = j
    BY DEF ListsOK
  <2>1. CASE m = n
    <3>1. network'[m].subnets = new /\ network'[m].state = "here"
      BY <1>1, <1>5, <2>1
    <3>2. \A t \in Subnet : t \in {old[i] : i \in DOMAIN old}
                              <=> subnet[t].state = "here" /\ NetworkOf[t] = n
      BY <1>2 DEF IInv, ListsOK
    <3>3. NetworkOf[s] = n
      OBVIOUS
    <3> HIDE DEF old, new, n
    <3>4. {network'[m].subnets[i] : i \in DOMAIN network'[m].subnets}
             = {new[i] : i \in DOMAIN new}
      BY <3>1
    <3>5. \A t \in Subnet : t \in {new[i] : i \in DOMAIN new}
                              <=> subnet'[t].state = "here" /\ NetworkOf[t] = n
      BY <1>6, <1>9, <3>2, <3>3
    <3> QED BY <1>11, <2>1, <3>1, <3>4, <3>5
  <2>2. CASE m # n
    <3>1. network'[m].subnets = network[m].subnets /\ network'[m].state = network[m].state
      BY <1>5, <2>2
    <3>2. \A t \in Subnet : NetworkOf[t] = m => subnet'[t].state = subnet[t].state
      BY <1>6, <2>2
    <3> HIDE DEF n, new
    <3> QED BY <3>1, <3>2 DEF IInv, ListsOK
  <2> QED BY <2>1, <2>2
<1>13. AddressesOK(subnet', port')
  <2>1. \A t \in Subnet : subnet[t].state = "here" => subnet'[t].state = "here"
    BY <1>6
  <2> QED BY <1>1, <2>1 DEF IInv, AddressesOK, Addressed, Sound
<1> QED BY <1>1, <1>7, <1>12, <1>13 DEF IInv

\* The gateway_ip of a subnet is only shown.
LEMMA UpdateSubnetKeeps ==
    ASSUME IInv, NEW s \in Subnet, NEW ip \in GatewayIp[s], UpdateSubnet(s, ip)
    PROVE  IInv'
<1>1. /\ subnet' = [subnet EXCEPT ![s].gateway_ip = ip]
      /\ UNCHANGED <<network, port, router, fip, meddled>>
  BY DEF UpdateSubnet
<1>2. ip \in Address \cup {None}
  BY NetworkAddressesAssumption
<1>3. subnet' \in [Subnet -> [state : State, gateway_ip : Address \cup {None}]]
  BY <1>1, <1>2 DEF IInv, TypeOK
<1>4. TypeOK'
  BY <1>1, <1>3 DEF IInv, TypeOK
<1>5. \A t \in Subnet : subnet'[t].state = subnet[t].state
  BY <1>1 DEF IInv, TypeOK
<1>6. ListsOK(network', subnet')
  BY <1>1, <1>5 DEF IInv, ListsOK
<1>7. AddressesOK(subnet', port')
  BY <1>1, <1>5 DEF IInv, AddressesOK, Addressed, Sound
<1> QED BY <1>1, <1>4, <1>6, <1>7 DEF IInv

\* Deleting from a list in which everything is once.
LEMMA UnlistOK ==
    ASSUME NEW list \in Seq(Subnet), NEW s \in {list[i] : i \in DOMAIN list},
           \A i, j \in DOMAIN list : list[i] = list[j] => i = j
    PROVE  LET new == Unlist(list, s) IN
           /\ new \in Seq(Subnet)
           /\ {new[i] : i \in DOMAIN new} = {list[i] : i \in DOMAIN list} \ {s}
           /\ \A i, j \in DOMAIN new : new[i] = new[j] => i = j
<1> DEFINE n   == Len(list)
           at  == CHOOSE i \in DOMAIN list : list[i] = s /\ \A j \in 1 .. i - 1 : list[j] # s
           new == Unlist(list, s)
<1>1. n \in Nat /\ DOMAIN list = 1 .. n /\ \A i \in 1 .. n : list[i] \in Subnet
  OBVIOUS
<1>2. PICK k \in 1 .. n : list[k] = s
  BY <1>1
<1>3. \A j \in 1 .. k - 1 : list[j] # s
  <2> SUFFICES ASSUME NEW j \in 1 .. k - 1 PROVE list[j] # s
    OBVIOUS
  <2>1. j \in 1 .. n /\ j # k
    BY <1>1, <1>2
  <2> QED BY <1>1, <1>2, <2>1
<1>4. at \in 1 .. n /\ list[at] = s
  <2>1. \E i \in DOMAIN list : list[i] = s /\ \A j \in 1 .. i - 1 : list[j] # s
    BY <1>1, <1>2, <1>3
  <2> QED BY <1>1, <2>1
<1>5. new = [j \in 1 .. n - 1 |-> IF j < at THEN list[j] ELSE list[j + 1]]
  BY DEF Unlist
<1> HIDE DEF n, at, new
<1>6. /\ new \in [1 .. n - 1 -> Subnet] /\ DOMAIN new = 1 .. n - 1
      /\ \A j \in 1 .. n - 1 : new[j] = IF j < at THEN list[j] ELSE list[j + 1]
  BY <1>1, <1>4, <1>5
<1>7. new \in Seq(Subnet)
  <2>1. n - 1 \in Nat
    BY <1>1, <1>4
  <2> QED BY <1>6, <2>1
<1>8. ASSUME NEW j \in 1 .. n - 1
      PROVE  LET k2 == IF j < at THEN j ELSE j + 1
             IN  k2 \in 1 .. n /\ k2 # at /\ new[j] = list[k2]
  BY <1>1, <1>4, <1>6
<1>9. ASSUME NEW i \in 1 .. n, i # at
      PROVE  LET j == IF i < at THEN i ELSE i - 1
             IN  j \in 1 .. n - 1 /\ new[j] = list[i]
  <2>1. CASE i < at
    BY <1>1, <1>4, <1>6, <2>1
  <2>2. CASE ~(i < at)
    <3>1. i - 1 \in 1 .. n - 1 /\ ~(i - 1 < at) /\ (i - 1) + 1 = i
      BY <1>1, <1>4, <1>9, <2>2
    <3> QED BY <1>6, <2>2, <3>1
  <2> QED BY <2>1, <2>2
<1>10. \A i \in 1 .. n : list[i] = s <=> i = at
  BY <1>1, <1>4
<1>11. {new[j] : j \in DOMAIN new} = {list[i] : i \in DOMAIN list} \ {s}
  <2>1. ASSUME NEW j \in DOMAIN new
        PROVE  new[j] \in {list[i] : i \in DOMAIN list} \ {s}
    <3>1. PICK i \in 1 .. n : i # at /\ new[j] = list[i]
      BY <1>6, <1>8
    <3> QED BY <1>1, <1>10, <3>1
  <2>2. ASSUME NEW i \in DOMAIN list, list[i] # s
        PROVE  list[i] \in {new[j] : j \in DOMAIN new}
    <3>1. i \in 1 .. n /\ i # at
      BY <1>1, <1>10, <2>2
    <3> QED BY <1>6, <1>9, <3>1
  <2> QED BY <2>1, <2>2
<1>12. ASSUME NEW i \in DOMAIN new, NEW j \in DOMAIN new, new[i] = new[j] PROVE i = j
  <2>1. i \in 1 .. n - 1 /\ j \in 1 .. n - 1 /\ at \in Int
    BY <1>4, <1>6
  <2>2. (IF i < at THEN i ELSE i + 1) = (IF j < at THEN j ELSE j + 1)
    BY <1>1, <1>8, <1>12, <2>1
  <2> QED BY <1>1, <2>1, <2>2
<1> QED BY <1>7, <1>11, <1>12 DEF new

\* A subnet on which no port has an address leaves its network's list.
LEMMA DeleteSubnetKeeps ==
    ASSUME IInv, NEW s \in Subnet, DeleteSubnet(s)
    PROVE  IInv'
<1> DEFINE n   == NetworkOf[s]
           old == network[n].subnets
           new == Unlist(old, s)
<1>1. /\ subnet' = [subnet EXCEPT ![s] = NoSubnet]
      /\ network' = [network EXCEPT ![n].subnets = new]
      /\ subnet[s].state = "here"
      /\ \A p \in Port : ~InSubnet(p, s)
      /\ UNCHANGED <<port, router, fip, meddled>>
  BY DEF DeleteSubnet, Here
<1>2. n \in Network
  BY NetworkAddressesAssumption
<1>3. /\ old \in Seq(Subnet)
      /\ \A t \in Subnet : t \in {old[i] : i \in DOMAIN old}
                             <=> subnet[t].state = "here" /\ NetworkOf[t] = n
      /\ \A i, j \in DOMAIN old : old[i] = old[j] => i = j
  BY <1>2 DEF IInv, TypeOK, ListsOK
<1>4. s \in {old[i] : i \in DOMAIN old}
  BY <1>1, <1>3
<1>5. /\ new \in Seq(Subnet)
      /\ {new[i] : i \in DOMAIN new} = {old[i] : i \in DOMAIN old} \ {s}
      /\ \A i, j \in DOMAIN new : new[i] = new[j] => i = j
  <2> HIDE DEF old
  <2> QED BY <1>3, <1>4, UnlistOK
<1>6. /\ \A m \in Network : network'[m].subnets = IF m = n THEN new ELSE network[m].subnets
      /\ \A m \in Network : network'[m].state = network[m].state
  <2> HIDE DEF new
  <2> QED BY <1>1, <1>2 DEF IInv, TypeOK
<1>7. \A t \in Subnet : subnet'[t] = IF t = s THEN NoSubnet ELSE subnet[t]
  BY <1>1 DEF IInv, TypeOK
<1>8. NoSubnet.state = "absent"
  BY DEF NoSubnet
<1>9. TypeOK'
  <2>1. subnet' \in [Subnet -> [state : State, gateway_ip : Address \cup {None}]]
    BY <1>1 DEF IInv, TypeOK, State, NoSubnet
  <2>2. network' \in [Network -> [state : State, subnets : Seq(Subnet)]]
    <3>1. network \in [Network -> [state : State, subnets : Seq(Subnet)]]
      BY DEF IInv, TypeOK
    <3> HIDE DEF new, n
    <3> QED BY <1>1, <1>2, <1>5, <3>1
  <2> QED BY <1>1, <2>1, <2>2 DEF IInv, TypeOK
<1>10. ListsOK(network', subnet')
  <2> SUFFICES ASSUME NEW m \in Network
               PROVE  /\ network'[m].state = "absent" => network'[m].subnets = <<>>
                      /\ \A t \in Subnet :
                            t \in {network'[m].subnets[i] : i \in DOMAIN network'[m].subnets}
                                <=> subnet'[t].state = "here" /\ NetworkOf[t] = m
                      /\ \A i, j \in DOMAIN network'[m].subnets :
                            network'[m].subnets[i] = network'[m].subnets[j] => i = j
    BY DEF ListsOK
  <2>1. CASE m = n
    <3>1. network'[m].subnets = new /\ network'[m].state = network[n].state
      BY <1>6, <2>1
    <3>2. network[n].state # "absent"
      <4>1. old # <<>>
        BY <1>4
      <4> QED BY <1>2, <4>1 DEF IInv, ListsOK
    <3> HIDE DEF old, new, n
    <3>3. {network'[m].subnets[i] : i \in DOMAIN network'[m].subnets}
             = {new[i] : i \in DOMAIN new}
      BY <3>1
    <3>4. \A t \in Subnet : t \in {new[i] : i \in DOMAIN new}
                              <=> subnet'[t].state = "here" /\ NetworkOf[t] = n
      BY <1>3, <1>5, <1>7, <1>8
    <3> QED BY <1>5, <2>1, <3>1, <3>2, <3>3, <3>4
  <2>2. CASE m # n
    <3>1. network'[m].subnets = network[m].subnets /\ network'[m].state = network[m].state
      BY <1>6, <2>2
    <3>2. \A t \in Subnet : NetworkOf[t] = m => subnet'[t] = subnet[t]
      BY <1>7, <2>2
    <3> HIDE DEF n, new
    <3> QED BY <3>1, <3>2 DEF IInv, ListsOK
  <2> QED BY <2>1, <2>2
<1>11. AddressesOK(subnet', port')
  <2> SUFFICES ASSUME NEW p \in Port, NEW i \in DOMAIN port[p].fixed_ips
               PROVE  /\ Sound(subnet', p, port[p].network, port[p].fixed_ips[i])
                      /\ Clear(port, p, port[p].network, port[p].fixed_ips[i])
    BY <1>1 DEF AddressesOK, Addressed
  <2>1. /\ Sound(subnet, p, port[p].network, port[p].fixed_ips[i])
        /\ Clear(port, p, port[p].network, port[p].fixed_ips[i])
    BY DEF IInv, AddressesOK, Addressed
  <2>2. port[p].fixed_ips[i].subnet # s
    BY <1>1 DEF InSubnet
  <2> QED BY <1>7, <2>1, <2>2 DEF Sound
<1> QED BY <1>1, <1>9, <1>10, <1>11 DEF IInv

----------------------------------------------------------------------------
(* Ports.                                                                  *)

\* A port that is not there holds nothing.
LEMMA AbsentPort ==
    ASSUME IInv, NEW p \in Port, NewPort(p)
    PROVE  port[p] = NoPort /\ \A f \in FloatingIp : fip[f].holder # p
BY DEF IInv, OwnershipOK, PortsOK, NewPort

\* What a client changes or deletes by its id is told apart.
LEMMA ChangedPortKeeps ==
    ASSUME IInv, NEW C \in SUBSET Port, Meddle(C),
           UNCHANGED <<network, subnet, router, fip>>,
           port' \in [Port -> PortRecord],
           \A q \in Port \ C : port'[q] = port[q],
           \A q \in C :
              \/ port'[q] = NoPort
              \/ /\ port'[q].state = "here" /\ port'[q].network \in Network
                 /\ \/ port'[q].claimed
                    \/ port'[q].owner \in {"none", "interface"}
                    \/ /\ port'[q].owner = port[q].owner /\ port'[q].device = port[q].device
                       /\ ~port[q].claimed,
           AddressesOK(subnet, port')
    PROVE  IInv'
<1>1. meddled' \subseteq Router \cup FloatingIp
  <2>1. ASSUME NEW po \in [Port -> PortRecord]
        PROVE  Served(po, C) \subseteq Router \cup FloatingIp
    BY DEF Served, PortRecord
  <2>2. meddled \subseteq Router \cup FloatingIp /\ port \in [Port -> PortRecord]
    BY DEF IInv, TypeOK
  <2> QED BY <2>1, <2>2 DEF Meddle
<1>2. TypeOK'
  BY <1>1 DEF IInv, TypeOK
<1>3. PortsOK(port')
  <2>1. \A q \in Port \ C : /\ port'[q].state = "absent" => port'[q] = NoPort
                            /\ port'[q].state = "here" => port'[q].network \in Network
    BY DEF IInv, OwnershipOK, PortsOK
  <2>2. \A q \in C : /\ port'[q].state = "absent" => port'[q] = NoPort
                     /\ port'[q].state = "here" => port'[q].network \in Network
    BY NoPortType
  <2> QED BY <2>1, <2>2 DEF PortsOK
<1>4. OwnershipOK(port', router', fip', meddled')
  <2>1. \A q \in C :
           \/ port'[q].claimed
           \/ port'[q].owner \in {"none", "interface"}
           \/ /\ port'[q].owner = port[q].owner /\ port'[q].device = port[q].device
              /\ ~port[q].claimed
    BY NoPortType
  <2> QED BY <1>3, <2>1, TakenOwned
<1> QED BY <1>2, <1>4 DEF IInv

\* A new port of a client's or a router's, its addresses in order.
LEMMA NewPortKeeps ==
    ASSUME IInv, NEW p \in Port, NEW n \in Network, NEW ips \in Seq(FixedIp),
           NEW rec \in PortRecord, rec.state = "here", rec.network = n, rec.fixed_ips = ips,
           rec.claimed \/ rec.owner \in {"none", "interface"},
           port' = [port EXCEPT ![p] = rec], Meddle({p}),
           Addressed(subnet, port, p, n, ips),
           UNCHANGED <<network, subnet, router, fip>>
    PROVE  IInv'
<1>1. port \in [Port -> PortRecord]
  BY DEF IInv, TypeOK
<1>2. port' \in [Port -> PortRecord] /\ port'[p] = rec
      /\ \A q \in Port \ {p} : port'[q] = port[q]
  BY <1>1
<1>3. AddressesOK(subnet, port')
  BY <1>2, PutAddresses DEF IInv
<1> QED BY <1>2, <1>3, ChangedPortKeeps

\* A client's new port takes what it is given or what it asked for.
LEMMA CreatePortKeeps ==
    ASSUME IInv, NEW p \in Port, NEW n \in Network, NEW request \in Request,
           CreatePort(p, n, request)
    PROVE  IInv'
<1> DEFINE giving == {s \in Subnet : CanGive(port, s)}
           ips == IF request = <<>> THEN AutoAllocate(n, p)
                  ELSE Resolve(n, p, request, <<>>)
<1>0. PICK o \in {"none"} \cup ClaimedOwner, d \in {None} \cup ClaimedDevice :
          port' = [port EXCEPT ![p] = Claim(Owned(n, ips, "none", None), o, d)]
  BY DEF CreatePort
<1>1. /\ NewPort(p) /\ AcceptsAll(n, request, <<>>)
      /\ Meddle({p})
      /\ UNCHANGED <<network, subnet, router, fip>>
  BY DEF CreatePort
<1>2. /\ TypeOK /\ ListsOK(network, subnet) /\ AddressesOK(subnet, port)
  BY DEF IInv
<1>3. ips \in Seq(FixedIp) /\ Addressed(subnet, port, p, n, ips)
  <2>1. CASE request = <<>>
    <3>1. \A family : \A i \in FirstOf(n, family, giving) : CanGive(port, network[n].subnets[i])
      BY DEF FirstOf
    <3> DEFINE l1 == GiveFirst(port, n, 4, giving, p)
               l2 == GiveFirst(port, n, 6, giving, p)
    <3>2. /\ l1 \in Seq(FixedIp) /\ Addressed(subnet, port, p, n, l1)
          /\ l2 \in Seq(FixedIp) /\ Addressed(subnet, port, p, n, l2)
      <4> HIDE DEF giving
      <4> QED BY <1>2, <3>1, GiveFirstOK
    <3>3. ips = l1 \o l2
      BY <2>1 DEF AutoAllocate
    <3> HIDE DEF l1, l2, ips
    <3> QED BY <3>2, <3>3, ConcatOK
  <2>2. CASE request # <<>>
    <3>1. <<>> \in Seq(FixedIp) /\ Addressed(subnet, port, p, n, <<>>)
      BY DEF Addressed
    <3>2. /\ Resolve(n, p, request, <<>>) \in Seq(FixedIp)
          /\ Addressed(subnet, port, p, n, Resolve(n, p, request, <<>>))
      BY <1>1, <1>2, <3>1, ResolveOK
    <3> QED BY <2>2, <3>2
  <2> QED BY <2>1, <2>2
<1> HIDE DEF ips
<1> DEFINE first == Owned(n, ips, "none", None)
           rec == Claim(first, o, d)
<1>4. /\ o \in Owner /\ d \in Router \cup FloatingIp \cup {None}
      /\ "none" \in Owner
  BY NetworkAddressesAssumption DEF Owner
<1>5. /\ first \in PortRecord /\ first.state = "here" /\ first.network = n
      /\ first.fixed_ips = ips /\ first.owner = "none"
  BY <1>3, <1>4, OwnedType
<1> HIDE DEF first
<1>6. /\ rec \in PortRecord /\ rec.state = "here" /\ rec.network = n
      /\ rec.fixed_ips = ips /\ (rec.claimed \/ rec.owner = "none")
  BY <1>4, <1>5, ClaimType
<1>7. port' = [port EXCEPT ![p] = rec]
  BY <1>0 DEF first
<1> HIDE DEF rec
<1> QED BY <1>1, <1>3, <1>6, <1>7, NewPortKeeps

\* A PUT leaves the list or replaces it by one that is in order.
LEMMA UpdatePortKeeps ==
    ASSUME IInv, NEW p \in Port, UpdatePort(p)
    PROVE  IInv'
<1> DEFINE n == port[p].network
<1>0. PICK ips \in PutIps(p), o \in {port[p].owner} \cup ClaimedOwner,
           d \in {port[p].device} \cup ClaimedDevice :
          port' = [port EXCEPT ![p] = Claim([port[p] EXCEPT !.fixed_ips = ips], o, d)]
  <2>1. port \in [Port -> PortRecord]
    BY DEF IInv, TypeOK
  <2> QED BY <2>1 DEF UpdatePort
<1>1. /\ port[p].state = "here"
      /\ Meddle({p})
      /\ UNCHANGED <<network, subnet, router, fip>>
  BY DEF UpdatePort, Here
<1>2. n \in Network
  BY <1>1 DEF IInv, OwnershipOK, PortsOK
<1>3. TypeOK /\ ListsOK(network, subnet) /\ AddressesOK(subnet, port)
  BY DEF IInv
<1>4. port[p].fixed_ips \in Seq(FixedIp) /\ Addressed(subnet, port, p, n, port[p].fixed_ips)
  BY HeldTyped
<1>5. ips \in Seq(FixedIp) /\ Addressed(subnet, port, p, n, ips)
  <2>1. CASE ips = port[p].fixed_ips
    BY <1>4, <2>1
  <2>2. ASSUME NEW request \in Request, AcceptsAll(n, request, port[p].fixed_ips),
               ips = Resolve(n, p, request, port[p].fixed_ips)
        PROVE  ips \in Seq(FixedIp) /\ Addressed(subnet, port, p, n, ips)
    <3> HIDE DEF n
    <3> QED BY <1>2, <1>3, <1>4, <2>2, ResolveOK
  <2> QED BY <2>1, <2>2 DEF PutIps
<1> DEFINE first == [port[p] EXCEPT !.fixed_ips = ips]
           rec == Claim(first, o, d)
<1>6. port \in [Port -> PortRecord] /\ port[p] \in PortRecord
  BY DEF IInv, TypeOK
<1>7. /\ first \in PortRecord /\ first.state = "here" /\ first.network = n
      /\ first.fixed_ips = ips /\ first.owner = port[p].owner
      /\ first.device = port[p].device /\ first.claimed = port[p].claimed
  BY <1>1, <1>5, <1>6 DEF PortRecord
<1>8. port' = [port EXCEPT ![p] = rec]
  BY <1>0
<1>9. o \in Owner /\ d \in Router \cup FloatingIp \cup {None}
  BY <1>6, NetworkAddressesAssumption DEF PortRecord
<1> HIDE DEF first
<1>10. /\ rec \in PortRecord /\ rec.state = "here" /\ rec.network = n
       /\ rec.fixed_ips = ips
       /\ rec.claimed \/ (/\ rec.owner = port[p].owner /\ rec.device = port[p].device
                         /\ ~port[p].claimed)
  BY <1>7, <1>9, ClaimType
<1> HIDE DEF rec
<1>11. /\ port' \in [Port -> PortRecord]
       /\ \A q \in Port \ {p} : port'[q] = port[q]
       /\ port'[p] = rec
  BY <1>6, <1>8, <1>10
<1>12. AddressesOK(subnet, port')
  BY <1>3, <1>5, <1>10, <1>11, PutAddresses
<1> HIDE DEF n
<1> QED BY <1>1, <1>2, <1>10, <1>11, <1>12, ChangedPortKeeps

\* Deleting ports by their ids.
LEMMA WithoutKeeps ==
    ASSUME IInv, NEW C \in SUBSET Port, Meddle(C), port' = Without(C),
           UNCHANGED <<network, subnet, router, fip>>
    PROVE  IInv'
<1>1. \A q \in Port : port'[q] = IF q \in C THEN NoPort ELSE port[q]
  BY DEF Without
<1>2. port' \in [Port -> PortRecord]
  BY NoPortType DEF IInv, TypeOK, Without
<1>3. Fewer(port', port)
  BY <1>1 DEF Fewer
<1>4. AddressesOK(subnet, port')
  BY <1>3, FewerAddresses DEF IInv
<1> QED BY <1>1, <1>2, <1>4, ChangedPortKeeps

\* A port deleted by its id, and by a router that lets go of it.
LEMMA DeletePortKeeps ==
    ASSUME IInv, NEW p \in Port, DeletePort(p)
    PROVE  IInv'
BY WithoutKeeps DEF DeletePort

\* Interfaces removed by port and by subnet.
LEMMA RemoveInterfacesKeeps ==
    ASSUME IInv, NEW r \in Router,
           \/ \E s \in Subnet : RemoveSubnetInterface(r, s)
           \/ \E p \in Port : RemovePortInterface(r, p)
    PROVE  IInv'
<1>1. ASSUME NEW C \in SUBSET Port, RemoveInterfaces(r, C) PROVE IInv'
  BY <1>1, WithoutKeeps DEF RemoveInterfaces
<1>2. ASSUME NEW s \in Subnet, RemoveSubnetInterface(r, s) PROVE IInv'
  <2> DEFINE C == {p \in Port : port[p].device = r /\ InSubnet(p, s)}
  <2>1. C \in SUBSET Port /\ RemoveInterfaces(r, C)
    BY <1>2 DEF RemoveSubnetInterface
  <2> QED BY <1>1, <2>1
<1>3. ASSUME NEW p \in Port, RemovePortInterface(r, p) PROVE IInv'
  <2> DEFINE C == {p} \cap {q \in Port : port[q].device = r}
  <2>1. C \in SUBSET Port /\ RemoveInterfaces(r, C)
    BY <1>3 DEF RemovePortInterface
  <2> QED BY <1>1, <2>1
<1> QED BY <1>2, <1>3

\* An interface takes the subnet's gateway_ip unchecked, or an address in order.
LEMMA AddSubnetInterfaceKeeps ==
    ASSUME IInv, NEW r \in Router, NEW s \in Subnet, NEW p \in Port,
           AddSubnetInterface(r, s, p)
    PROVE  IInv'
<1> DEFINE n  == NetworkOf[s]
           ip == subnet[s].gateway_ip
           e  == IF ip = None THEN Unnamed(n, p, s, <<>>)
                 ELSE [subnet |-> s, address |-> ip, vetted |-> FALSE]
<1>1. /\ subnet[s].state = "here" /\ NewPort(p)
      /\ port' = [port EXCEPT ![p] = Owned(n, <<e>>, "interface", r)]
      /\ UNCHANGED <<network, subnet, router, fip, meddled>>
  BY DEF AddSubnetInterface, Here
<1>2. n \in Network /\ ip \in Address \cup {None}
  BY NetworkAddressesAssumption DEF IInv, TypeOK
<1>3. e \in FixedIp /\ Sound(subnet, p, n, e) /\ Clear(port, p, n, e)
  <2>1. CASE ip # None
    <3>1. e \in FixedIp
      BY <1>2, <2>1, EntryType
    <3> QED BY <2>1, <3>1 DEF Sound, Clear
  <2>2. CASE ip = None
    <3>1. Current(<<>>, s).address = None
      BY DEF Current
    <3>2. s # None
      BY NetworkAddressesAssumption
    <3> DEFINE g == Give(port, s, p)
               w == CanGive(port, s) /\ NetworkOf[s] = n
    <3>3. e = [g EXCEPT !.vetted = w]
      BY <1>1, <2>2, <3>1, <3>2 DEF Unnamed, Here
    <3>4. g = [subnet |-> s, address |-> g.address, vetted |-> TRUE]
      BY DEF Give
    <3>5. e = [subnet |-> s, address |-> g.address, vetted |-> w]
      <4> HIDE DEF e, g, w
      <4> QED BY <3>3, <3>4
    <3>6. CASE CanGive(port, s)
      <4>1. g \in FixedIp /\ Sound(subnet, p, n, g) /\ Clear(port, p, n, g)
        BY <1>1, <3>6, GiveOK DEF IInv
      <4>2. w = TRUE
        BY <3>6
      <4>3. e = g
        <5> HIDE DEF e, g, w
        <5> QED BY <3>4, <3>5, <4>2
      <4> HIDE DEF e, g
      <4> QED BY <4>1, <4>3
    <3>7. CASE ~CanGive(port, s)
      <4>1. w = FALSE /\ s \notin FromPrefix /\ Free(port, s) = {}
        BY <3>7 DEF CanGive
      <4>2. g.address = None
        BY <4>1 DEF Give, Allocate
      <4> HIDE DEF e, g, w
      <4>3. e \in FixedIp /\ e.vetted = FALSE
        BY <3>5, <4>1, <4>2, EntryType
      <4> QED BY <4>3 DEF Sound, Clear
    <3> QED BY <3>6, <3>7
  <2> QED BY <2>1, <2>2
<1> HIDE DEF e, n
<1>4. <<e>> \in Seq(FixedIp) /\ DOMAIN <<e>> = {1} /\ <<e>>[1] = e
  BY <1>3
<1>5. Addressed(subnet, port, p, n, <<e>>)
  BY <1>3, <1>4 DEF Addressed
<1> DEFINE ips == <<e>>
           rec == Owned(n, ips, "interface", r)
<1>6. port' = [port EXCEPT ![p] = rec] /\ ips \in Seq(FixedIp)
      /\ Addressed(subnet, port, p, n, ips)
  BY <1>1, <1>4, <1>5
<1> HIDE DEF ips
<1>7. /\ rec \in PortRecord /\ rec.state = "here" /\ rec.network = n
      /\ rec.fixed_ips = ips /\ rec.owner = "interface"
  <2>1. "interface" \in Owner
    BY DEF Owner
  <2> QED BY <1>2, <1>6, <2>1, OwnedType
<1> HIDE DEF rec
<1>8. Meddle({p})
  <2>1. port[p].owner = "none"
    BY <1>1, AbsentPort, NoPortType
  <2>2. port'[p].owner = "interface"
    BY <1>6, <1>7 DEF IInv, TypeOK
  <2>3. Served(port, {p}) = {} /\ Served(port', {p}) = {}
    BY <2>1, <2>2 DEF Served
  <2> QED BY <1>1, <2>3 DEF Meddle
<1> QED BY <1>1, <1>2, <1>6, <1>7, <1>8, NewPortKeeps

\* A port that becomes an interface keeps its addresses.
LEMMA AddPortInterfaceKeeps ==
    ASSUME IInv, NEW r \in Router, NEW p \in Port, AddPortInterface(r, p)
    PROVE  IInv'
<1>1. /\ port[p].state = "here"
      /\ port' = [port EXCEPT ![p].owner = "interface", ![p].device = r]
      /\ Meddle({p})
      /\ UNCHANGED <<network, subnet, router, fip>>
  BY DEF AddPortInterface, Here
<1>2. port \in [Port -> PortRecord] /\ port[p] \in PortRecord /\ port[p].network \in Network
  BY <1>1 DEF IInv, TypeOK, OwnershipOK, PortsOK
<1>3. /\ port' \in [Port -> PortRecord]
      /\ \A q \in Port \ {p} : port'[q] = port[q]
      /\ port'[p].fixed_ips = port[p].fixed_ips /\ port'[p].network = port[p].network
      /\ port'[p].state = "here" /\ port'[p].owner = "interface"
  BY <1>1, <1>2 DEF PortRecord, Owner
<1>4. Addressed(subnet, port, p, port'[p].network, port'[p].fixed_ips)
  BY <1>3, HeldTyped
<1>5. AddressesOK(subnet, port')
  BY <1>3, <1>4, PutAddresses DEF IInv
<1> QED BY <1>1, <1>2, <1>3, <1>5, ChangedPortKeeps

----------------------------------------------------------------------------
(* Routers.                                                                *)

\* What is left when a router's gateway port is released.
LEMMA ReleasedOK ==
    ASSUME IInv, NEW r \in Router
    PROVE  /\ Released(r) \in [Port -> PortRecord]
           /\ AddressesOK(subnet, Released(r)) /\ PortsOK(Released(r))
           /\ \A q \in Port : Released(r)[q] = IF q \in GatewayPorts(r) THEN NoPort ELSE port[q]
           /\ \A q \in Port : Released(r)[q].owner = "gateway" =>
                 Released(r)[q] = port[q] /\ port[q].device # r
           /\ \A q \in Port : Released(r)[q].owner = "floatingip" <=>
                 port[q].owner = "floatingip"
           /\ \A q \in Port : Released(r)[q].owner = "floatingip" => Released(r)[q] = port[q]
<1>1. \A q \in Port : Released(r)[q] = IF q \in GatewayPorts(r) THEN NoPort ELSE port[q]
  BY DEF Released, Without
<1>2. Released(r) \in [Port -> PortRecord]
  BY NoPortType DEF IInv, TypeOK, Released, Without
<1>3. Fewer(Released(r), port)
  BY <1>1 DEF Fewer
<1>4. AddressesOK(subnet, Released(r))
  BY <1>3, FewerAddresses DEF IInv
<1>5. PortsOK(Released(r))
  BY <1>1, NoPortType DEF IInv, OwnershipOK, PortsOK
<1>6. \A q \in GatewayPorts(r) : port[q].owner = "gateway"
  BY DEF GatewayPorts
<1>7. \A q \in Port : q \notin GatewayPorts(r) /\ port[q].owner = "gateway" => port[q].device # r
  BY DEF GatewayPorts
<1> QED BY <1>1, <1>2, <1>4, <1>5, <1>6, <1>7, NoPortType

\* The gateways of the other routers stay with them.
LEMMA ReleasedGateways ==
    ASSUME IInv, NEW r \in Router, NEW ro, NEW me,
           \A x \in Router \ {r} : ro[x] = router[x],
           meddled \subseteq me \cup {r}
    PROVE  GatewaysOK(Released(r), ro, me) /\ FipsOK(Released(r), fip, me)
<1>1. GatewaysOK(Released(r), ro, me)
  <2> SUFFICES ASSUME NEW p \in Port, Released(r)[p].owner = "gateway"
               PROVE  GatewayOK(Released(r), ro, me, p)
    BY DEF GatewaysOK
  <2>1. Released(r)[p] = port[p] /\ port[p].device # r
    BY ReleasedOK
  <2>2. \A q \in Port : Released(r)[q].owner = "gateway" => Released(r)[q] = port[q]
    BY ReleasedOK
  <2>3. GatewayOK(port, router, meddled, p)
    BY <2>1 DEF IInv, OwnershipOK, GatewaysOK
  <2>4. port[p].device \in Router => ro[port[p].device] = router[port[p].device]
    BY <2>1
  <2> QED BY <2>1, <2>2, <2>3, <2>4 DEF GatewayOK
<1>2. FipsOK(Released(r), fip, me)
  <2>1. r \notin FloatingIp
    BY NetworkAddressesAssumption
  <2>2. ASSUME NEW p \in Port, Released(r)[p].owner = "floatingip", ~Released(r)[p].claimed
        PROVE  Released(r)[p].device \in FloatingIp /\ fip[Released(r)[p].device].holder = p
    <3>1. Released(r)[p] = port[p]
      BY <2>2, ReleasedOK
    <3> QED BY <2>2, <3>1 DEF IInv, OwnershipOK, FipsOK
  <2>3. ASSUME NEW f \in FloatingIp, fip[f].state = "here", f \notin me
        PROVE  /\ Released(r)[fip[f].holder].owner = "floatingip"
               /\ Released(r)[fip[f].holder].device = f
    <3>1. fip[f].holder \in Port /\ port[fip[f].holder].owner = "floatingip"
          /\ port[fip[f].holder].device = f
      BY <2>1, <2>3 DEF IInv, OwnershipOK, FipsOK
    <3> QED BY <3>1, ReleasedOK
  <2> QED BY <2>2, <2>3 DEF IInv, OwnershipOK, FipsOK
<1> QED BY <1>1, <1>2

\* The addresses of a new gateway: unchecked if named, in order otherwise.
LEMMA GatewayIpsOK ==
    ASSUME IInv, NEW r \in Router, NEW n \in Network, NEW request \in Request, NEW p \in Port,
           request = <<>> => ~Exhausted(Released(r), n)
    PROVE  /\ GatewayIps(r, n, request, p) \in Seq(FixedIp)
           /\ Addressed(subnet, Released(r), p, n, GatewayIps(r, n, request, p))
<1>1. TypeOK /\ ListsOK(network, subnet) /\ AddressesOK(subnet, Released(r))
  BY ReleasedOK DEF IInv
<1>2. CASE request = <<>>
  <2>1. \A family \in {4, 6} : \A i \in FirstOf(n, family, Subnet) :
            CanGive(Released(r), network[n].subnets[i])
    BY <1>2 DEF Exhausted, FirstOf
  <2> DEFINE l1 == GiveFirst(Released(r), n, 4, Subnet, p)
             l2 == GiveFirst(Released(r), n, 6, Subnet, p)
  <2>2. /\ l1 \in Seq(FixedIp) /\ Addressed(subnet, Released(r), p, n, l1)
        /\ l2 \in Seq(FixedIp) /\ Addressed(subnet, Released(r), p, n, l2)
    BY <1>1, <2>1, GiveFirstOK
  <2>3. GatewayIps(r, n, request, p) = l1 \o l2
    BY <1>2 DEF GatewayIps
  <2> HIDE DEF l1, l2
  <2> QED BY <2>2, <2>3, ConcatOK
<1>3. CASE request # <<>>
  <2>1. GatewayIps(r, n, request, p) = GatewayNamed(n, request)
    BY <1>3 DEF GatewayIps
  <2>2. PICK k \in 0 .. MaxEntries : request \in [1 .. k -> {e \in Entry : Sane(e)}]
    BY DEF Request
  <2>3. k \in Nat
    BY NetworkAddressesAssumption
  <2> DEFINE list == GatewayNamed(n, request)
             sub(i) == IF request[i].subnet = None /\ request[i].address # None
                       THEN SubnetFor(n, request[i].address) ELSE request[i].subnet
  <2>4. list = [i \in 1 .. k |->
                  [subnet |-> sub(i), address |-> request[i].address, vetted |-> FALSE]]
    BY <2>2 DEF GatewayNamed
  <2>5. ASSUME NEW i \in 1 .. k
        PROVE  sub(i) \in Subnet \cup {None} /\ request[i].address \in Address \cup {None}
    <3>1. request[i] \in Entry
      BY <2>2
    <3>2. request[i].subnet \in Subnet \cup {None} /\ request[i].address \in Asked \cup {None}
      BY <3>1 DEF Entry
    <3> QED BY <1>1, <3>2, SubnetForRange, NetworkAddressesAssumption
  <2> HIDE DEF sub
  <2>6. \A i \in 1 .. k :
           [subnet |-> sub(i), address |-> request[i].address, vetted |-> FALSE] \in FixedIp
    BY <2>5, EntryType
  <2> HIDE DEF list
  <2>7. list \in [1 .. k -> FixedIp] /\ \A i \in 1 .. k : list[i].vetted = FALSE
    BY <2>4, <2>6
  <2>8. list \in Seq(FixedIp)
    BY <2>3, <2>7
  <2>9. Addressed(subnet, Released(r), p, n, list)
    BY <2>7 DEF Addressed, Sound, Clear
  <2> QED BY <2>1, <2>8, <2>9 DEF list
<1> QED BY <1>2, <1>3

\* A new gateway takes the place of the one before, if there was one.
LEMMA MakeGatewayKeeps ==
    ASSUME IInv, NEW r \in Router, NEW n \in Network, NEW request \in Request, NEW p \in Port,
           MakeGateway(r, n, request, p)
    PROVE  IInv'
<1> DEFINE ips == GatewayIps(r, n, request, p)
           rec == Owned(n, ips, "gateway", r)
           old == Released(r)
<1>1. /\ NewPort(p)
      /\ request = <<>> => ~Exhausted(old, n)
      /\ port' = [old EXCEPT ![p] = rec]
      /\ router' = [router EXCEPT ![r] =
             [state |-> "here", gateway |-> [network |-> n, ips |-> ips]]]
      /\ UNCHANGED <<network, subnet, fip, meddled>>
  BY DEF MakeGateway
<1>2. ips \in Seq(FixedIp) /\ Addressed(subnet, old, p, n, ips)
  BY <1>1, GatewayIpsOK
<1>3. /\ rec \in PortRecord /\ rec.state = "here" /\ rec.network = n
      /\ rec.fixed_ips = ips /\ rec.owner = "gateway" /\ rec.device = r
      /\ ~rec.claimed
  <2> HIDE DEF ips
  <2>1. "gateway" \in Owner
    BY DEF Owner
  <2> QED BY <1>2, <2>1, OwnedType
<1>4. /\ old \in [Port -> PortRecord] /\ AddressesOK(subnet, old) /\ PortsOK(old)
      /\ \A q \in Port : old[q].owner = "gateway" => old[q].device # r
  BY ReleasedOK
<1>5. port[p] = NoPort /\ \A f \in FloatingIp : fip[f].holder # p
  BY <1>1, AbsentPort
<1>6. old[p].owner = "none"
  BY <1>5, ReleasedOK, NoPortType
<1> HIDE DEF rec, ips, old
<1>7. /\ port' \in [Port -> PortRecord] /\ port'[p] = rec
      /\ \A q \in Port \ {p} : port'[q] = old[q]
  BY <1>1, <1>3, <1>4
<1>8. /\ router'[r] = [state |-> "here", gateway |-> [network |-> n, ips |-> ips]]
      /\ \A x \in Router \ {r} : router'[x] = router[x]
  BY <1>1 DEF IInv, TypeOK
<1>9. TypeOK'
  <2>1. [network |-> n, ips |-> ips] \in Gateway
    BY <1>2 DEF Gateway
  <2>2. [state |-> "here", gateway |-> [network |-> n, ips |-> ips]]
          \in [state : State, gateway : Gateway \cup {None}]
    BY <2>1 DEF State
  <2>3. router' \in [Router -> [state : State, gateway : Gateway \cup {None}]]
    BY <1>1, <2>2 DEF IInv, TypeOK
  <2> QED BY <1>1, <1>7, <2>3 DEF IInv, TypeOK
<1>10. AddressesOK(subnet, port')
  BY <1>2, <1>3, <1>4, <1>7, PutAddresses
<1>11. PortsOK(port')
  BY <1>3, <1>4, <1>7 DEF PortsOK
<1>12. GatewaysOK(old, router', meddled) /\ FipsOK(old, fip, meddled)
  BY <1>8, ReleasedGateways DEF old
<1>13. GatewaysOK(port', router', meddled)
  <2> SUFFICES ASSUME NEW q \in Port, port'[q].owner = "gateway"
               PROVE  GatewayOK(port', router', meddled, q)
    BY DEF GatewaysOK
  <2>1. CASE q = p
    <3>1. \A x \in Port \ {p} : port'[x].owner = "gateway" => port'[x].device # r
      BY <1>4, <1>7
    <3> QED BY <1>3, <1>7, <1>8, <2>1, <3>1 DEF GatewayOK
  <2>2. CASE q # p
    <3>1. port'[q] = old[q] /\ old[q].device # r
      BY <1>4, <1>7, <2>2
    <3>2. GatewayOK(old, router', meddled, q)
      BY <1>12, <3>1 DEF GatewaysOK
    <3>3. ASSUME old[q].device \in Router, router'[old[q].device].state = "here",
                 \A x \in Port :
                    old[x].owner = "gateway" /\ old[x].device = old[q].device
                    /\ ~old[x].claimed => x = q,
                 NEW x \in Port, port'[x].owner = "gateway",
                 port'[x].device = port'[q].device, ~port'[x].claimed
          PROVE  x = q
      BY <1>3, <1>7, <3>1, <3>3
    <3> QED BY <3>1, <3>2, <3>3 DEF GatewayOK
  <2> QED BY <2>1, <2>2
<1>14. FipsOK(port', fip, meddled)
  <2>1. ASSUME NEW q \in Port, port'[q].owner = "floatingip", ~port'[q].claimed
        PROVE  port'[q].device \in FloatingIp /\ fip[port'[q].device].holder = q
    <3>1. q # p /\ port'[q] = old[q]
      BY <1>3, <1>7, <2>1
    <3> QED BY <1>12, <2>1, <3>1 DEF FipsOK
  <2>2. ASSUME NEW f \in FloatingIp, fip[f].state = "here", f \notin meddled
        PROVE  port'[fip[f].holder].owner = "floatingip" /\ port'[fip[f].holder].device = f
    <3>1. fip[f].holder \in Port \ {p} /\ old[fip[f].holder].owner = "floatingip"
          /\ old[fip[f].holder].device = f
      BY <1>5, <1>12, <2>2 DEF FipsOK
    <3> QED BY <1>7, <3>1
  <2> QED BY <1>12, <2>1, <2>2 DEF FipsOK
<1> QED BY <1>1, <1>9, <1>10, <1>11, <1>13, <1>14 DEF IInv, OwnershipOK

\* A gateway that is asked for again is shown again.
LEMMA KeepGatewayKeeps ==
    ASSUME IInv, NEW r \in Router, NEW n \in Network, NEW request \in Request,
           KeepGateway(r, n, request)
    PROVE  IInv'
<1>1. PICK p \in GatewayPorts(r) :
          /\ port[p].network = n
          /\ router' = [router EXCEPT ![r].gateway =
                 [network |-> n, ips |-> port[p].fixed_ips]]
  BY DEF KeepGateway, Matches
<1>2. router[r].state = "here" /\ UNCHANGED <<network, subnet, port, fip, meddled>>
  BY DEF KeepGateway, Here
<1>3. p \in Port /\ port[p].owner = "gateway" /\ port[p].device = r
  BY DEF GatewayPorts
<1> DEFINE shown == [network |-> n, ips |-> port[p].fixed_ips]
<1>4. shown \in Gateway
  BY <1>3, HeldTyped DEF Gateway
<1>5. /\ router \in [Router -> [state : State, gateway : Gateway \cup {None}]]
      /\ router' = [router EXCEPT ![r].gateway = shown]
  BY <1>1 DEF IInv, TypeOK
<1> HIDE DEF shown
<1>6. /\ router' \in [Router -> [state : State, gateway : Gateway \cup {None}]]
      /\ router'[r].state = "here" /\ router'[r].gateway = shown
      /\ \A x \in Router \ {r} : router'[x] = router[x]
  BY <1>2, <1>4, <1>5
<1>7. TypeOK'
  BY <1>2, <1>6 DEF IInv, TypeOK
<1>8. GatewaysOK(port, router', meddled)
  <2> SUFFICES ASSUME NEW q \in Port, port[q].owner = "gateway"
               PROVE  GatewayOK(port, router', meddled, q)
    BY DEF GatewaysOK
  <2>1. GatewayOK(port, router, meddled, q) /\ GatewayOK(port, router, meddled, p)
    BY <1>3 DEF IInv, OwnershipOK, GatewaysOK
  <2>2. CASE port[q].device = r
    <3>1. r \notin meddled => ~port[q].claimed /\ q = p
      BY <1>3, <2>1, <2>2 DEF GatewayOK
    <3>2. shown = [network |-> port[p].network, ips |-> port[p].fixed_ips]
      BY <1>1 DEF shown
    <3> QED BY <1>6, <2>1, <2>2, <3>1, <3>2 DEF GatewayOK
  <2>3. CASE port[q].device # r
    BY <1>6, <2>1, <2>3 DEF GatewayOK
  <2> QED BY <2>2, <2>3
<1> QED BY <1>2, <1>7, <1>8 DEF IInv, OwnershipOK

\* Failing, clearing and deleting release the gateway port.
LEMMA ReleaseKeeps ==
    ASSUME IInv, NEW r \in Router, port' = Released(r),
           UNCHANGED <<network, subnet, fip>>,
           router' \in [Router -> [state : State, gateway : Gateway \cup {None}]],
           \A x \in Router \ {r} : router'[x] = router[x],
           meddled' \in {meddled, meddled \ {r}}
    PROVE  IInv'
<1>1. /\ Released(r) \in [Port -> PortRecord]
      /\ AddressesOK(subnet, Released(r)) /\ PortsOK(Released(r))
  BY ReleasedOK
<1>2. TypeOK'
  BY <1>1 DEF IInv, TypeOK
<1>3. GatewaysOK(Released(r), router', meddled') /\ FipsOK(Released(r), fip, meddled')
  BY ReleasedGateways
<1> QED BY <1>1, <1>2, <1>3 DEF IInv, OwnershipOK

\* The steps of a router on its own.
LEMMA RouterKeeps ==
    ASSUME IInv, NEW r \in Router,
           \/ CreateRouter(r) \/ ClearGateway(r) \/ DeleteRouter(r)
           \/ \E n \in Network : FailGateway(r, n)
    PROVE  IInv'
<1>0. router \in [Router -> [state : State, gateway : Gateway \cup {None}]]
  BY DEF IInv, TypeOK
<1>1. CASE CreateRouter(r)
  <2>1. /\ router' = [router EXCEPT ![r].state = "here"]
        /\ \A p \in Port : port[p].device # r
        /\ UNCHANGED <<network, subnet, port, fip, meddled>>
    BY <1>1 DEF CreateRouter, NewRouter
  <2>2. /\ router' \in [Router -> [state : State, gateway : Gateway \cup {None}]]
        /\ \A x \in Router \ {r} : router'[x] = router[x]
    BY <1>0, <2>1 DEF State
  <2>3. TypeOK'
    BY <2>1, <2>2 DEF IInv, TypeOK
  <2>4. GatewaysOK(port, router', meddled)
    BY <2>1, <2>2 DEF IInv, OwnershipOK, GatewaysOK, GatewayOK
  <2> QED BY <2>1, <2>3, <2>4 DEF IInv, OwnershipOK
<1>2. CASE ClearGateway(r)
  <2>1. /\ router' = [router EXCEPT ![r].gateway = None] /\ port' = Released(r)
        /\ UNCHANGED <<network, subnet, fip, meddled>>
    BY <1>2 DEF ClearGateway
  <2>2. /\ router' \in [Router -> [state : State, gateway : Gateway \cup {None}]]
        /\ \A x \in Router \ {r} : router'[x] = router[x]
    BY <1>0, <2>1
  <2> QED BY <2>1, <2>2, ReleaseKeeps
<1>3. CASE DeleteRouter(r)
  <2>1. /\ router' = [router EXCEPT ![r] = NoRouter] /\ port' = Released(r)
        /\ meddled' = meddled \ {r}
        /\ UNCHANGED <<network, subnet, fip>>
    BY <1>3 DEF DeleteRouter
  <2>2. NoRouter \in [state : State, gateway : Gateway \cup {None}]
    BY DEF NoRouter, State
  <2>3. /\ router' \in [Router -> [state : State, gateway : Gateway \cup {None}]]
        /\ \A x \in Router \ {r} : router'[x] = router[x]
    BY <1>0, <2>1, <2>2
  <2> QED BY <2>1, <2>3, ReleaseKeeps
<1>4. ASSUME NEW n \in Network, FailGateway(r, n) PROVE IInv'
  <2>1. port' = Released(r) /\ UNCHANGED <<network, subnet, router, fip, meddled>>
    BY <1>4 DEF FailGateway
  <2> QED BY <1>0, <2>1, ReleaseKeeps
<1> QED BY <1>1, <1>2, <1>3, <1>4

----------------------------------------------------------------------------
(* Floating IPs.                                                           *)

\* The list that a floating IP's port is given.
FloatingIps(n, named) ==
    LET a == FloatingAddress(n, named)  s == SubnetFor(n, a) IN
    IF s = None THEN <<>> ELSE <<[subnet |-> s, address |-> a, vetted |-> named = None]>>

\* It is unchecked if the address is named, in order otherwise.
LEMMA FloatingIpsOK ==
    ASSUME IInv, NEW n \in Network, NEW named \in Asked \cup {None}, NEW p \in Port,
           named = None => Ipv4Giving(n) # {}
    PROVE  /\ FloatingAddress(n, named) \in Address
           /\ FloatingIps(n, named) \in Seq(FixedIp)
           /\ Addressed(subnet, port, p, n, FloatingIps(n, named))
<1> DEFINE a == FloatingAddress(n, named)
           s == SubnetFor(n, a)
           e == [subnet |-> s, address |-> a, vetted |-> named = None]
<1>0. TypeOK /\ ListsOK(network, subnet) /\ AddressesOK(subnet, port)
  BY DEF IInv
<1>1. CASE named # None
  <2>1. a = named /\ a \in Address
    BY <1>1, NetworkAddressesAssumption DEF FloatingAddress
  <2>2. s \in Subnet \cup {None}
    BY <1>0, SubnetForRange
  <2>3. (named = None) = FALSE
    BY <1>1
  <2>4. FloatingIps(n, named) = IF s = None THEN <<>> ELSE <<e>>
    BY DEF FloatingIps
  <2>5. e \in FixedIp /\ e.vetted = FALSE
    <3>1. e = [subnet |-> s, address |-> a, vetted |-> FALSE]
      BY <2>3
    <3> HIDE DEF a, s, e
    <3> QED BY <2>1, <2>2, <3>1, EntryType
  <2> HIDE DEF a, s, e
  <2>6. <<e>> \in Seq(FixedIp) /\ DOMAIN <<e>> = {1} /\ <<e>>[1] = e
    BY <2>5
  <2>7. Addressed(subnet, port, p, n, <<e>>)
    BY <2>5, <2>6 DEF Addressed, Sound, Clear
  <2>8. <<>> \in Seq(FixedIp) /\ Addressed(subnet, port, p, n, <<>>)
    BY DEF Addressed
  <2> QED BY <2>1, <2>4, <2>6, <2>7, <2>8 DEF a
<1>2. CASE named = None
  <2> DEFINE first == Lowest(Ipv4Giving(n))
             t     == network[n].subnets[first]
  <2>1. network[n].subnets \in Seq(Subnet)
    BY <1>0 DEF TypeOK
  <2>2. Ipv4Giving(n) \subseteq Nat /\ Ipv4Giving(n) # {}
    <3>1. DOMAIN network[n].subnets \subseteq Nat
      BY <2>1
    <3>2. Ipv4Giving(n) \subseteq DOMAIN network[n].subnets
      BY DEF Ipv4Giving
    <3> QED BY <1>2, <3>1, <3>2
  <2>3. first \in Ipv4Giving(n)
    BY <2>2, LowestExists
  <2>4. first \in DOMAIN network[n].subnets /\ Family[t] = 4 /\ Free(port, t) # {}
    BY <2>3 DEF Ipv4Giving
  <2>5. t \in Listed(n)
    BY <2>4 DEF Listed
  <2>6. t \in Subnet /\ subnet[t].state = "here" /\ NetworkOf[t] = n
    BY <1>0, <2>5, ListedHere
  <2>7. a = Allocate(port, t)
    BY <1>2 DEF FloatingAddress, Lowest
  <2> HIDE DEF t, a
  <2>8. a \in Cidr[t] /\ a \in Address
    BY <2>4, <2>6, <2>7, AllocateFree
  <2>9. s \in Listed(n) /\ a \in Cidr[s]
    BY <1>0, <2>5, <2>8, SubnetForRange
  <2>10. s \in Subnet /\ NetworkOf[s] = n
    BY <1>0, <2>9, ListedHere
  <2> HIDE DEF s
  <2>11. s = t
    BY <2>6, <2>8, <2>9, <2>10, NetworkAddressesAssumption
  <2>12. t \notin FromPrefix
    BY <2>4, NetworkAddressesAssumption
  <2>13. s # None
    BY <2>10, NetworkAddressesAssumption
  <2>14. e = Give(port, t, p)
    <3>1. (named = None) = TRUE
      BY <1>2
    <3> QED BY <2>7, <2>11, <2>12, <3>1 DEF Give
  <2>15. e \in FixedIp /\ Sound(subnet, p, n, e) /\ Clear(port, p, n, e)
    <3>1. CanGive(port, t)
      BY <2>4 DEF CanGive
    <3> HIDE DEF e
    <3> QED BY <1>0, <2>6, <2>14, <3>1, GiveOK
  <2>16. FloatingIps(n, named) = <<e>>
    BY <2>13 DEF FloatingIps, s, a
  <2> HIDE DEF e
  <2>17. <<e>> \in Seq(FixedIp) /\ DOMAIN <<e>> = {1} /\ <<e>>[1] = e
    BY <2>15
  <2>18. Addressed(subnet, port, p, n, <<e>>)
    BY <2>15, <2>17 DEF Addressed
  <2> QED BY <2>8, <2>16, <2>17, <2>18 DEF a
<1> QED BY <1>1, <1>2

\* A floating IP comes with its port.
LEMMA CreateFloatingIpKeeps ==
    ASSUME IInv, NEW f \in FloatingIp, NEW n \in Network, NEW named \in Asked \cup {None},
           NEW p \in Port, CreateFloatingIp(f, n, named, p)
    PROVE  IInv'
<1> DEFINE a   == FloatingAddress(n, named)
           ips == FloatingIps(n, named)
           rec == Owned(n, ips, "floatingip", f)
           new == [state |-> "here", address |-> a, holder |-> p]
<1>1. /\ fip[f].state = "absent" /\ NewPort(p)
      /\ named = None => Ipv4Giving(n) # {}
      /\ fip' = [fip EXCEPT ![f] = new]
      /\ UNCHANGED <<network, subnet, router, meddled>>
  BY DEF CreateFloatingIp
<1>2. port' = [port EXCEPT ![p] = rec]
  BY DEF CreateFloatingIp, FloatingIps
<1>3. a \in Address /\ ips \in Seq(FixedIp) /\ Addressed(subnet, port, p, n, ips)
  BY <1>1, FloatingIpsOK
<1>4. /\ rec \in PortRecord /\ rec.state = "here" /\ rec.network = n
      /\ rec.fixed_ips = ips /\ rec.owner = "floatingip" /\ rec.device = f
  <2> HIDE DEF ips
  <2>1. "floatingip" \in Owner
    BY DEF Owner
  <2> QED BY <1>3, <2>1, OwnedType
<1>5. new \in [state : State, address : Address \cup {None}, holder : Port \cup {None}]
  BY <1>3 DEF State
<1>6. port[p] = NoPort /\ \A g \in FloatingIp : fip[g].holder # p
  BY <1>1, AbsentPort
<1>7. new.state = "here" /\ new.holder = p
  OBVIOUS
<1> HIDE DEF a, ips, rec, new
<1>8. /\ port' \in [Port -> PortRecord] /\ port'[p] = rec
      /\ \A q \in Port \ {p} : port'[q] = port[q]
  BY <1>2, <1>4 DEF IInv, TypeOK
<1>9. /\ fip' \in [FloatingIp -> [state : State, address : Address \cup {None},
                                  holder : Port \cup {None}]]
      /\ fip'[f] = new /\ \A g \in FloatingIp \ {f} : fip'[g] = fip[g]
  BY <1>1, <1>5 DEF IInv, TypeOK
<1>10. TypeOK'
  BY <1>1, <1>8, <1>9 DEF IInv, TypeOK
<1>11. AddressesOK(subnet, port')
  BY <1>3, <1>4, <1>8, PutAddresses DEF IInv
<1>12. PortsOK(port')
  BY <1>4, <1>8 DEF IInv, OwnershipOK, PortsOK
<1>13. GatewaysOK(port', router, meddled)
  BY <1>4, <1>8 DEF IInv, OwnershipOK, GatewaysOK, GatewayOK
<1>14. FipsOK(port', fip', meddled)
  <2>1. ASSUME NEW q \in Port, port'[q].owner = "floatingip", ~port'[q].claimed
        PROVE  port'[q].device \in FloatingIp /\ fip'[port'[q].device].holder = q
    <3>1. CASE q = p
      BY <1>4, <1>7, <1>8, <1>9, <3>1
    <3>2. CASE q # p
      <4>1. port[q].device \in FloatingIp /\ fip[port[q].device].holder = q
        BY <1>8, <2>1, <3>2 DEF IInv, OwnershipOK, FipsOK
      <4>2. port[q].device # f
        BY <1>1, <4>1, NetworkAddressesAssumption DEF IInv, OwnershipOK, FipsOK
      <4> QED BY <1>8, <1>9, <3>2, <4>1, <4>2
    <3> QED BY <3>1, <3>2
  <2>2. ASSUME NEW g \in FloatingIp
        PROVE  /\ fip'[g].state = "here" => fip'[g].holder \in Port
               /\ fip'[g].state = "absent" => fip'[g].holder = None
               /\ fip'[g].state = "here" /\ g \notin meddled
                      => /\ port'[fip'[g].holder].owner = "floatingip"
                         /\ port'[fip'[g].holder].device = g
    <3>1. CASE g = f
      BY <1>4, <1>7, <1>8, <1>9, <3>1
    <3>2. CASE g # f
      <4>1. /\ fip[g].state = "here" => fip[g].holder \in Port
            /\ fip[g].state = "absent" => fip[g].holder = None
            /\ fip[g].state = "here" /\ g \notin meddled
                   => /\ port[fip[g].holder].owner = "floatingip"
                      /\ port[fip[g].holder].device = g
        BY DEF IInv, OwnershipOK, FipsOK
      <4> QED BY <1>6, <1>8, <1>9, <3>2, <4>1
    <3> QED BY <3>1, <3>2
  <2>3. ASSUME NEW g \in FloatingIp, NEW h \in FloatingIp,
               fip'[g].holder = fip'[h].holder, fip'[g].holder # None
        PROVE  g = h
    BY <1>6, <1>7, <1>9, <2>3 DEF IInv, OwnershipOK, FipsOK
  <2> QED BY <2>1, <2>2, <2>3 DEF FipsOK
<1> QED BY <1>1, <1>10, <1>11, <1>12, <1>13, <1>14 DEF IInv, OwnershipOK

\* A floating IP takes its port along, if the port is still there.
LEMMA DeleteFloatingIpKeeps ==
    ASSUME IInv, NEW f \in FloatingIp, DeleteFloatingIp(f)
    PROVE  IInv'
<1> DEFINE h == fip[f].holder
<1>1. /\ fip[f].state = "here"
      /\ port' = [p \in Port |-> IF p = h /\ Here(port[p]) THEN NoPort ELSE port[p]]
      /\ fip' = [fip EXCEPT ![f] = NoFip]
      /\ meddled' = meddled \ {f}
      /\ UNCHANGED <<network, subnet, router>>
  BY DEF DeleteFloatingIp, Here
<1>2. h \in Port
  BY <1>1 DEF IInv, OwnershipOK, FipsOK
<1> HIDE DEF h
<1>3. \A q \in Port : port'[q] = IF q = h THEN NoPort ELSE port[q]
  BY <1>1 DEF Here, IInv, TypeOK, PortRecord, State, OwnershipOK, PortsOK
<1>4. port' \in [Port -> PortRecord]
  BY <1>1, NoPortType DEF IInv, TypeOK
<1>5. NoFip.state = "absent" /\ NoFip.holder = None
      /\ NoFip \in [state : State, address : Address \cup {None}, holder : Port \cup {None}]
  BY DEF NoFip, State
<1>6. /\ fip' \in [FloatingIp -> [state : State, address : Address \cup {None},
                                  holder : Port \cup {None}]]
      /\ fip'[f] = NoFip /\ \A g \in FloatingIp \ {f} : fip'[g] = fip[g]
  BY <1>1, <1>5 DEF IInv, TypeOK
<1>7. TypeOK'
  BY <1>1, <1>4, <1>6 DEF IInv, TypeOK
<1>8. AddressesOK(subnet, port')
  <2>1. Fewer(port', port)
    BY <1>3 DEF Fewer
  <2> QED BY <2>1, FewerAddresses DEF IInv
<1>9. PortsOK(port')
  BY <1>3, NoPortType DEF IInv, OwnershipOK, PortsOK
<1>10. f \notin Router
  BY NetworkAddressesAssumption
<1>11. GatewaysOK(port', router, meddled')
  <2> SUFFICES ASSUME NEW p \in Port, port'[p].owner = "gateway"
               PROVE  GatewayOK(port', router, meddled', p)
    BY <1>1 DEF GatewaysOK
  <2>1. \A q \in Port : port'[q].owner = "gateway" => port'[q] = port[q]
    BY <1>3, NoPortType
  <2>2. port'[p] = port[p]
    BY <2>1
  <2>3. GatewayOK(port, router, meddled, p)
    BY <2>2 DEF IInv, OwnershipOK, GatewaysOK
  <2>4. port[p].device \in Router \ meddled' => port[p].device \in Router \ meddled
    BY <1>1, <1>10
  <2> QED BY <2>1, <2>2, <2>3, <2>4 DEF GatewayOK
<1>12. FipsOK(port', fip', meddled')
  <2>1. ASSUME NEW q \in Port, port'[q].owner = "floatingip", ~port'[q].claimed
        PROVE  port'[q].device \in FloatingIp /\ fip'[port'[q].device].holder = q
    <3>1. q # h /\ port'[q] = port[q]
      BY <1>3, <2>1, NoPortType
    <3>2. port[q].device \in FloatingIp /\ fip[port[q].device].holder = q
      BY <2>1, <3>1 DEF IInv, OwnershipOK, FipsOK
    <3>3. port[q].device # f
      BY <3>1, <3>2 DEF h
    <3> QED BY <1>6, <3>1, <3>2, <3>3
  <2>2. ASSUME NEW g \in FloatingIp
        PROVE  /\ fip'[g].state = "here" => fip'[g].holder \in Port
               /\ fip'[g].state = "absent" => fip'[g].holder = None
               /\ fip'[g].state = "here" /\ g \notin meddled'
                      => /\ port'[fip'[g].holder].owner = "floatingip"
                         /\ port'[fip'[g].holder].device = g
    <3>1. CASE g = f
      BY <1>5, <1>6, <3>1
    <3>2. CASE g # f
      <4>1. /\ fip[g].state = "here" => fip[g].holder \in Port
            /\ fip[g].state = "absent" => fip[g].holder = None
            /\ fip[g].state = "here" /\ g \notin meddled
                   => /\ port[fip[g].holder].owner = "floatingip"
                      /\ port[fip[g].holder].device = g
        BY DEF IInv, OwnershipOK, FipsOK
      <4>2. fip[g].state = "here" => fip[g].holder # h
        BY <1>2, <3>2, <4>1, NetworkAddressesAssumption DEF IInv, OwnershipOK, FipsOK, h
      <4>3. g \notin meddled' => g \notin meddled
        BY <1>1, <3>2
      <4> QED BY <1>3, <1>6, <3>2, <4>1, <4>2, <4>3
    <3> QED BY <3>1, <3>2
  <2>3. ASSUME NEW g \in FloatingIp, NEW k \in FloatingIp,
               fip'[g].holder = fip'[k].holder, fip'[g].holder # None
        PROVE  g = k
    BY <1>5, <1>6, <2>3 DEF IInv, OwnershipOK, FipsOK
  <2> QED BY <2>1, <2>2, <2>3 DEF FipsOK
<1> QED BY <1>1, <1>7, <1>8, <1>9, <1>11, <1>12 DEF IInv, OwnershipOK

----------------------------------------------------------------------------
(* Every step.                                                             *)

\* Nothing is there at first.
LEMMA InitInv == Init => IInv
<1> SUFFICES ASSUME Init PROVE IInv
  OBVIOUS
<1>1. TypeOK
  <2>1. <<>> \in Seq(Subnet)
    OBVIOUS
  <2>2. network \in [Network -> [state : State, subnets : Seq(Subnet)]]
    BY <2>1 DEF Init, NoNetwork, State
  <2>3. subnet \in [Subnet -> [state : State, gateway_ip : Address \cup {None}]]
    BY DEF Init, NoSubnet, State
  <2>4. port \in [Port -> PortRecord]
    BY NoPortType DEF Init
  <2>5. router \in [Router -> [state : State, gateway : Gateway \cup {None}]]
    BY DEF Init, NoRouter, State
  <2>6. fip \in [FloatingIp -> [state : State, address : Address \cup {None},
                                holder : Port \cup {None}]]
    BY DEF Init, NoFip, State
  <2> QED BY <2>2, <2>3, <2>4, <2>5, <2>6 DEF Init, TypeOK
<1>2. ListsOK(network, subnet)
  <2>1. \A n \in Network : network[n].subnets = <<>>
    BY DEF Init, NoNetwork
  <2>2. \A s \in Subnet : subnet[s].state = "absent"
    BY DEF Init, NoSubnet
  <2>3. \A n \in Network : DOMAIN network[n].subnets = {}
    <3>1. DOMAIN <<>> = {}
      OBVIOUS
    <3> QED BY <2>1, <3>1
  <2> QED BY <2>1, <2>2, <2>3 DEF ListsOK
<1>3. \A p \in Port : port[p] = NoPort
  BY DEF Init
<1>4. AddressesOK(subnet, port)
  BY <1>3, NoPortType DEF AddressesOK, Addressed
<1>5. OwnershipOK(port, router, fip, meddled)
  BY <1>3, NoPortType DEF Init, OwnershipOK, PortsOK, GatewaysOK, FipsOK, NoFip
<1> QED BY <1>1, <1>2, <1>4, <1>5 DEF IInv

\* Every operation keeps ownership and addresses in order.
LEMMA NextInv == IInv /\ [Next]_vars => IInv'
<1> SUFFICES ASSUME IInv, [Next]_vars PROVE IInv'
  OBVIOUS
<1>1. CASE \E n \in Network : CreateNetwork(n) \/ DeleteNetwork(n)
  BY <1>1, CreateNetworkKeeps, DeleteNetworkKeeps
<1>2. CASE \E s \in Subnet : \E ip \in GatewayIp[s] : CreateSubnet(s, ip) \/ UpdateSubnet(s, ip)
  BY <1>2, CreateSubnetKeeps, UpdateSubnetKeeps
<1>3. CASE \E s \in Subnet : DeleteSubnet(s)
  BY <1>3, DeleteSubnetKeeps
<1>4. CASE \E p \in Port, n \in Network, request \in Request : CreatePort(p, n, request)
  BY <1>4, CreatePortKeeps
<1>5. CASE \E p \in Port : UpdatePort(p) \/ DeletePort(p)
  BY <1>5, UpdatePortKeeps, DeletePortKeeps
<1>6. CASE \E r \in Router : CreateRouter(r) \/ ClearGateway(r) \/ DeleteRouter(r)
  BY <1>6, RouterKeeps
<1>7. CASE \E r \in Router, n \in Network, request \in Request :
              \/ KeepGateway(r, n, request)
              \/ \E p \in Port : \/ CreateRouterWithGateway(r, n, request, p)
                                 \/ ReplaceGateway(r, n, request, p)
  BY <1>7, KeepGatewayKeeps, MakeGatewayKeeps DEF CreateRouterWithGateway, ReplaceGateway
<1>8. CASE \E r \in Router, n \in Network : FailGateway(r, n)
  BY <1>8, RouterKeeps
<1>9. CASE \E r \in Router, s \in Subnet : RemoveSubnetInterface(r, s)
  BY <1>9, RemoveInterfacesKeeps
<1>10. CASE \E r \in Router, s \in Subnet, p \in Port : AddSubnetInterface(r, s, p)
  BY <1>10, AddSubnetInterfaceKeeps
<1>11. CASE \E r \in Router, p \in Port : AddPortInterface(r, p) \/ RemovePortInterface(r, p)
  BY <1>11, AddPortInterfaceKeeps, RemoveInterfacesKeeps
<1>12. CASE \E f \in FloatingIp, n \in Network, a \in Asked \cup {None}, p \in Port :
              CreateFloatingIp(f, n, a, p)
  BY <1>12, CreateFloatingIpKeeps
<1>13. CASE \E f \in FloatingIp : DeleteFloatingIp(f)
  BY <1>13, DeleteFloatingIpKeeps
<1>14. CASE UNCHANGED vars
  <2>1. UNCHANGED <<network, subnet, port, router, fip, meddled>>
    BY <1>14 DEF vars
  <2>2. TypeOK'
    BY <2>1 DEF IInv, TypeOK
  <2> QED BY <2>1, <2>2 DEF IInv
<1> QED BY <1>1, <1>2, <1>3, <1>4, <1>5, <1>6, <1>7, <1>8, <1>9, <1>10, <1>11,
           <1>12, <1>13, <1>14
    DEF Next, NetworkRequests, SubnetRequests, PortRequests, RouterRequests, FloatingIpRequests

\* Ownership and addresses are in order at all times.
THEOREM Invariance == Spec => []IInv
BY InitInv, NextInv, PTL DEF Spec

----------------------------------------------------------------------------
(* What follows from it.                                                   *)

\* The stores hold what they are declared to hold.
THEOREM TypeCorrect == Spec => []TypeOK
<1>1. IInv => TypeOK
  BY DEF IInv
<1> QED BY <1>1, Invariance, PTL

\* No two ports of a network hold the same vetted address.
THEOREM NoAddressTwice == Spec => []AddressesApart
<1>1. IInv => AddressesApart
  <2> SUFFICES ASSUME IInv, NEW p \in Port, NEW q \in Port, p # q,
                      port[p].network = port[q].network,
                      NEW i \in DOMAIN port[p].fixed_ips, NEW j \in DOMAIN port[q].fixed_ips,
                      port[p].fixed_ips[i].vetted, port[q].fixed_ips[j].vetted
               PROVE  port[p].fixed_ips[i].address # port[q].fixed_ips[j].address
    BY DEF AddressesApart
  <2>1. Clear(port, p, port[p].network, port[p].fixed_ips[i])
    BY DEF IInv, AddressesOK, Addressed
  <2> QED BY <2>1 DEF Clear
<1> QED BY <1>1, Invariance, PTL

\* The subnet of a vetted address stays as long as the address is held.
THEOREM SubnetsOutliveAddresses == Spec => []AddressesHaveSubnets
<1>1. IInv => AddressesHaveSubnets
  <2> SUFFICES ASSUME IInv, NEW p \in Port, NEW i \in DOMAIN port[p].fixed_ips,
                      port[p].fixed_ips[i].vetted
               PROVE  /\ port[p].fixed_ips[i].subnet \in Listed(port[p].network)
                      /\ Here(subnet[port[p].fixed_ips[i].subnet])
                      /\ port[p].fixed_ips[i].address \in Cidr[port[p].fixed_ips[i].subnet]
    BY DEF AddressesHaveSubnets
  <2>1. Sound(subnet, p, port[p].network, port[p].fixed_ips[i])
    BY DEF IInv, AddressesOK, Addressed
  <2>2. port[p].network \in Network
    BY <2>1, NetworkAddressesAssumption DEF Sound
  <2> QED BY <2>1, <2>2, ListedHere DEF Sound, IInv, Here
<1> QED BY <1>1, Invariance, PTL

\* Gateway ports that no client claimed have their router, and a router has one
\* such port at most.
THEOREM GatewaysHaveRouters == Spec => []GatewayPortsBelong
<1>1. IInv => GatewayPortsBelong
  BY DEF IInv, OwnershipOK, GatewaysOK, GatewayOK, GatewayPortsBelong, GatewayPorts, Here
<1> QED BY <1>1, Invariance, PTL

\* What a router that clients have not meddled with shows is what any gateway port
\* of it holds.
THEOREM GatewaysReadBack == Spec => []GatewayReadsBack
<1>1. IInv => GatewayReadsBack
  BY DEF IInv, OwnershipOK, GatewaysOK, GatewayOK, GatewayReadsBack
<1> QED BY <1>1, Invariance, PTL

\* A floating IP and its port come and go together, ports that clients claimed or
\* changed aside.
THEOREM FloatingIpsHavePorts == Spec => []FloatingPortsBelong
<1>1. IInv => FloatingPortsBelong
  BY DEF IInv, OwnershipOK, FipsOK, FloatingPortsBelong, Here
<1> QED BY <1>1, Invariance, PTL
============================================================================
