-------------------------- MODULE NetworkAddresses --------------------------
(***************************************************************************)
(* Neutron's address management: which port holds which address, as ports, *)
(* router gateways, router interfaces and floating IPs come and go.  There *)
(* is no table of allocations: an address is taken when some port lists it,*)
(* and every operation looks through the ports again, each in its own way: *)
(* by subnet when it allocates, by network when a client names an address, *)
(* not at all for gateways and floating IPs whose address is named.        *)
(*                                                                         *)
(* A handler runs to its end under the database's lock: one action each.   *)
(* Projects and RBAC are left out (the client sees every network).  The    *)
(* device_owner and device_id of a port are whatever a request says: POST  *)
(* and PUT store them unchecked, so a client can make, take over or let go *)
(* of a gateway port as it likes.  Nova's binding of a port is such a PUT. *)
(***************************************************************************)
EXTENDS Integers, Sequences

CONSTANTS
    Network, Subnet, Port, Router, FloatingIp,   \* ids, never given twice
    Address,     \* addresses; those in pools are integers
    Asked,       \* bound: the addresses that requests name
    GatewayIp,   \* bound: what a client makes the gateway_ip of each subnet
    ClaimedOwner,   \* bound: the device_owner and device_id that requests on
    ClaimedDevice,  \* ports name (None: nothing, or a server's id)
    External,    \* networks that are external for the client
    NetworkOf,   \* the network a subnet is created on
    Family,      \* 4 or 6, for each subnet
    FromPrefix,  \* subnets whose addresses come from prefix and MAC (SLAAC)
    Cidr,        \* Cidr[s]: the addresses in the range of subnet s
    PoolStart,   \* first and last address of the first allocation pool
    PoolEnd,
    Octet,       \* how many values the last part of an IPv4 address takes
    Eui64,       \* Eui64[s][p]: prefix of s with the MAC of p
    MaxEntries,  \* bound: entries of a fixed_ips request
    None         \* no subnet, no address, no gateway

Owner == {"none", "interface", "gateway", "floatingip"}

Walk(s) ==
    LET base == Octet * (PoolStart[s] \div Octet) IN
    IF Family[s] = 4
    THEN {base + h : h \in PoolStart[s] % Octet .. PoolEnd[s] % Octet}
    ELSE PoolStart[s] .. PoolEnd[s]

\* Subnets of a network do not overlap, pools lie within their subnets, MACs
\* are unique.  The code checks none of it: it is what a sane request says.
ASSUME NetworkAddressesAssumption ==
    /\ External \subseteq Network /\ Asked \subseteq Address
    /\ GatewayIp \in [Subnet -> SUBSET (Address \cup {None})]
    /\ ClaimedOwner \subseteq Owner
    /\ ClaimedDevice \subseteq Router \cup FloatingIp \cup {None}
    /\ NetworkOf \in [Subnet -> Network]
    /\ Family \in [Subnet -> {4, 6}]
    /\ FromPrefix \subseteq {s \in Subnet : Family[s] = 6}
    /\ Cidr \in [Subnet -> SUBSET Address]
    /\ Eui64 \in [Subnet -> [Port -> Address]]
    /\ PoolStart \in [Subnet -> Nat] /\ PoolEnd \in [Subnet -> Nat]
    /\ Octet \in Nat \ {0} /\ MaxEntries \in Nat
    /\ \A s \in Subnet : Walk(s) \subseteq Cidr[s]
    /\ \A s, t \in Subnet :
          s # t /\ NetworkOf[s] = NetworkOf[t] => Cidr[s] \cap Cidr[t] = {}
    /\ \A s \in FromPrefix, p, q \in Port :
          /\ Eui64[s][p] \in Cidr[s]
          /\ p # q => Eui64[s][p] # Eui64[s][q]
    /\ None \notin Address \cup Subnet \cup Port \cup Router \cup FloatingIp
    /\ Router \cap FloatingIp = {}

VARIABLES
    network,   \* network[n]: whether n is in _networks, and its list of subnets
    subnet,    \* subnet[s]: whether s is in _subnets, and its gateway_ip
    port,      \* _ports: network, fixed_ips, device_owner and device_id
    router,    \* _routers: external_gateway_info
    fip,       \* _floating_ips: floating_ip_address and floating_port_id
    meddled    \* history: routers and floating IPs for which a client has made,
               \* changed or deleted a port by the port's own requests

vars == <<network, subnet, port, router, fip, meddled>>

Entry == [subnet : Subnet \cup {None}, address : Asked \cup {None}]

\* "vetted" is not in the code: whether the address was allocated, or named
\* in a request that was checked, on the subnet that contains it.  Nor is the
\* "claimed" of a port: whether a client said whose the port is.
FixedIp == [subnet : Subnet \cup {None}, address : Address \cup {None},
            vetted : BOOLEAN]

NoNetwork == [state |-> "absent", subnets |-> <<>>]
NoSubnet == [state |-> "absent", gateway_ip |-> None]
NoRouter == [state |-> "absent", gateway |-> None]
NoFip    == [state |-> "absent", address |-> None, holder |-> None]
NoPort   == [state |-> "absent", network |-> None, fixed_ips |-> <<>>,
             owner |-> "none", device |-> None, claimed |-> FALSE]

Init ==
    /\ network = [n \in Network |-> NoNetwork]
    /\ subnet = [s \in Subnet |-> NoSubnet]
    /\ port = [p \in Port |-> NoPort]
    /\ router = [r \in Router |-> NoRouter]
    /\ fip = [f \in FloatingIp |-> NoFip]
    /\ meddled = {}

Here(x) == x.state = "here"

----------------------------------------------------------------------------
(* Looking addresses up, in the ports po.                                  *)

Lowest(S) == CHOOSE a \in S : \A b \in S : a <= b

UsedIn(po, s) ==
    {a \in Address : \E p \in Port : \E i \in DOMAIN po[p].fixed_ips :
        po[p].fixed_ips[i].subnet = s /\ po[p].fixed_ips[i].address = a}

Free(po, s) == Walk(s) \ UsedIn(po, s)

\* _allocate_ip_from_subnet
Allocate(po, s) == IF Free(po, s) = {} THEN None ELSE Lowest(Free(po, s))

\* _is_fixed_ip_in_use
InUse(n, a) ==
    \E p \in Port : /\ port[p].network = n
                    /\ \E i \in DOMAIN port[p].fixed_ips :
                          port[p].fixed_ips[i].address = a

Listed(n) == {network[n].subnets[i] : i \in DOMAIN network[n].subnets}

\* _find_subnet_for_ip
SubnetFor(n, a) ==
    IF \E s \in Listed(n) : a \in Cidr[s]
    THEN CHOOSE s \in Listed(n) : a \in Cidr[s]
    ELSE None

CanGive(po, s) == s \in FromPrefix \/ Free(po, s) # {}

Give(po, s, p) ==
    [subnet |-> s,
     address |-> IF s \in FromPrefix THEN Eui64[s][p] ELSE Allocate(po, s),
     vetted |-> TRUE]

\* The position of the first subnet of n of a family that passes the test.
FirstOf(n, family, passes) ==
    {i \in DOMAIN network[n].subnets :
        /\ Family[network[n].subnets[i]] = family
        /\ network[n].subnets[i] \in passes
        /\ \A j \in 1 .. i - 1 :
              Family[network[n].subnets[j]] = family =>
                  network[n].subnets[j] \notin passes}

GiveFirst(po, n, family, passes, p) ==
    LET first == FirstOf(n, family, passes) IN
    IF first = {} THEN <<>>
    ELSE <<Give(po, network[n].subnets[CHOOSE i \in first : TRUE], p)>>

\* An address of each family, from the first subnet that has one to give.
\* (The code's order is that of the subnets; nothing here depends on it.)
AutoAllocate(n, p) ==
    LET giving == {s \in Subnet : CanGive(port, s)} IN
    GiveFirst(port, n, 4, giving, p) \o GiveFirst(port, n, 6, giving, p)

----------------------------------------------------------------------------
(* _resolve_fixed_ips: a request on network n, for a port that holds held. *)

\* What the port holds on subnet s: the last entry, as in a dict.
Current(held, s) ==
    IF \E i \in DOMAIN held : held[i].subnet = s
    THEN held[CHOOSE i \in DOMAIN held :
             /\ held[i].subnet = s
             /\ \A j \in DOMAIN held : held[j].subnet = s => j <= i]
    ELSE [subnet |-> s, address |-> None, vetted |-> FALSE]

\* Mutant: an address in use is accepted.
AcceptsTaken(n, e, held) ==
    IF e.subnet \in FromPrefix /\ Here(subnet[e.subnet])
    THEN e.address \in {None, Current(held, e.subnet).address}
    ELSE e.address # None => SubnetFor(n, e.address) # None

Accepts(n, e, held) ==
    IF e.subnet \in FromPrefix /\ Here(subnet[e.subnet])
    THEN e.address \in {None, Current(held, e.subnet).address}
    ELSE e.address # None =>
            LET s == SubnetFor(n, e.address) IN
            /\ s # None
            /\ e.address = Current(held, s).address \/ ~InUse(n, e.address)

\* The entry names an address: it is taken as it is.
Named(n, e, held) ==
    LET s == IF e.subnet = None THEN SubnetFor(n, e.address) ELSE e.subnet IN
    IF e.address = Current(held, s).address THEN Current(held, s)
    ELSE [subnet |-> s, address |-> e.address,
          vetted |-> s = SubnetFor(n, e.address) /\ s \notin FromPrefix]

\* It names a subnet at most: what the port has there, or a new address.
Unnamed(n, p, s, held) ==
    IF s = None \/ ~Here(subnet[s])
    THEN [subnet |-> s, address |-> None, vetted |-> FALSE]
    ELSE IF Current(held, s).address # None THEN Current(held, s)
    ELSE [Give(port, s, p) EXCEPT
             !.vetted = CanGive(port, s) /\ NetworkOf[s] = n]

Resolve(n, p, request, held) ==
    [i \in DOMAIN request |->
        IF request[i].address # None THEN Named(n, request[i], held)
        ELSE Unnamed(n, p, request[i].subnet, held)]

AcceptsAll(n, request, held) ==
    \A i \in DOMAIN request : Accepts(n, request[i], held)

\* An entry names a subnet that is there, an address, or both.
Sane(e) == /\ e.subnet # None \/ e.address # None
           /\ e.subnet # None => Here(subnet[e.subnet])

Request == UNION {[1 .. k -> {e \in Entry : Sane(e)}] : k \in 0 .. MaxEntries}

----------------------------------------------------------------------------
(* Networks and subnets.  A new id is one that nothing names; whether it   *)
(* was used before makes no difference then.                               *)

InSubnet(p, s) == \E i \in DOMAIN port[p].fixed_ips : port[p].fixed_ips[i].subnet = s

CreateNetwork(n) ==
    /\ network[n].state = "absent"
    /\ \A p \in Port : port[p].network # n
    /\ network' = [network EXCEPT ![n].state = "here"]
    /\ UNCHANGED <<subnet, port, router, fip, meddled>>

\* Refused while the network has a port; its subnets go with it.
DeleteNetwork(n) ==
    /\ Here(network[n])
    /\ \A p \in Port : port[p].network # n
    /\ network' = [network EXCEPT ![n] = NoNetwork]
    /\ subnet' = [s \in Subnet |-> IF NetworkOf[s] = n THEN NoSubnet ELSE subnet[s]]
    /\ UNCHANGED <<port, router, fip, meddled>>

CreateSubnet(s, gateway_ip) ==
    LET n == NetworkOf[s] IN
    /\ subnet[s].state = "absent"
    /\ \A p \in Port : ~InSubnet(p, s)
    /\ Here(network[n])
    /\ subnet' = [subnet EXCEPT ![s] = [state |-> "here", gateway_ip |-> gateway_ip]]
    /\ network' = [network EXCEPT ![n].subnets = Append(@, s)]
    /\ UNCHANGED <<port, router, fip, meddled>>

UpdateSubnet(s, gateway_ip) ==
    /\ Here(subnet[s])
    /\ subnet' = [subnet EXCEPT ![s].gateway_ip = gateway_ip]
    /\ UNCHANGED <<network, port, router, fip, meddled>>

\* The list without its first s.
Unlist(list, s) ==
    LET at == CHOOSE i \in DOMAIN list : list[i] = s /\ \A j \in 1 .. i - 1 : list[j] # s
    IN  [j \in 1 .. Len(list) - 1 |-> IF j < at THEN list[j] ELSE list[j + 1]]

\* Refused while a port has an address on it.
DeleteSubnet(s) ==
    LET n == NetworkOf[s] IN
    /\ Here(subnet[s])
    /\ \A p \in Port : ~InSubnet(p, s)
    /\ subnet' = [subnet EXCEPT ![s] = NoSubnet]
    /\ network' = [network EXCEPT ![n].subnets = Unlist(@, s)]
    /\ UNCHANGED <<port, router, fip, meddled>>

----------------------------------------------------------------------------
(* Ports, as their clients create, change and delete them.                 *)

NewPort(p) == port[p].state = "absent" /\ \A f \in FloatingIp : fip[f].holder # p

Owned(n, ips, owner, device) ==
    [state |-> "here", network |-> n, fixed_ips |-> ips,
     owner |-> owner, device |-> device, claimed |-> FALSE]

\* A request on the port says whose it is.
Claim(record, owner, device) ==
    [record EXCEPT !.owner = owner, !.device = device,
                   !.claimed = @ \/ record.owner # owner \/ record.device # device]

\* The routers and floating IPs that these ports say they are of.
Served(po, ports) ==
    {po[p].device : p \in {q \in ports : po[q].owner \in {"gateway", "floatingip"}}}
        \ {None}

\* The client has a hand in a port that a router or floating IP relies on.
Meddle(ports) ==
    meddled' = meddled \cup Served(port, ports) \cup Served(port', ports)

CreatePort(p, n, request) ==
    LET ips == IF request = <<>> THEN AutoAllocate(n, p)
               ELSE Resolve(n, p, request, <<>>)
    IN  /\ NewPort(p)
        /\ Here(network[n])
        /\ AcceptsAll(n, request, <<>>)
        /\ \E owner \in {"none"} \cup ClaimedOwner, device \in {None} \cup ClaimedDevice :
              port' = [port EXCEPT ![p] = Claim(Owned(n, ips, "none", None), owner, device)]
        /\ Meddle({p})
        /\ UNCHANGED <<network, subnet, router, fip>>

\* The list that a PUT gives replaces the whole list; one without leaves it.
PutIps(p) ==
    LET n == port[p].network  held == port[p].fixed_ips IN
    {held} \cup {Resolve(n, p, request, held) :
                    request \in {r \in Request : AcceptsAll(n, r, held)}}

UpdatePort(p) ==
    /\ Here(port[p])
    /\ \E ips \in PutIps(p), owner \in {port[p].owner} \cup ClaimedOwner,
          device \in {port[p].device} \cup ClaimedDevice :
          port' = [port EXCEPT ![p] = Claim([@ EXCEPT !.fixed_ips = ips], owner, device)]
    /\ Meddle({p})
    /\ UNCHANGED <<network, subnet, router, fip>>

Without(ports) == [p \in Port |-> IF p \in ports THEN NoPort ELSE port[p]]

DeletePort(p) ==
    /\ Here(port[p])
    /\ port' = Without({p})
    /\ Meddle({p})
    /\ UNCHANGED <<network, subnet, router, fip>>

----------------------------------------------------------------------------
(* Routers and their gateways (_build_external_gateway_info).  The gateway *)
(* port is the first that names the router: clients may have added others, *)
(* and any of them may be the first.                                       *)

GatewayPorts(r) == {p \in Port : port[p].device = r /\ port[p].owner = "gateway"}
Released(r)     == Without(GatewayPorts(r))

\* _validate_external_gateway
ValidGateway(n, request) ==
    /\ Here(network[n]) /\ n \in External
    /\ \A i \in DOMAIN request, s \in Listed(n) :
          request[i].address # None => request[i].address # subnet[s].gateway_ip

Subnets(list)   == {list[i].subnet : i \in DOMAIN list} \ {None}
Addresses(list) == {list[i].address : i \in DOMAIN list} \ {None}

\* _same_fixed_ips: what the request does not name does not differ.
SameFixedIps(current, request) ==
    /\ Subnets(request) \in {{}, {current[i].subnet : i \in DOMAIN current}}
    /\ Addresses(request) \in {{}, {current[i].address : i \in DOMAIN current}}

Matches(p, n, request) ==
    port[p].network = n /\ SameFixedIps(port[p].fixed_ips, request)

ChangesGateway(r, n, request) ==
    \/ GatewayPorts(r) = {}
    \/ \E p \in GatewayPorts(r) : ~Matches(p, n, request)

\* A named address is taken as it is, on the subnet that contains it.
GatewayNamed(n, request) ==
    [i \in DOMAIN request |->
        [subnet |-> IF request[i].subnet = None /\ request[i].address # None
                    THEN SubnetFor(n, request[i].address) ELSE request[i].subnet,
         address |-> request[i].address, vetted |-> FALSE]]

\* Without a request: an address of the first subnet of each family.
Exhausted(po, n) ==
    \E family \in {4, 6}, i \in DOMAIN network[n].subnets :
        /\ i \in FirstOf(n, family, Subnet)
        /\ ~CanGive(po, network[n].subnets[i])

GatewayIps(r, n, request, p) ==
    IF request # <<>> THEN GatewayNamed(n, request)
    ELSE GiveFirst(Released(r), n, 4, Subnet, p) \o GiveFirst(Released(r), n, 6, Subnet, p)

\* The gateway port p is made, and the one before it is gone.
MakeGateway(r, n, request, p) ==
    LET ips == GatewayIps(r, n, request, p) IN
    /\ NewPort(p)
    /\ ValidGateway(n, request)
    /\ ChangesGateway(r, n, request)
    /\ request = <<>> => ~Exhausted(Released(r), n)
    /\ port' = [Released(r) EXCEPT ![p] = Owned(n, ips, "gateway", r)]
    /\ router' = [router EXCEPT ![r] =
           [state |-> "here", gateway |-> [network |-> n, ips |-> ips]]]
    /\ UNCHANGED <<network, subnet, fip, meddled>>

NewRouter(r) == router[r].state = "absent" /\ \A p \in Port : port[p].device # r

CreateRouter(r) ==
    /\ NewRouter(r)
    /\ router' = [router EXCEPT ![r].state = "here"]
    /\ UNCHANGED <<network, subnet, port, fip, meddled>>

CreateRouterWithGateway(r, n, request, p) ==
    NewRouter(r) /\ MakeGateway(r, n, request, p)

ReplaceGateway(r, n, request, p) ==
    Here(router[r]) /\ MakeGateway(r, n, request, p)

\* Mutant: the router shows what was asked for, not what it has.
KeepGatewayAsAsked(r, n, request) ==
    /\ Here(router[r])
    /\ ValidGateway(n, request)
    /\ \E p \in GatewayPorts(r) : Matches(p, n, request)
    /\ router' = [router EXCEPT ![r].gateway =
           [network |-> n, ips |-> GatewayNamed(n, request)]]
    /\ UNCHANGED <<network, subnet, port, fip, meddled>>

\* The request asks for nothing the gateway port does not have.
KeepGateway(r, n, request) ==
    /\ Here(router[r])
    /\ ValidGateway(n, request)
    /\ \E p \in GatewayPorts(r) :
          /\ Matches(p, n, request)
          /\ router' = [router EXCEPT ![r].gateway =
                 [network |-> n, ips |-> port[p].fixed_ips]]
    /\ UNCHANGED <<network, subnet, port, fip, meddled>>

\* No address is left: 409, after the port that was there has been released.
FailGateway(r, n) ==
    /\ Here(router[r])
    /\ ValidGateway(n, <<>>)
    /\ ChangesGateway(r, n, <<>>)
    /\ Exhausted(Released(r), n)
    /\ port' = Released(r)
    /\ UNCHANGED <<network, subnet, router, fip, meddled>>

ClearGateway(r) ==
    /\ Here(router[r])
    /\ port' = Released(r)
    /\ router' = [router EXCEPT ![r].gateway = None]
    /\ UNCHANGED <<network, subnet, fip, meddled>>

\* Mutant: the router goes, its gateway port stays.
DeleteRouterOnly(r) ==
    /\ Here(router[r])
    /\ \A p \in Port : ~(port[p].device = r /\ port[p].owner = "interface")
    /\ router' = [router EXCEPT ![r] = NoRouter]
    /\ meddled' = meddled \ {r}
    /\ UNCHANGED <<network, subnet, port, fip>>

\* Refused while it has an interface; the gateway goes with it.
DeleteRouter(r) ==
    /\ Here(router[r])
    /\ \A p \in Port : ~(port[p].device = r /\ port[p].owner = "interface")
    /\ port' = Released(r)
    /\ router' = [router EXCEPT ![r] = NoRouter]
    /\ meddled' = meddled \ {r}
    /\ UNCHANGED <<network, subnet, fip>>

\* An interface on a subnet takes the subnet's gateway_ip, in use or not.
AddSubnetInterface(r, s, p) ==
    LET n == NetworkOf[s]  ip == subnet[s].gateway_ip IN
    /\ Here(router[r]) /\ Here(subnet[s])
    /\ NewPort(p)
    /\ port' = [port EXCEPT ![p] =
           Owned(n, <<IF ip = None THEN Unnamed(n, p, s, <<>>)
                      ELSE [subnet |-> s, address |-> ip, vetted |-> FALSE]>>,
                 "interface", r)]
    /\ UNCHANGED <<network, subnet, router, fip, meddled>>

\* A port becomes an interface, whatever it was.
AddPortInterface(r, p) ==
    /\ Here(router[r]) /\ Here(port[p])
    /\ port' = [port EXCEPT ![p].owner = "interface", ![p].device = r]
    /\ Meddle({p})
    /\ UNCHANGED <<network, subnet, router, fip>>

\* Any port of the router's goes, its gateway too.
RemoveInterfaces(r, ports) ==
    /\ Here(router[r])
    /\ ports # {}
    /\ port' = Without(ports)
    /\ Meddle(ports)
    /\ UNCHANGED <<network, subnet, router, fip>>

RemovePortInterface(r, p) == RemoveInterfaces(r, {p} \cap {q \in Port : port[q].device = r})

RemoveSubnetInterface(r, s) ==
    RemoveInterfaces(r, {p \in Port : port[p].device = r /\ InSubnet(p, s)})

----------------------------------------------------------------------------
(* Floating IPs: an address on an external network, held by a port.        *)

Ipv4Giving(n) == {i \in DOMAIN network[n].subnets :
    Family[network[n].subnets[i]] = 4 /\ Free(port, network[n].subnets[i]) # {}}

\* An address named in the request, or the first that an IPv4 subnet has.
FloatingAddress(n, named) ==
    IF named # None THEN named
    ELSE LET first == CHOOSE i \in Ipv4Giving(n) : \A j \in Ipv4Giving(n) : i <= j
         IN  Allocate(port, network[n].subnets[first])

CreateFloatingIp(f, n, named, p) ==
    LET a == FloatingAddress(n, named)  s == SubnetFor(n, a) IN
    /\ fip[f].state = "absent" /\ \A q \in Port : port[q].device # f
    /\ NewPort(p)
    /\ Here(network[n]) /\ n \in External
    /\ \E t \in Listed(n) : Family[t] = 4
    /\ named = None => Ipv4Giving(n) # {}
    /\ port' = [port EXCEPT ![p] =
           Owned(n, IF s = None THEN <<>>
                    ELSE <<[subnet |-> s, address |-> a, vetted |-> named = None]>>,
                 "floatingip", f)]
    /\ fip' = [fip EXCEPT ![f] = [state |-> "here", address |-> a, holder |-> p]]
    /\ UNCHANGED <<network, subnet, router, meddled>>

\* The port goes with it, if it is still there.
DeleteFloatingIp(f) ==
    /\ Here(fip[f])
    /\ port' = [p \in Port |->
           IF p = fip[f].holder /\ Here(port[p]) THEN NoPort ELSE port[p]]
    /\ fip' = [fip EXCEPT ![f] = NoFip]
    /\ meddled' = meddled \ {f}
    /\ UNCHANGED <<network, subnet, router>>

----------------------------------------------------------------------------
(* The requests, by the routes of the API.  A GET, and a PUT of attributes  *)
(* that are not held here, are steps that change nothing.                  *)

NetworkRequests == \E n \in Network : CreateNetwork(n) \/ DeleteNetwork(n)

SubnetRequests ==
    \/ \E s \in Subnet : \E ip \in GatewayIp[s] : CreateSubnet(s, ip) \/ UpdateSubnet(s, ip)
    \/ \E s \in Subnet : DeleteSubnet(s)

PortRequests ==
    \/ \E p \in Port, n \in Network, request \in Request : CreatePort(p, n, request)
    \/ \E p \in Port : UpdatePort(p) \/ DeletePort(p)

RouterRequests ==
    \/ \E r \in Router : CreateRouter(r) \/ ClearGateway(r) \/ DeleteRouter(r)
    \/ \E r \in Router, n \in Network, request \in Request :
          \/ KeepGateway(r, n, request)
          \/ \E p \in Port : \/ CreateRouterWithGateway(r, n, request, p)
                             \/ ReplaceGateway(r, n, request, p)
    \/ \E r \in Router, n \in Network : FailGateway(r, n)
    \/ \E r \in Router, s \in Subnet : RemoveSubnetInterface(r, s)
    \/ \E r \in Router, s \in Subnet, p \in Port : AddSubnetInterface(r, s, p)
    \/ \E r \in Router, p \in Port : AddPortInterface(r, p) \/ RemovePortInterface(r, p)

FloatingIpRequests ==
    \/ \E f \in FloatingIp, n \in Network, a \in Asked \cup {None}, p \in Port :
          CreateFloatingIp(f, n, a, p)
    \/ \E f \in FloatingIp : DeleteFloatingIp(f)

Next ==
    \/ NetworkRequests
    \/ SubnetRequests
    \/ PortRequests
    \/ RouterRequests
    \/ FloatingIpRequests

Spec == Init /\ [][Next]_vars

----------------------------------------------------------------------------
(* Properties.                                                             *)

State == {"absent", "here"}

PortRecord ==
    [state : State, network : Network \cup {None}, fixed_ips : Seq(FixedIp),
     owner : Owner, device : Router \cup FloatingIp \cup {None},
     claimed : BOOLEAN]

Gateway == [network : Network, ips : Seq(FixedIp)]

\* The stores hold what they are declared to hold.
TypeOK ==
    /\ network \in [Network -> [state : State, subnets : Seq(Subnet)]]
    /\ subnet \in [Subnet -> [state : State, gateway_ip : Address \cup {None}]]
    /\ port \in [Port -> PortRecord]
    /\ router \in [Router -> [state : State, gateway : Gateway \cup {None}]]
    /\ fip \in [FloatingIp -> [state : State, address : Address \cup {None},
                               holder : Port \cup {None}]]
    /\ meddled \subseteq Router \cup FloatingIp

\* Two ports of a network never hold the same address, if both came by it with a
\* check: allocated, derived, or asked for by a client and looked up.  (A gateway,
\* a router interface and a floating IP may take a named address unchecked.)
AddressesApart ==
    \A p, q \in Port :
        p # q /\ port[p].network = port[q].network =>
            \A i \in DOMAIN port[p].fixed_ips, j \in DOMAIN port[q].fixed_ips :
                port[p].fixed_ips[i].vetted /\ port[q].fixed_ips[j].vetted =>
                    port[p].fixed_ips[i].address # port[q].fixed_ips[j].address

\* The subnet of an address is there as long as a port holds the address, on
\* the port's network: neither the subnet nor the network goes before it.
AddressesHaveSubnets ==
    \A p \in Port : \A i \in DOMAIN port[p].fixed_ips :
        LET e == port[p].fixed_ips[i] IN
        e.vetted => /\ e.subnet \in Listed(port[p].network)
                    /\ Here(subnet[e.subnet])
                    /\ e.address \in Cidr[e.subnet]

\* A gateway port that no client claimed belongs to a router that is there, and
\* a router has one at most: replaced, cleared and deleted gateways leave no
\* address behind, whatever clients have made of ports in between.  (A client
\* can name any owner and device: such ports are its own affair.)
GatewayPortsBelong ==
    \A p \in Port :
        port[p].owner = "gateway" /\ ~port[p].claimed =>
            /\ port[p].device \in Router
            /\ Here(router[port[p].device])
            /\ \A q \in GatewayPorts(port[p].device) : q = p \/ port[q].claimed

\* What external_gateway_info tells a client is what each gateway port of the
\* router holds, unless a client made or changed such a port by its own requests.
GatewayReadsBack ==
    \A p \in Port :
        port[p].owner = "gateway" /\ port[p].device \in Router \ meddled =>
            router[port[p].device].gateway =
                [network |-> port[p].network, ips |-> port[p].fixed_ips]

\* The port of a floating IP is there as long as the floating IP, and no longer,
\* ports that clients claimed or changed aside.
FloatingPortsBelong ==
    /\ \A p \in Port : port[p].owner = "floatingip" /\ ~port[p].claimed =>
          port[p].device \in FloatingIp /\ fip[port[p].device].holder = p
    /\ \A f \in FloatingIp : Here(fip[f]) /\ f \notin meddled =>
          port[fip[f].holder].owner = "floatingip"

\* "Setting a gateway is backed by a real port" (_build_external_gateway_info):
\* a router that shows a gateway has the port.
\* The code does not keep it: see README, "Where the code departs".
GatewayBacked ==
    \A r \in Router \ meddled : router[r].gateway # None => GatewayPorts(r) # {}

\* As Neutron has it, every gateway port belongs to a router that is there.
\* The code does not keep it: see README, "Where the code departs".
EveryGatewayPortBelongs ==
    \A p \in Port : port[p].owner = "gateway" =>
        /\ port[p].device \in Router
        /\ Here(router[port[p].device])
        /\ GatewayPorts(port[p].device) = {p}
============================================================================
