------------------------- MODULE MCNetworkAddresses -------------------------
\* NetworkAddresses for TLC: two external networks, one with an IPv4 subnet of
\* two pool addresses, the other with an IPv6 subnet whose addresses come from
\* its prefix; the address that a port derives is written as the port itself.
EXTENDS NetworkAddresses, TLC

CONSTANTS ext, ext6, v4, v6

MCAddress   == 0 .. 2 \cup Port
MCNetworkOf == v4 :> ext @@ v6 :> ext6
MCFamily    == v4 :> 4 @@ v6 :> 6
MCCidr      == v4 :> 0 .. 2 @@ v6 :> Port
MCPoolStart == v4 :> 1 @@ v6 :> 1
MCPoolEnd   == v4 :> 2 @@ v6 :> 0
MCGatewayIp == v4 :> {0} @@ v6 :> {None}
MCEui64     == [s \in Subnet |-> [p \in Port |-> p]]

\* A client says of a port that it is the router's gateway port, or lets it go.
MCClaimedOwner  == {"gateway"}
MCClaimedDevice == Router \cup {None}

\* No action reads external_gateway_info or "meddled", and this run's properties
\* do so only for routers that have a gateway port and were not meddled with, and
\* for routers.  What they say of the others tells no states apart.
View ==
    LET Told(r) == r \notin meddled /\ GatewayPorts(r) # {}
    IN  <<network, subnet, port, fip, meddled \cap Router,
          [r \in Router |-> IF Told(r) THEN router[r] ELSE router[r].gateway = None],
          [r \in Router |-> router[r].state]>>

\* Bound: one port at a time that a client claimed, while there is no floating IP
\* and only the IPv4 network.
OneClaim ==
    \A p \in Port : port[p].claimed =>
        /\ \A q \in Port : port[q].claimed => q = p
        /\ \A f \in FloatingIp : ~Here(fip[f])
        /\ ~Here(network[ext6])

\* Bound: a floating IP or a gateway, while both networks are there.
FewOwners ==
    \/ \A f \in FloatingIp : ~Here(fip[f])
    \/ \A r \in Router : router[r].gateway = None
    \/ \E n \in Network : ~Here(network[n])

Symmetry == Permutations(Port)
============================================================================
