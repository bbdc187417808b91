CONSTANTS
    ext = ext
    ext6 = ext6
    v4 = v4
    v6 = v6
    Network = {ext, ext6}
    Subnet = {v4, v6}
    Port = {p1, p2, p3}
    Router = {r1}
    FloatingIp = {f1}
    Address <- MCAddress
    Asked = {1}
    GatewayIp <- MCGatewayIp
    ClaimedOwner <- MCClaimedOwner
    ClaimedDevice <- MCClaimedDevice
    External = {ext, ext6}
    NetworkOf <- MCNetworkOf
    Family <- MCFamily
    FromPrefix = {v6}
    Cidr <- MCCidr
    PoolStart <- MCPoolStart
    PoolEnd <- MCPoolEnd
    Octet = 4
    Eui64 <- MCEui64
    MaxEntries = 1
    None = None
SPECIFICATION Spec
VIEW View
SYMMETRY Symmetry
CONSTRAINTS
    OneClaim
    FewOwners
INVARIANTS
    AddressesApart
    GatewayPortsBelong
    GatewayReadsBack
