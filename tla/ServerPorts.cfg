CONSTANTS
    Server = {s1, s2}
    Port = {p1, p2}
    Router = {r1}
    MaxEntries = 2
    AutoSave = TRUE
    Nobody = Nobody
    Idle = Idle
    NoPort = NoPort
SPECIFICATION Spec
SYMMETRY Symmetry
INVARIANTS
    DeletedServerFreesPorts
    PortsAgreeWithInterfaces
    NovaTakesItsOwn
