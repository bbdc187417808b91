SPECIFICATION Spec
CONSTANTS
    Project = {ann, ben}
    Network = {n1}
    Policy = {y1, y2}
    Port = {p1}
    Group = {g1, g2}
    Rule = {r1, r2}
    Everyone = Everyone
    NoGroup = NoGroup
    Absent = Absent
    Unborn = Unborn
    Gone = Gone
    Defaults = 1
SYMMETRY Symmetry
INVARIANTS
    FlagFollowsPolicies
    PortsKeepSight
    GroupsOfPortsExist
