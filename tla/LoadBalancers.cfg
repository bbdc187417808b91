CONSTANTS
    LoadBalancer = {b1, b2}
    Listener = {l1}
    Pool = {p1, p2}
    Member = {m1}
    Monitor = {h1}
    Policy = {y1}
    Rule = {r1}
    Setting = {old}
    None = None
    Same = Same
SPECIFICATION Spec
SYMMETRY Symmetry
INVARIANTS
    ParentsListChildren
    DefaultPoolIsThere
    CascadeIsComplete
