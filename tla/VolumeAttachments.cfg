CONSTANTS
    Server = {s1, s2}
    Volume = {v1, v2}
    MaxEntries = 2
    MaxAttached = 2
    AutoSave = TRUE
    Idle = Idle
SPECIFICATION Spec
SYMMETRY Symmetry
INVARIANTS
    SingleAttach
    NovaCoversCinder
    LeftoversAreDirect
