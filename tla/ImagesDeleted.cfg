SPECIFICATION Spec
CONSTANTS
    Image = {i1}
    Label = {plain, renamed}
    Project = {ann, ben}
    Client = {c1, c2}
    AutoSave = TRUE
    Idle = Idle
    Absent = Absent
    Unborn = Unborn
    Gone = Gone
SYMMETRY Symmetry
INVARIANTS
    DeletedImagesDoNotBoot
