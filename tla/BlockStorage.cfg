SPECIFICATION CinderSpec
CONSTANTS
    Project = {p1, p2}
    Volume = {v1, v2}
    Snapshot = {s1}
    Backup = {b1}
    Transfer = {t1}
    Group = {g1}
    GroupSnapshot = {x1}
    Label = {old, new}
    MaxSize = 2
    AutoSave = TRUE
    Admin = Admin
    NotMade = NotMade
    Gone = Gone
    MaxThings = 3
CONSTRAINT FewThings
SYMMETRY Symmetry
INVARIANTS
    SizesFit
PROPERTIES
    DeletedStaysDeleted
    OthersUntouched
