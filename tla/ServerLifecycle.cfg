SPECIFICATION FairSpec
CONSTANTS
    Server = {s1}
    Flavor = {f1}
    Client = {c1, c2}
    Duration = 4
    MaxBack = 1
    AutoSave = TRUE
    Idle = Idle
    NoFlavor = NoFlavor
INVARIANTS
    TaskCoherent
    AcceptedTaskIsSaved
PROPERTIES
    ServersSurviveRestart
    PowerTaskUndisturbed
    PhasesInOrder
    DeadlineStays
    LookingChangesNothing
    PowerTaskSettles
    RebootSettles
