SPECIFICATION ScenariosSpec
CONSTANTS
    Service = {"nova", "neutron"}
    AllServices = AllServices
    Method = {"GET", "POST"}
    Resource = {"server"}
    Request = {r1, r2}
    Builtin = {"nova_oom_crash", "neutron_slow"}
    Shipped <- MCShipped
    ShippedOrder <- MCShippedOrder
    CustomId = {"load_level_all"}
    Loaded <- MCLoaded
    LoadLevelId <- MCLoadLevelId
    Level <- MCLevel
    Profile <- MCProfile
    Failure <- MCFailure
    Preset <- MCPreset
    Absent = Absent
    MaxOwn = 1
    MaxEnabled = 2
CONSTRAINT Bounded
SYMMETRY Symmetry
INVARIANTS
    ScenariosTypeOK
    DegradationTimed
    TotalsAddUp
PROPERTIES
    NextRequestObeys
