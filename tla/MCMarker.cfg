\* two measured CPUs, two or three threads, two groups
CONSTANTS
    NumThreads = 2
    NodeOf <- SameNode
    Fixed = {}
    Pmc = {"p0"}
    Power = {}
    Flags = {"load", "store"}
    Joule = "joule"
    CoreSize = 4
    PowerSize = 4
    EventSets <- LoadStoreSets
    MaxGroups = 2
    MaxEvents = 2
    MaxTime = 0
    MaxRunTime = 0
    MaySwitch = TRUE
    Restarts = FALSE
    SetupAnytime = TRUE
    ReadsIdle = TRUE
    t1 = t1
    t2 = t2
    t3 = t3
    Teams <- AnyTeam
    Environments <- EnvironmentsByTeam
    Regions <- RegionsByTeam
    GroupEvents <- LoadThenStore
    Positions = {3}
    Garbage = {7}
    MaxCalls <- CallsByTeam
    RegisterFirst = TRUE
    OneRunsAll = TRUE
SYMMETRY Symmetry
SPECIFICATION MarkerSpec
INVARIANTS CountsStops RegionTotals FileGathersAll
CHECK_DEADLOCK FALSE
