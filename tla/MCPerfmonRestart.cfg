\* start after stop without setup, as likwid-perfctr does in timeline mode
CONSTANTS
    NumThreads = 1
    NodeOf <- SameNode
    Fixed = {}
    Pmc = {"p0"}
    Power = {}
    Flags = {"load"}
    Joule = "joule"
    CoreSize = 8
    PowerSize = 8
    EventSets <- OneGroup
    MaxGroups = 1
    MaxEvents = 2
    MaxTime = 0
    MaxRunTime = 0
    MaySwitch = TRUE
    Restarts = TRUE
    SetupAnytime = TRUE
    ReadsIdle = TRUE
SPECIFICATION Spec
INVARIANTS ResultOfLastCycle
CHECK_DEADLOCK FALSE
