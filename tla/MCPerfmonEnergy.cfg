\* an energy counter that only one thread of the package reads, and the clock
CONSTANTS
    NumThreads = 2
    NodeOf <- SameNode
    Fixed = {}
    Pmc = {"p0"}
    Power = {"e0"}
    Flags = {"load", "joule"}
    Joule = "joule"
    CoreSize = 3
    PowerSize = 3
    EventSets <- EnergyGroups
    MaxGroups = 1
    MaxEvents = 4
    MaxTime = 2
    MaxRunTime = 2
    MaySwitch = FALSE
    Restarts = FALSE
    SetupAnytime = FALSE
    ReadsIdle = FALSE
SPECIFICATION Spec
INVARIANTS ResultOfLastCycle RunTimeIsMeasured
CHECK_DEADLOCK FALSE
