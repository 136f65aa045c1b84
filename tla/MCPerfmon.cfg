\* two CPUs of one package, two groups with a common fixed counter, calls in
\* any order except that a stopped group is set up before it is started again
CONSTANTS
    NumThreads = 2
    NodeOf <- SameNode
    Fixed = {"f0"}
    Pmc = {"p0"}
    Power = {}
    Flags = {"instr", "load", "store"}
    Joule = "joule"
    CoreSize = 8
    PowerSize = 8
    EventSets <- TwoGroups
    MaxGroups = 2
    MaxEvents = 2
    MaxTime = 0
    MaxRunTime = 0
    MaySwitch = TRUE
    Restarts = FALSE
    SetupAnytime = TRUE
    ReadsIdle = TRUE
SPECIFICATION Spec
INVARIANTS TypeOK ActiveConfigured ResultOfLastCycle OffAfterFinalize
CHECK_DEADLOCK FALSE
