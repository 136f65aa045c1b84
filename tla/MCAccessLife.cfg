CONSTANTS
    NumCpus = 2
    Nodes = {0}
    NodeOf <- OneNode
    Conns = {3, 4}
    Clients = {main, w1}
    Main = main
    Regs = {7, 9}
    Restricted = {9}
    Vals = {0, 1, 3}
    MsrFiles = {0}
    PciFiles = {}
    BootMayFail = TRUE
    PciOpenMayFail = FALSE
    AlarmMayBeEarly = FALSE
    MaxKills = 1
    BadCpus = {2}
    Requests <- Few
    MaxTries = 2
    MaxCalls = 1
    MaxRounds = 2
    ClientMayDie = TRUE
SPECIFICATION Spec
INVARIANTS Bookkeeping FinalizeCloses NoStaleSocketFile
PROPERTIES DaemonsEnd
CHECK_DEADLOCK FALSE
