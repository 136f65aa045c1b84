CONSTANTS
    NumCpus = 1
    Nodes = {0}
    NodeOf <- OneNode
    Conns = {3}
    Clients = {main, w1}
    Main = main
    Regs = {7, 9}
    Restricted = {9}
    Vals = {0, 1, 3}
    MsrFiles = {0}
    PciFiles = {0}
    BootMayFail = FALSE
    PciOpenMayFail = TRUE
    AlarmMayBeEarly = TRUE
    MaxKills = 1
    BadCpus = {1}
    Requests <- PciTraffic
    MaxTries = 2
    MaxCalls = 2
    MaxRounds = 1
    ClientMayDie = FALSE
SPECIFICATION Spec
INVARIANTS OwnReply
PROPERTIES CallsReturn
CHECK_DEADLOCK FALSE
