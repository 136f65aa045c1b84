CONSTANTS
    NumCpus = 2
    Nodes = {0}
    NodeOf <- OneNode
    Conns = {3, 4}
    Clients = {main, w1}
    Main = main
    Regs = {7, 9}
    Restricted = {9}
    Vals = {0, 3, 1}
    MsrFiles = {0}
    PciFiles = {0}
    BootMayFail = FALSE
    PciOpenMayFail = FALSE
    AlarmMayBeEarly = FALSE
    MaxKills = 0
    BadCpus = {2}
    Requests <- Traffic
    MaxTries = 2
    MaxCalls = 1
    MaxRounds = 1
    ClientMayDie = FALSE
SPECIFICATION SafetySpec
INVARIANTS TypeOK
PROPERTIES AtomicRegisters
CHECK_DEADLOCK FALSE
