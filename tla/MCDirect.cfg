\* three packages with up to three PCI devices, two lifetimes
CONSTANTS
    NodeOf <- ThreeCpus
    MaxNodes = 3
    Devices = {1, 2, 3}
    Present <- AllButTwo
    Uncore = TRUE
    PciUsable = {TRUE, FALSE}
    MaxFd = 6
    MaxLives = 2
SPECIFICATION Spec
INVARIANTS TypeOK AccessIsReal FilesClosed
CHECK_DEADLOCK FALSE
