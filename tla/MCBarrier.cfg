\* three threads, as many episodes as exhaust one full cycle of (offset, val)
\* plus one; memory that never holds the value 1
CONSTANTS
    NumThreads = 3
    Garbage = {0, 7}
    MaxRounds = 5
SPECIFICATION BarrierSpecification
INVARIANTS BarrierInv
PROPERTIES AbstractBarrier EveryCallReturns
CHECK_DEADLOCK FALSE
