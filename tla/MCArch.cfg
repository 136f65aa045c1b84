CONSTANTS
    NumThreads = 2
    Size = 2
    MaxTicks = 2
    Units <- AllUnits
SPECIFICATION Spec
INVARIANTS TypeOK ResultIsCount SelectedAsWanted QuietWhenStopped CleanWhenFinalized
PROPERTIES ReadKeepsCounting
CHECK_DEADLOCK FALSE
