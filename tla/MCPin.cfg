\* machines of all kinds, in and out of a cpuset, and jobs on them; a program that creates up
\* to five threads, with one failing call
CONSTANTS
    MaxThreads = 5
    MaxFailures = 1
    MAX_NUM_THREADS = 16
    Machines <- AllMachines
    CpuStrings <- AllStrings
    SkipMasks = {{}, {0}, {1, 2}}
    CreatorSets = {{0}}
    Jobs <- AllJobs
SPECIFICATION MpiSpec
INVARIANTS   ListUsable PlacedInOrder PinnedAsListed JobFits RankOnItsCpus
CHECK_DEADLOCK FALSE
