\* four threads; MaxRounds is the number of barrier calls in runTest
CONSTANTS
    NumThreads = 4
    Garbage = {0}
    MaxRounds = 4
    Arguments <- MCArguments
    Stride = 2
    Streams = 2
    Measured = {8, 16}
    DemandIter = {0, 3}
    IntWidth = 8
    AnyCpu = AnyCpu
SPECIFICATION Spec
INVARIANTS KernelOnPreparedThreads StopCoversAllKernels
PROPERTIES BenchTerminates
