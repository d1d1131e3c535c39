CONSTANTS
    Inputs <- MCInputs
    cpuCapacity = 2
    memCapacity = 3
    queueSize = 1
    MaxFailures = 2
SPECIFICATION FairSpec
INVARIANTS ArchiveInOrder WithinLimits
PROPERTIES WriteReturns
CHECK_DEADLOCK FALSE
