CONSTANTS
    Inputs <- MCLarge
    cpuCapacity = 2
    memCapacity = 3
    queueSize = 1
    MaxFailures = 0
SPECIFICATION FairSpec
PROPERTIES FilesClosed
