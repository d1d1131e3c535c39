CONSTANTS
    c1 = c1
    c2 = c2
    c3 = c3
    NoClient = NoClient
    Clients <- MCClients
    Sizes <- MCSizes
    Capacity = 2
SPECIFICATION FairSpec
INVARIANTS CpuBound
PROPERTIES ImplementsLimiter RequestServiced
CHECK_DEADLOCK FALSE
