CONSTANTS
    Procs = {p1, p2}
    Files = {"f", "g"}
    Configs <- MCConfigs
    Installs <- MCInstalls
    MaxRuns = 3
    None = None
    Torn = Torn
SPECIFICATION Spec
SYMMETRY Symmetry
INVARIANTS LockExclusive 
CHECK_DEADLOCK FALSE
