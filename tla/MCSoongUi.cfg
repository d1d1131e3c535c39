CONSTANTS
    Tools = {t1, t2}
    Capacity = 1
    MaxSignals = 2
    MaxWinches = 1
    None = None
SPECIFICATION FairSpec
INVARIANTS CleanExit TerminalRestored
PROPERTIES CleanupExits
CHECK_DEADLOCK FALSE
