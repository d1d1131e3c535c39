CONSTANTS
    Scripts <- MCScripts
    MaxStages = 2
SPECIFICATION FairSpec
INVARIANTS OutputsPaired CloseWaits
PROPERTIES  CloseReturns
CHECK_DEADLOCK FALSE
