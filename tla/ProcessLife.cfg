SPECIFICATION FairSpec
CONSTANTS
    NR_TASKS = 5
    MaxPid = 6
    Asks = {0, 3}
    Killed = {3}
INVARIANT FamilySound
PROPERTIES
    TreeSpec
    WaitReturns
CHECK_DEADLOCK FALSE
