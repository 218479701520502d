SPECIFICATION AllSpec
CONSTANTS
    NR_TASKS = 3
    Priority = 3
    MaxDelay = 1
    Posted <- ChildSignals
    Block <- FiveBlocks
    Buffer = {b}
    Major <- TwoMajors
    MajorOf <- BlockPlaces
    NR_REQUEST = 5
    Free = Free
INVARIANTS
    TableSound
    ChainsSound
    StartsInTime
PROPERTIES
    RunnableRuns
    SignalsSeen
    AlarmComes
    HeadStays
    EachRequestEnds
