SPECIFICATION FairSpec
CONSTANTS
    t1 = t1
    t2 = t2
    t3 = t3
    None = None
    Free = Free
    Task <- TwoTasks
    Block <- FourBlocks
    Major <- OneMajor
    MajorOf <- OnDisk4
    Buffer <- BufferHeads
    NR_BUFFERS = 3
    NR_REQUEST = 2
    NR_HASH = 2
    Writable = {1}
    MaxWrites = 1
    Failures = {}
INVARIANTS
    CleanMatchesDisk
PROPERTIES
    NoWriteForgotten
    
CHECK_DEADLOCK FALSE
