SPECIFICATION Spec
CONSTANTS
    t1 = t1
    t2 = t2
    t3 = t3
    None = None
    Free = Free
    Task <- ThreeTasks
    Block <- ThreeBlocks
    Major <- OneMajor
    MajorOf <- OnDisk3
    Buffer <- BufferHeads
    NR_BUFFERS = 2
    NR_REQUEST = 3
    NR_HASH = 2
    Writable = {}
    MaxWrites = 0
    Failures = {0}
SYMMETRY Interchangeable
INVARIANT CacheSound
PROPERTIES
    RequestLayer
