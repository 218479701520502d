SPECIFICATION FairSpec
CONSTANTS
    b1 = b1
    b2 = b2
    b3 = b3
    b4 = b4
    Buffer = {b1, b2, b3, b4}
    Part <- Parts
    Place <- Places
    Hd <- PartTable
    HeadCount = 2
    SectCount = 3
    DiskSize = 9
    MaxFaults = 2
    MaxWrites = 2
INVARIANT TransferSound
PROPERTIES
    WritesLandHome
    ErrorOnlyAtEnd
    EachEnds
CHECK_DEADLOCK FALSE
