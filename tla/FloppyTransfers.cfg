SPECIFICATION FairSpec
CONSTANTS
    Drive = {0, 1}
    Device <- Devices
    Geometry <- Shapes
    Protected = {1}
    Work <- SomeWork
    MAX_ERRORS = 2
    SpinTicks = 3
    OffTicks = 4
    Cylinder = {0, 1}
    LateRequests = FALSE
    MaxFaults = 3
    MaxRequests = 3
    NoWork = NoWork
INVARIANT DriverSound
PROPERTIES
    EachEnds
    MotorsStop
CHECK_DEADLOCK FALSE
