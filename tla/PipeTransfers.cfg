SPECIFICATION Spec
CONSTANTS
    t1 = t1
    t2 = t2
    t3 = t3
    Task = {t1, t2, t3}
    Creator = t1
    None = None
    PAGE_SIZE = 3
    Counts = {1, 3}
    MaxBytes = 4
    MaxFaults = 1
SYMMETRY Others
CHECK_DEADLOCK FALSE
INVARIANT PipeSound
PROPERTIES
    ShortCallsRight
