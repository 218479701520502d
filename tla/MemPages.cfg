SPECIFICATION Spec
CONSTANTS
    NR_TASKS = 3
    Exe = {e1, e2}
    None = None
    Text = {x1}
    Stack = {s1, s2}
    Pages = 8
    MAP_SIZE = 256
    MaxImages = 3
    KernelWrites = FALSE
INVARIANTS
    MapCounts
    
CHECK_DEADLOCK FALSE
