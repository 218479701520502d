SPECIFICATION AllSpec
CONSTANTS
    Task = {t1, t2, t3}
    None = None
    NR_INODE = 3
    Num = {1, 2}
    Named = {1}
    MaxLinks = 2
    Changes = {"link", "unlink", "new", "sync"}
    ReuseAwaited = FALSE
    StaleNames = FALSE
SYMMETRY Tasks
INVARIANTS
    
    ReferencesKept
    
