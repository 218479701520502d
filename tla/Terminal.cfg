SPECIFICATION AllSpec
CONSTANTS
    Sleeper = {t1, t2, t3, t4}
    None = None
INVARIANTS
    WholeChain
    
    
PROPERTIES
    Refines
    
    LineArrives
