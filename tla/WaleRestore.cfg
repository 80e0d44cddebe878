SPECIFICATION Spec
CONSTANTS
    Prefetch = 8
    FirstSegment = 252
    LastSegment = 260
    Retries = 2
    Threshold = 768
    Percentage = 30
    Sizes = {1000, 2000, 10000}
INVARIANTS
    PrecreatedIsPredecessor
    PrefetchIsNext
    
    NoBlindRestore
\* The script exits, and the leader has reached the bound.
CHECK_DEADLOCK FALSE
