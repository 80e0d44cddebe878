SPECIFICATION FairSpec
CONSTANTS
    p1 = p1
    r1 = r1
    r2 = r2
    Primary = p1
    Replicas = {r1}
    Faults = {"local", "timeout", "checkpoint", "copy", "rsync"}
    MaxCrashes = 0
INVARIANTS
    InitializeKeyNotStale
PROPERTIES
    
    Completes
    PrimaryComesBack
\* The scripts end: a state without a successor is their normal end.
CHECK_DEADLOCK FALSE
