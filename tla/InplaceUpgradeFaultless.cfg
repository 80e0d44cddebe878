SPECIFICATION FairSpec
CONSTANTS
    p1 = p1
    r1 = r1
    r2 = r2
    Primary = p1
    Replicas = {r1, r2}
    Faults = {}
    MaxCrashes = 0
INVARIANTS
    NoSysidMismatch
PROPERTIES
    UpgradeSucceeds
\* The scripts end: a state without a successor is their normal end.
CHECK_DEADLOCK FALSE
