SPECIFICATION FairSpec
CONSTANTS
    MaxRuns = 2
    Retries = 1
    MaxWal = 3
INVARIANTS
    WalForRecovery
    FailedRunLeavesNoReceiver
PROPERTIES
    StreamingEndsReceivewal
\* The runs are bounded, and a replica that works needs no more of them.
CHECK_DEADLOCK FALSE
