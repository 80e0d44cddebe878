SPECIFICATION FairSpec
CONSTANTS
    Versions = {13, 14, 15}
    Bin = 14
    Faults = {"list", "fetch", "server", "post_init", "initdb", "drop", "stop", "pg_upgrade",
              "switch", "cleanup", "start", "analyze"}
    MaxFaults = 1
    MaxTime = 3
    MaxRestarts = 2
INVARIANTS
    LatestBackup
    OldNeverArchives
    UpgradeOfCleanData
    SuccessIsComplete
PROPERTIES
    CloneSucceeds
\* The clone is complete, and the source has reached the bound on the time.
CHECK_DEADLOCK FALSE
