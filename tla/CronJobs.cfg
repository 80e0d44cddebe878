SPECIFICATION JobsSpec
CONSTANTS
    Runs = {r1, r2}
    BACKUP_NUM_TO_RETAIN = 1
    Day = 2
    MaxTime = 6
    MaxBackups = 4
    Week = 3
    MaxDay = 4
    max_retries = 2
SYMMETRY MCSymmetry
INVARIANTS
    DeltasKeepTheirFull
    WindowIsRestorable
    EnoughAreLeft
    UploadedIsThatDay
\* The clocks of the model stop.
CHECK_DEADLOCK FALSE
