SPECIFICATION Spec
CONSTANTS
    p1 = p1
    r1 = r1
    r2 = r2
    Primary = p1
    Replicas = {r1}
    Faults = {"local", "link", "disk", "dcs", "lostack", "timeout", "checkpoint", "copy", "rsync", "patroni", "failover", "operator"}
    MaxCrashes = 1
INVARIANTS
    CaughtUpBeforeCopy
    UsableDataKept
    UpgradeOnlyOnLeader
    PauseReleased
    ForeignPauseKept
    NoStaleRecoveryConf
\* The scripts end: a state without a successor is their normal end.
CHECK_DEADLOCK FALSE
