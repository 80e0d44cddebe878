SPECIFICATION FairSpec
CONSTANTS
    Pods = {p1, p2}
    MaxRestarts = 2
    Tries = 1
    MaxTrouble = 4
INVARIANTS
    StopsAfterMaxRestarts
PROPERTIES
    LabelsSettle
\* The trouble is bounded, and settled pods stay as they are.
CHECK_DEADLOCK FALSE
