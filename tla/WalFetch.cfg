SPECIFICATION FairSpec
CONSTANTS
    Prefetch = 2
    MaxSegment = 3
INVARIANTS
    SuccessIsComplete
    NoRefetch
    NoStalePrefetch
PROPERTIES
    CallsEnd
\* Recovery stops asking after the last segment.
CHECK_DEADLOCK FALSE
