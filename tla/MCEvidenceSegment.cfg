SPECIFICATION SegmentSpec
CONSTANTS
    j1 = j1
    j2 = j2
    Jobs <- MCTwoJobs
    Operators <- MCOperator
    SealAfter = 0
    PurgeGrace = 1
    MaxSeq = 1
    MaxClock = 2
INVARIANTS
    PurgedIsAnchored
    PurgeIsNotTampering
PROPERTIES
    GraceIsKept
CHECK_DEADLOCK FALSE
