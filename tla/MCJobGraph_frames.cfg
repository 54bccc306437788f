SPECIFICATION FairSpec
CONSTANTS
    Jobs = {j1, j2, j3, j4}
    MaxFrames = 2
INVARIANTS
    TypeOK
    CountersExact
    NoStaleBinding
PROPERTIES
    OrderSpec
    EveryJobRuns
CHECK_DEADLOCK FALSE
