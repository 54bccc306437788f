SPECIFICATION FairSpec
CONSTANTS
    Keys = {a, b, c}
    Compilable = {a, b}
    Carriers = {a}
    MaxDrops = 1
    MaxCommits = 1
INVARIANTS
    TypeOK
    StackDescends
    NodesPresent
    OncePerCall
PROPERTIES
    DemandSpec
    CallsReturn
CHECK_DEADLOCK FALSE
