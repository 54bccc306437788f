SPECIFICATION Spec
CONSTANTS
    Keys = {a, b}
    Compilable = {a, b}
    Carriers = {}
    MaxDrops = 1
    MaxCommits = 1
INVARIANTS
    ParallelToCache
CHECK_DEADLOCK FALSE
