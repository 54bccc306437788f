SPECIFICATION Spec
CONSTANTS
    Producers = {p1}
    Waiters = {}
    Sinks = {}
    NoSink = none
    Capacity = 2
    MaxCalls <- TwoEach
    MaxInits = 1
    MaxSetSinks = 0
    OrderlyShutdown = FALSE
INVARIANT DrainedOnShutdown
CHECK_DEADLOCK FALSE
