SPECIFICATION FairSpec
CONSTANTS
    Producers = {p1, p2}
    Waiters = {w1}
    Sinks = {s1}
    NoSink = none
    Capacity = 1
    MaxCalls <- OneEach
    MaxInits = 2
    MaxSetSinks = 2
    OrderlyShutdown = TRUE
INVARIANTS
    DrainedOnShutdown
    StaleSinkAtMostOnce
PROPERTIES
    ChannelSpec
    WaitersReturn
CHECK_DEADLOCK FALSE
