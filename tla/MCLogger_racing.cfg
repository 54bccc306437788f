SPECIFICATION FairSpec
CONSTANTS
    Producers = {p1, p2}
    Waiters = {w1}
    Sinks = {}
    NoSink = none
    Capacity = 2
    MaxCalls <- TwoAndOne
    MaxInits = 1
    MaxSetSinks = 0
    OrderlyShutdown = FALSE
INVARIANTS
    TypeOK
    InFlightExact
    IdleReturnDelivers
    DeliveredInOrder
    SleepersNoticed
PROPERTY ShutdownCompletes
CHECK_DEADLOCK FALSE
