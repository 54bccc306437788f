SPECIFICATION FairSpec
\* Nothing happens after the device is destroyed.
CHECK_DEADLOCK FALSE
CONSTANTS
    shaders = shaders
    mesh = mesh
    field1 = field1
    field2 = field2
    program = program
    context = context
    Items <- MCItems
    KindOf <- MCKindOf
    Needs <- MCNeeds
    SrvCapacity = 2
    MaxFence = 4
    MaxFaults = 1
    MaxClears = 1
INVARIANTS
    TypeOK
    QueuedAreSafe
    ObjectsOwned
    HandlesTruthful
PROPERTY CallsEnd
