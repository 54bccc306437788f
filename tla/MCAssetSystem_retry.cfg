SPECIFICATION Spec
CONSTANTS
    Keys = {a, b}
    Compilable = {a, b}
    Carriers = {}
    MaxDrops = 0
    MaxCommits = 2
INVARIANTS
    RegistrationKept
CHECK_DEADLOCK FALSE
