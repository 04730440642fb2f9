SPECIFICATION Spec
CONSTANTS
    Slots = {s1}
    FaxThreads = {f1, f2}
    PoolSize = 3
    MaxCalls = 3
INVARIANT
    LenExact
CHECK_DEADLOCK FALSE
