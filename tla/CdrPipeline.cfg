SPECIFICATION FairSpec
CONSTANTS
    Slots = {s1, s2}
    FaxThreads = {f1, f2}
    PoolSize = 3
    MaxCalls = 4
INVARIANTS
    NoNullWalk
    NodesConserved
    RecordsConserved

    
CHECK_DEADLOCK FALSE
