SPECIFICATION FairSpec
CONSTANTS
    Ids = {1, 2}
    Timeout = 2
    MaxLag = 1
    MaxPkts = 3
INVARIANTS
    TypeOK
    OnlineExact
    RecordPerCall
    CleanupAlone
    EndMarksOwn
PROPERTY
    CallEnds
CHECK_DEADLOCK FALSE
