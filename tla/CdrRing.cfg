SPECIFICATION FairSpec
CONSTANTS
    N = 4
    Batch = 2
    SockFrames = 1
    SplitAcks = TRUE
    MaxInserts = 5
    MaxFaults = 2
INVARIANTS
    TypeOK
    
    
    NoneSkipped
PROPERTIES
    AckedWereReceived
    
    EventuallyAcked
CHECK_DEADLOCK FALSE
