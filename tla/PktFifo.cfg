SPECIFICATION FairSpec
CONSTANTS
    Size = 3
    MaxPkts = 8
INVARIANTS
    TypeOK
    ParsedIntact
PROPERTIES
    RefinesQueue
    EventuallyTaken
CHECK_DEADLOCK FALSE
