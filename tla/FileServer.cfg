SPECIFICATION FairSpec
CONSTANTS
    Clients = {c1, c2}
    Fds = {3, 4}
    Chunk = 2
    MaxLen = 3
    MaxReloads = 1
INVARIANTS
    TypeOK
    OnlyListeners
    PlayedAligned

    
CHECK_DEADLOCK FALSE
