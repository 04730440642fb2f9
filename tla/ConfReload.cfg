SPECIFICATION FairSpec
CONSTANTS
    Mangle <- MCMangle
    Files <- MCFiles
    Numbers = {0, 1, 2, 30, 1025}
    FirstAddr <- MCFirstAddr
    DevMac = "m"
    Dev = "eth0"
    MaxCmds = 3
    MaxLost = 1
INVARIANTS
    TypeOK
    LoadMeans
    
    StaleFlagged
PROPERTY Settles
CHECK_DEADLOCK FALSE
