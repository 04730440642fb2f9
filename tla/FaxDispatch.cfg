SPECIFICATION FairSpec
CONSTANTS
    Threads = {0, 1}
    MaxFax = 2
    Configs <- MCConfigs
    Fds = {1, 2}
    MaxFaxes = 2
    MaxReloads = 1
    MaxStatus = 1
INVARIANTS
    TypeOK
    GiveUpTriedAll
    ReloadInstalled
    FdNamesServer
PROPERTY
    RoundEnds
CHECK_DEADLOCK FALSE
