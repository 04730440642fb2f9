SPECIFICATION Spec
CONSTANTS
    Ids = {1, 2}
    Timeout = 2
    MaxLag = 1
    MaxPkts = 3
INVARIANT TooLongFinished
CHECK_DEADLOCK FALSE
