SPECIFICATION FairStopSpec
CONSTANTS
    Workers = {w1, w2}
    FaxThreads = {f1}
    Calls = {c1, c2}
    Others = {o1}
    MaxSigs = 2
INVARIANT StopClean
 
CHECK_DEADLOCK FALSE
