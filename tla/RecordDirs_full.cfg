SPECIFICATION Spec
CONSTANTS
    Roots = {"a", "b"}
    Workers = {"w0", "w1"}
    Zero = "w0"
    Configs <- MCConfigs
    LastDays = {1}
    storage_time = 2
    MaxDay = 3
    MaxChanges = 2
INVARIANT
    FullNotWritten
CHECK_DEADLOCK FALSE
