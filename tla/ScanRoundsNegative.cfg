SPECIFICATION Spec
CONSTANTS
    Workers = {w1}
    Sources = {s1}
    Rounds = {1}
    TaskBuffer = 1
    MaxEmits = 1
    ScanModes = {"loop"}
    SourceConcurrency = 0
    StatsBuffer = 1
INVARIANT WaitGroupNeverNegative
CHECK_DEADLOCK FALSE
