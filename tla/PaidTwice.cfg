SPECIFICATION Spec
CONSTANTS
    Workers = {w1, w2}
    Main = main
    Hashes = {h1}
    BatchSize = 3
    BulkInner = TRUE
    MaxCalls = 2
    MaxFaults = 0
    MaxForgets = 0
    MaxCrashes = 0
INVARIANT PaidAtMostOnce
CHECK_DEADLOCK FALSE
