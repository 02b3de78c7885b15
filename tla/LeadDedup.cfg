SPECIFICATION Spec
CONSTANTS
    Workers = {w1, w2}
    Main = main
    Hashes = {h1, h2}
    BatchSize = 3
    BulkInner = TRUE
    MaxCalls = 4
    MaxFaults = 1
    MaxForgets = 1
    MaxCrashes = 1
SYMMETRY WorkerSymmetry
INVARIANT TypeOK
INVARIANT InflightIsExclusive
INVARIANT BatchHoldsNoDuplicate
INVARIANT CountedLeadsAreTracked
CHECK_DEADLOCK FALSE
