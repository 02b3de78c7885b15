SPECIFICATION Spec
CONSTANTS
    Workers = {w1, w2}
    Sources = {s1}
    Rounds = {1, 2}
    TaskBuffer = 1
    MaxEmits = 2
    ScanModes = {"loop"}
    SourceConcurrency = 0
    StatsBuffer = 1
SYMMETRY WorkerSymmetry
INVARIANT TypeOK
INVARIANT OneRoundAtATime
INVARIANT WaitMeansFinished
INVARIANT WaitGroupCountsTasks
INVARIANT SnapshotAccountsForEveryItem
INVARIANT HandleNamesLiveRound
CHECK_DEADLOCK FALSE
