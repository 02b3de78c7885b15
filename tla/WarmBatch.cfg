SPECIFICATION Spec
CONSTANTS
    l1 = l1
    l2 = l2
    Leads <- OneLead
    Modes = {"batch"}
    Offered <- BatchOne
    QueueSize = 1
    BatchSize = 1
    RetryMax = 1
    MaxAccepts = 1
    MaxRescans = 1
    MaxAnswers = 2
    MaxFaults <- OneFault
    MaxCrashes = 1
INVARIANT TypeOK
INVARIANT EventsAreTracked
INVARIANT BatchRestHoldsNothing
PROPERTY DoneIsFinal
CHECK_DEADLOCK FALSE
