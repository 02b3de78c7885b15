SPECIFICATION FairSpec
CONSTANTS
    l1 = l1
    l2 = l2
    Leads <- TwoLeads
    Modes = {"sync"}
    Offered <- SyncTwo
    QueueSize = 1
    BatchSize = 2
    RetryMax = 2
    MaxAccepts = 1
    MaxRescans = 0
    MaxAnswers = 2
    MaxFaults <- NoFaults
    MaxCrashes = 0
PROPERTY ShutdownDrainEnds
CHECK_DEADLOCK FALSE
