SPECIFICATION FairSpec
CONSTANTS
    l1 = l1
    l2 = l2
    Leads <- TwoLeads
    Modes = {"sync", "batch"}
    Offered <- TwoAndOne
    QueueSize = 1
    BatchSize = 2
    RetryMax = 2
    MaxAccepts = 1
    MaxRescans = 0
    MaxAnswers = 2
    MaxFaults <- TwoAndOneFaults
    MaxCrashes = 0
INVARIANT EventsAreTracked
PROPERTY DrainReturns
PROPERTY AcceptedIsSettled
CHECK_DEADLOCK FALSE
