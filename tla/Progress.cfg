SPECIFICATION ProgressSpec
CONSTANTS
    w1 = w1
    s1 = s1
    Workers = {w1, w2}
    Sources = {s1, s2}
    Rounds = {1}
    TaskBuffer = 1
    MaxEmits = 1
    Drivers = {"collect", "ingest"}
INVARIANT TypeOK
INVARIANT NoSendOnClosed
INVARIANT ReturnAccountsForEveryItem
PROPERTY ReturnsUnlessContextEnds
PROPERTY RoundsComplete
PROPERTY ShutdownReturns
PROPERTY OnceExits
CHECK_DEADLOCK FALSE
