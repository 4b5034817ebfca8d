SPECIFICATION FairSpecFirst
CONSTANTS
    NoDocument = NoDocument
    Undefined = Undefined
    Jobs = {j1}
    Callers = {c1}
    Workers = {w1}
    Answers = {1}
    Rests = {1}
    SentKeys = {"jobId"}
    RetryLimit = 1
    SendsFail = FALSE
    Operators = FALSE
    MaxMessages = 1
    MaxFaults = 0
CHECK_DEADLOCK FALSE
PROPERTIES
    QueuedEnds
