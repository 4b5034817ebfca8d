SPECIFICATION FairSpecFirst
CONSTANTS
    NoDocument = NoDocument
    Undefined = Undefined
    Jobs = {j1, j2}
    Callers = {c1}
    Workers = {w1, w2}
    Answers = {1}
    Rests = {1}
    SentKeys = {"jobId", "exportJobId"}
    RetryLimit = 1
    SendsFail = TRUE
    Operators = FALSE
    MaxMessages = 2
    MaxFaults = 1
CHECK_DEADLOCK FALSE
PROPERTIES
    MessagesSettle
    SentIsDone
