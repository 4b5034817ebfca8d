SPECIFICATION SpecFirst
CONSTANTS
    NoDocument = NoDocument
    Undefined = Undefined
    Jobs = {j1, j2}
    Callers = {c1, c2}
    Workers = {w1, w2}
    Answers = {1, 2}
    Rests = {1}
    SentKeys = {"exportJobId"}
    RetryLimit = 1
    SendsFail = FALSE
    Operators = TRUE
    MaxMessages = 3
    MaxFaults = 1
CHECK_DEADLOCK FALSE
SYMMETRY WorkerSymmetry
CONSTRAINT EditsOrOperators
INVARIANTS
    TypeOK
    DoneHasDocument
    AnswersAreAsRequested
    QueuedIsPending
