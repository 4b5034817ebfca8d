SPECIFICATION FairSpec
CONSTANTS
    e1 = e1
    e2 = e2
    e3 = e3
    e4 = e4
    Events <- MCEvents
    Unwritable <- MCUnwritable
    Flushes = {f1, f2}
    QueueMax = 1
    BatchMax = 2
CHECK_DEADLOCK FALSE
INVARIANTS
    TypeOK
    Accounted
PROPERTIES
    RecordedOrGone
