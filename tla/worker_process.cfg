SPECIFICATION FairSpec
CONSTANTS
    small = small
    huge = huge
    Files <- MCFiles
    FileSize <- MCFileSize
    TemplateVersions = {v1, v2, v3}
    MaxCapacity = 2
    MemoryLimit = 3
    Ttl = 1
    MinConcurrency = 1
    MaxConcurrency = 3
    Cooldown = 2
    Configured = {0, 2, 5}
    Never = Never
    Current = Current
    Polls = {p1, p2}
CHECK_DEADLOCK FALSE
CONSTRAINT OneAtATime
INVARIANTS
    CacheIsSound
PROPERTIES
    OneStepPerCooldown
    EvictsLeastRecent
    ScalesWithTheQueue
