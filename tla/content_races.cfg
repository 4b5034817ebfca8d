SPECIFICATION SpecCreated
CONSTANTS
    c1 = c1
    tpl = tpl
    Clauses = {c1}
    Templates = {}
    VersionIds = {v1, v2}
    Users = {u1, u2}
    Requests = {r1, r2}
    RefChoices <- NoRefs
    NoUser = NoUser
    NoVersion = NoVersion
    MaxEntries = 1
SYMMETRY FullSymmetry
CONSTRAINT EntriesOfOneVersion
INVARIANTS
    VersionNumbersContiguous
    PointerWasPublished
    FourEyesUntilPublished
    PublishedStatusIsEarned
    AuditedStepsHappened
