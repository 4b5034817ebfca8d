SPECIFICATION Spec
CONSTANTS
    c1 = c1
    tpl = tpl
    Clauses = {c1}
    Templates = {tpl}
    VersionIds = {v1, v2}
    Users = {u1, u2}
    Requests = {r1}
    RefChoices <- RefsToFirst
    NoUser = NoUser
    NoVersion = NoVersion
    MaxEntries = 1
SYMMETRY FullSymmetry
CONSTRAINTS
    OneVersionEach
    CreatedFirst
INVARIANTS
    NoEntryLost
    
PROPERTIES
    ImplementsWorkflow
