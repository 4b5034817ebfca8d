SPECIFICATION SpecPublished
CONSTANTS
    a = a
    b = b
    tpl = tpl
    a1 = a1
    a2 = a2
    b1 = b1
    t1 = t1
    q1 = q1
    q2 = q2
    Clauses = {a, b}
    Templates = {tpl}
    VersionIds = {a1, a2, b1, t1}
    Owner <- MCOwner
    Slots <- MCSlots
    Rules <- MCRules
    Questions = {q1, q2}
    Values = {yes}
    Requests = {r1, r2}
    RowSecurity = TRUE
    NoVersion = NoVersion
    Unset = Unset
CHECK_DEADLOCK FALSE
SYMMETRY RequestSymmetry
INVARIANTS
    TypeOK
    
    VerdictIsExplained
    NoAnswerLost
    ValidatedVerdictHolds
PROPERTIES
    CompletedIsFinal
