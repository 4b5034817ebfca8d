SPECIFICATION MCSpec
CONSTANTS
    k1 = k1
    k2 = k2
    yes = yes
    no = no
    text = text
    a1 = a1
    a2 = a2
    a3 = a3
    b1 = b1
    b2 = b2
    Questions <- MCQuestions
    ValuesOf <- MCValuesOf
    Conditions <- MCConditions
    NoAnswer = NoAnswer
    Slots = {sl1, sl2}
    Toasts = {t1, t2, t3}
    MaxVisible = 2
    Sections <- MCSections
    Required = {a1, b1}
    NoSlot = NoSlot
    Jobs = {j1, j2}
    Entities = {x, y}
    Fetches = {f1, f2}
    Nothing = Nothing
    MaxMetrics = 5
    ClientBuffer = 3
    MaxBatch = 2
    RingSize = 3
    RequestsPerWindow = 2
CHECK_DEADLOCK FALSE
INVARIANTS
    
    ToastsAreSound
    PagesAreSound
    MetricsAreSound
PROPERTIES
    OneClauseMoves
    ToastsGo
