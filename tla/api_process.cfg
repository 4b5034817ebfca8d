SPECIFICATION MCSpec
CONSTANTS
    Ids = {i1, i2}
    Emails = {e1, e2}
    Roles = {editor, user}
    editor = editor
    Callers = {q1, q2}
    Patches <- MCPatches
    Null = Null
    ann = ann
    bob = bob
    s1 = s1
    s2 = s2
    default = default
    People = {ann, bob}
    Sessions = {s1, s2, default}
    SessionsOf <- MCSessionsOf
    Divided = {s2}
    IdleTimeout = 1
    CleanupInterval = 2
    MaxSessions = 1
    Untracked = Untracked
    Clients = {d1, d2}
    WindowLength = 3
    MaxRequests = 2
    PruneInterval = 2
    NoEntry = NoEntry
    c1 = c1
    c2 = c2
    t1 = t1
    Catalogue <- MCCatalogue
    PageSize = 1
    MaxChange = 3
    Reindexers = {r1, r2}
    y1 = y1
    StyleIds = {y1, y2}
    LogoKeys = {k1, k2}
    Url = Url
    NoLogo = NoLogo
    NoStyle = NoStyle
    Uploads = {u1, u2}
    nda = nda
    rent = rent
    Titles = {nda, rent}
    Files <- MCFiles
    Importers = {m1, m2}
    Hand = Hand
    EventTypes = {created, published}
    Handlers = {h1}
    Audit = Audit
    Publications = {p1, p2}
SYMMETRY Symmetric
CHECK_DEADLOCK FALSE
INVARIANTS
    UsersAreSound
    SessionsAreSound
    LimiterIsSound
    IndexIsSound
    LogosAreSound
    ImportsAreSound
    EventsAreSound
