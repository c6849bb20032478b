\* Two processes and two samples: of one id or of two, in one process or in two,
\* pushed out of a cache of one.  Three of the administrator's requests on two threads.
SPECIFICATION BackendSpec
CONSTANTS
    i1 = i1
    i2 = i2
    p1 = p1
    p2 = p2
    Workers = {w1, w2}
    Samples = {s1, s2}
    Keys = {i1, i2}
    Pods = {p1, p2}
    Pod <- Pod1
    Time <- Time1
    MaxCache = 1
    LoadLimit = 1
    MaxRestarts = 1
    NoRow = NoRow
    None = None
    u1 = u1
    u2 = u2
    e1 = e1
    e2 = e2
    k1 = k1
    k2 = k2
    k3 = k3
    t1 = t1
    t2 = t2
    n1 = n1
    c1 = c1
    c2 = c2
    x1 = x1
    x2 = x2
    Handlers = {h1, h2}
    Users = {u1, u2}
    Emails = {e1, e2}
    KeyHashes = {k1, k2, k3}
    Tenants = {t1, t2}
    Namespaces = {n1}
    Clusters = {c1, c2}
    Names = {x1, x2}
    Roles <- SomeRoles
    EnvAdmin = FALSE
    MaxRequests = 3
    NoEntry = NoEntry
    Null = Null
    Revoked = Revoked
    Users0 <- Users1
    Tenants0 <- Tenants1
    Spaces0 <- Spaces1
    Clusters0 <- Clusters1
INVARIANTS
    NoRowForgotten
    ToldInOrder
    CacheAgreesWithTable
    ReferencesHold
    AuditTellsTheTruth
PROPERTIES
    ExplanationKept
    EveryAnomalyExplained
    DeadKeysStayDead
    InactiveStaysInactive
\* Every sample may be dealt with; requests are bounded.
CHECK_DEADLOCK FALSE
