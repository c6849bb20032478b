\* The executor: one process (processes share nothing), three requests, the real
\* retry count.  The verification engine: one process, two calls about one
\* execution, falls that pass by share, by spread and by both.
SPECIFICATION EnginesSpec
CONSTANTS
    Procs = {e1}
    Reqs = {r1, r2, r3}
    None = None
    DryRun = {}
    MaxAttempts = 3
    FailMax = 2
    Workers = {w1}
    Execs = {x1}
    Calls = {v1, v2}
    Means = {0, 1, 3}
    Spreads = {0}
    NoData = NoData
    NoCall = NoCall
    SuccessPercent = 70
    ZTargetTenths = 15
INVARIANTS
    EachAwaitedOnce
    StartsOnlyIfGranted
    AnswerMatchesRuns
    ResolvedIsLower
    RowsAreOfLoggedExecutions
PROPERTIES
    EveryRequestAnswered
    EveryCallEnds
\* Every call of the verification engine may be over.
CHECK_DEADLOCK FALSE
