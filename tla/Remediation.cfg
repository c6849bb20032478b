\* The deployed two processes of the approval engine: nothing runs that was not approved.
SPECIFICATION RemediationSpec
CONSTANTS
    Workers = {w1, w2}
    Ids = {a1}
    Plans = {p1}
    NoPlan = NoPlan
    AutoApproveMinor = TRUE
    TTL = 0
    MaxTime = 2
    Procs = {e1, e2}
    Reqs = {r1, r2}
    None = None
    DryRun = {e2}
    MaxAttempts = 2
    FailMax = 1
SYMMETRY Symmetry
INVARIANTS
    RunsOnlyApproved
    RecordsAreAnswers
\* The clock is bounded: the run may end with every call answered.
CHECK_DEADLOCK FALSE
