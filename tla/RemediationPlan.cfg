\* The approval of one plan runs another.
SPECIFICATION RemediationSpec
CONSTANTS
    Workers = {w1}
    Ids = {a1}
    Plans = {p1, p2}
    NoPlan = NoPlan
    AutoApproveMinor = FALSE
    TTL = 1
    MaxTime = 2
    Procs = {e1}
    Reqs = {r1}
    None = None
    DryRun = {}
    MaxAttempts = 2
    FailMax = 2
INVARIANTS
    RunsTheApprovedPlan
CHECK_DEADLOCK FALSE
