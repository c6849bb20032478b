\* Two processes of the engine decide one approval: a command starts that was rejected.
SPECIFICATION RemediationSpec
CONSTANTS
    Workers = {w1, w2}
    Ids = {a1}
    Plans = {p1}
    NoPlan = NoPlan
    AutoApproveMinor = FALSE
    TTL = 1
    MaxTime = 2
    Procs = {e1}
    Reqs = {r1}
    None = None
    DryRun = {}
    MaxAttempts = 2
    FailMax = 2
PROPERTIES
    StartsWhileApproved
CHECK_DEADLOCK FALSE
