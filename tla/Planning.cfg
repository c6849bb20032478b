\* The deployed two processes of the approval engine, behind the backend.
SPECIFICATION PlanningSpec
CONSTANTS
    Workers = {w1, w2}
    Ids = {a1}
    Plans = {p1, p2}
    NoPlan = NoPlan
    AutoApproveMinor = TRUE
    TTL = 0
    MaxTime = 2
    Handlers = {h1, h2}
    Evidence <- SomeEvidence
    Nobody = Nobody
SYMMETRY Symmetry
INVARIANTS
    PlansAreWhole
    AuditedRequestsAreOfPlans
    AuditedWasDecided
    RowTellsAnswers
PROPERTIES
    SettledIsFinal
    LifecycleSpec
\* The clock is bounded: the run may end with every approval decided.
CHECK_DEADLOCK FALSE
