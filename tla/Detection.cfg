SPECIFICATION DetectionSpec
CONSTANTS
    w1 = w1
    w2 = w2
    t1 = t1
    t2 = t2
    t3 = t3
    Series = {s1}
    HistoryKeys = {s1}
    Values = {0, 1, 2}
    HISTORY_SIZE = 2
    Z_THRESHOLD <- Z1
    MaxTime = 5
    Processes = {w1, w2}
    Threads = {t1, t2, t3}
    ProcessOf <- ProcessOf1
    Window = 1
    MinPoints = 1
    Events <- Events1
    MaxBatch = 4
    BatchWindow = 2
    MaxRequests = 3
    Attempts = 2
SYMMETRY Symmetry
INVARIANTS
    WindowKept
    EachInOneIncident
    LearnsWhatWasFlagged
\* The clock and the calls are bounded.
CHECK_DEADLOCK FALSE
