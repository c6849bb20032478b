\* The windows that Koral.cfg has, and what the event store promises Gate 3.
SPECIFICATION KoralSpec
CONSTANTS
    Threads = {t1, t2}
    Watched <- Watched1
    NoDetector = NoDetector
    NumTrees = 2
    TreeSize = 2
    Shingle = 2
    Batches <- Batches1
    NaN = NaN
    Period = 2
    MinSamples = 3
    MaxCalls = 5
    Writers = {w1, w2}
    LabelSets <- LabelSets1
    FORBIDDEN = {"user_id"}
    REQUIRED_LABELS = {"namespace", "pod"}
    MAX_CARDINALITY = 1
    Pods = {p1}
    Rules = {attack, notice}
    Attack = {attack}
    TTL = 2
    Windows = {0, 1, 2}
    MaxNow = 4
    MaxOps = 4
SYMMETRY Symmetry
INVARIANTS
    GateSeesEveryAttack
\* The operations are bounded.
CHECK_DEADLOCK FALSE
