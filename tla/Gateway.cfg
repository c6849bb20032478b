SPECIFICATION Spec
CONSTANTS
    Procs = {p1, p2}
    Requests = {1, 2}
    Ips = {a, b}
    Keys = {k, l}
    Prefix <- Prefix1
    None = None
    Limit <- Limit1
    MaxWindow = 1
    MaxFaults = 1
SYMMETRY Symmetry
INVARIANTS
    WithinLimit
    CountersExpire
    AccountsAgree
\* Every request may be answered and every process killed.
CHECK_DEADLOCK FALSE
