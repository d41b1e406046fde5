\* Two clients, a limit of two, one row in flight; two days.
CONSTANTS
    c1 = c1
    c2 = c2
    Clients = {c1, c2}
    Limit = 2
    CacheTTL = 2
    MaxDelay = 1
    ViewPeriod = 1
    MaxPending = 1
    LastDay = 1
    MaxFaults = 1

SPECIFICATION Spec
INVARIANTS TypeOK RefusedOnlySpent
PROPERTIES LimitBites
SYMMETRY Symmetry
