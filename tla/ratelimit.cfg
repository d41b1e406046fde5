\* As many clients as the limit allows; a window of three ticks, stamps one tick late.
CONSTANTS
    c1 = c1
    c2 = c2
    Clients = {c1, c2}
    Limit = 2
    Window = 3
    KeyTTL = 6
    MaxDelay = 1
    MaxFaults = 1

SPECIFICATION FairSpec
INVARIANTS TypeOK RateBound
PROPERTIES RejectedOnlyWhenFull NeverLockedOut
