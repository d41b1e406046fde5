\* Two clients that never stop, a limit of one.
CONSTANTS
    c1 = c1
    c2 = c2
    Clients = {c1, c2}
    Limit = 1
    Window = 3
    KeyTTL = 6
    MaxDelay = 1
    MaxFaults = 0

SPECIFICATION FairSpec
PROPERTIES NeverLockedOut
