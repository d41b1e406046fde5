\* Two identical requests; the provider fails and there is no fallback.
CONSTANTS
    r1 = r1
    r2 = r2
    r3 = r3
    k1 = k1
    k2 = k2
    h1 = h1
    h2 = h2
    Requests = {r1, r2}
    Keys = {k1, k2}
    Hosts = {h1, h2}
    Key <- MCKey
    Host <- MCHost
    FallbackKey <- MCNoFallback
    Similar <- MCSimilar
    NoKey = NoKey
    NoRequest = NoRequest
    LockTTL = 2
    WaitTimeout = 3
    Faults = {"provider"}

SPECIFICATION Spec
INVARIANTS FailedOwnerReleasesLock

CHECK_DEADLOCK FALSE
