\* Two requests for k1 and one for k2, the hash k1 falls back to; providers and Redis fail.
CONSTANTS
    r1 = r1
    r2 = r2
    r3 = r3
    k1 = k1
    k2 = k2
    h1 = h1
    h2 = h2
    Requests = {r1, r2, r3}
    Keys = {k1, k2}
    Hosts = {h1, h2}
    Key <- MCMixedKey
    Host <- MCHost
    FallbackKey <- MCFallbackKey
    Similar <- MCSimilar
    NoKey = NoKey
    NoRequest = NoRequest
    LockTTL = 2
    WaitTimeout = 3
    Faults = {"provider", "redis"}

SPECIFICATION Spec
INVARIANTS TypeOK KeyIntegrity WaitOutlastsLock SingleOwner
PROPERTIES FillBeforeRelease ImplementsAnswerService
CHECK_DEADLOCK FALSE
