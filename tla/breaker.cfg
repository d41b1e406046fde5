\* Three goroutines, two failures open the breaker for two ticks.
CONSTANTS
    t1 = t1
    t2 = t2
    t3 = t3
    Threads = {t1, t2, t3}
    Threshold = 2
    Timeout = 2

SPECIFICATION FairSpec
INVARIANTS TypeOK FailuresMatchState
PROPERTIES OpenWindowHolds ImplementsAtomicBreaker Recovers Trips
