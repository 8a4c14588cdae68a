\* Two workers: a newer batch is committed past an older one.
SPECIFICATION Spec
CONSTANTS
    w1 = w1
    w2 = w2
    Workers = {w1, w2}
    MaxPos = 2
    MaxTs = 1
    MaxQueueSize = 2
    MAX_RETRIES <- NoRetries
    MaxCrashes = 0
    NoBatch = NoBatch
INVARIANTS
    AtLeastOnce
CHECK_DEADLOCK FALSE
