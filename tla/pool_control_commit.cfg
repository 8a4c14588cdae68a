\* Two workers: a parked batch is released twice, and a heartbeat passes a third one.
SPECIFICATION Spec
CONSTANTS
    w1 = w1
    w2 = w2
    Workers = {w1, w2}
    MaxPos = 3
    MaxTs = 1
    MaxQueueSize = 2
    MAX_RETRIES <- NoRetries
    MaxCrashes = 0
    NoBatch = NoBatch
INVARIANTS
    QuiescentIsWritten
CHECK_DEADLOCK FALSE
