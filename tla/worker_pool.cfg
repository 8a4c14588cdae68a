\* Two workers on one queue, under fair scheduling.  The engine never fails and the
\* process never dies.
SPECIFICATION FairSpec
CONSTANTS
    w1 = w1
    w2 = w2
    Workers = {w1, w2}
    MaxPos = 2
    MaxTs = 1
    MaxQueueSize = 1
    MAX_RETRIES <- NoRetries
    MaxCrashes = 0
    NoBatch = NoBatch
INVARIANTS
    AckedWritten
    NoBatchUntracked
    CounterNeverLeaks
PROPERTIES
    NoOvertaking
    EventuallyAcked
    EventuallyQuiescent
\* A fatal error ends the schedule of a worker: the pipeline really stops.
CHECK_DEADLOCK FALSE
