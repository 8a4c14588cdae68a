\* One worker, with failures of every kind and a crash.
SPECIFICATION FairSpec
CONSTANTS
    w1 = w1
    Workers = {w1}
    MaxPos = 3
    MaxTs = 1
    MaxQueueSize = 2
    MAX_RETRIES = 0
    MaxCrashes = 1
    NoBatch = NoBatch
INVARIANTS
    TypeOK
    AtLeastOnce
PROPERTIES
    ImplementsDelivery
    EventuallyAcked
    EventuallyQuiescent
\* A fatal error ends the schedule of the worker: the pipeline really stops.
CHECK_DEADLOCK FALSE
