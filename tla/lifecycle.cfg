\* Two captures, a request next to the main thread, two records, one failure.
SPECIFICATION FairSpec
CONSTANTS
    main = main
    r1 = r1
    r2 = r2
    Requests = {main, r1}
    Main = main
    MaxCaptures = 2
    MaxAsked = 1
    MaxPos = 2
    MaxQueueSize = 1
    MAX_RETRIES = 0
    MaxFaults = 1
    NoBatch = NoBatch
INVARIANTS
    TypeOK
    AtLeastOnce
    StoppedForGood
    OneEngine
    FlagTells
PROPERTIES
    EngineComes
    EventuallyQuiescent
\* The requests end, and the source may fall silent.
CHECK_DEADLOCK FALSE
