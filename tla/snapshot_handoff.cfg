\* One table of two rows, which change while they are loaded, and a second run.
SPECIFICATION FairSpec
CONSTANTS
    t1 = t1
    Tables = {t1}
    Keys = {1, 2}
    Threads = 2
    NoRow = NoRow
    Nothing = Nothing
    MaxLsn = 2
    MaxRuns = 2
    MaxStops = 1
    MaxFlushes = 2
INVARIANTS
    TypeOK
    NeverBehind
PROPERTIES
    EventuallyExact
\* The source and the operator may stop.
CHECK_DEADLOCK FALSE
