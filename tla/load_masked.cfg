\* Whether a broken pipe fails the run.
SPECIFICATION Spec
CONSTANTS
    t1 = t1
    Tables = {t1}
    Keys = {1, 2}
    Threads = 1
    NoRow = NoRow
    Nothing = Nothing
    MaxLsn = 1
    MaxRuns = 1
    MaxStops = 0
    MaxFlushes = 0
INVARIANTS
    BrokenPipeFails
CHECK_DEADLOCK FALSE
