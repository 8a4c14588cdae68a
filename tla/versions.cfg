\* Changes of a key, heartbeats and a snapshot, with a restart of either kind.
SPECIFICATION Spec
CONSTANTS
    HalfSecond = 1
    Multiplier = 4
    SEQUENCE_START = 8
    SEQUENCE_START_INITIAL = 4
    Snapshot = TRUE
    Heartbeats = TRUE
    MaxTime = 5
    MaxEvents = 3
    MaxRun = 3
    MaxRestarts = 1
INVARIANTS
    TypeOK
    OlderNeverOutranks
    LatestSurvives
\* The clock and the log end.
CHECK_DEADLOCK FALSE
