\* Two runs that may overlap, over two tables.
SPECIFICATION FairSpec
CONSTANTS
    a = a
    b = b
    t1 = t1
    t2 = t2
    Runs = {a, b}
    Tables = {t1, t2}
    Unread = Unread
    MaxLsn = 1
    MaxFaults = 2
INVARIANTS
    TypeOK
    NothingLeftPaused
    NoFalseAlarm
PROPERTIES
    PausesEnd
\* The runs end, and the source may fall silent.
CHECK_DEADLOCK FALSE
