\* Two workers, and a log of three rows or DDLs in any order.  A DDL may name the
\* table or not.  The rows go to another database than that of the source.
SPECIFICATION FairSpec
CONSTANTS
    w1 = w1
    w2 = w2
    db = db
    history = history
    t = t
    Workers = {w1, w2}
    MaxPos = 3
    MaxDDLs = 1
    MaxQueueSize = 1
    MAX_RETRIES = 2
    RetryDDL = TRUE
    Databases = {db, history}
    Tables = {t}
    SourceDatabase = db
    TopicTable = t
    DdlDatabases = {db}
    NamedTables = {{}, {t}}
    OverrideMap <- Overridden
    HistoryEnabled = FALSE
    HistoryDatabase = history
INVARIANTS
    TypeOK
    DdlAfterItsRows
    FreshWriter
PROPERTIES
    PauseEnds
\* The source may stop sending.
CHECK_DEADLOCK FALSE
