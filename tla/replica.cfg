\* Rows of two shapes that move, come and go, and an error anywhere.
SPECIFICATION Spec
CONSTANTS
    Keys = {k1, k2}
    Values = {v1, v2}
    Null = Null
    NoRow = NoRow
    Operations = {"c", "u", "d", "t"}
    BUFFER_MAX_RECORDS = 2
    MaxRecords = 4
    MaxFailures = 1
SYMMETRY Perms
INVARIANTS
    TypeOK
    ReplicaMatches
    NeverInvented
\* The source stops after MaxRecords changes.
CHECK_DEADLOCK FALSE
