\* Two starts of tasks over two topics of one partition each.
SPECIFICATION Spec
CONSTANTS
    p1 = p1
    p2 = p2
    c1 = c1
    c2 = c2
    t1 = t1
    t2 = t2
    Tasks = {t1, t2}
    Partitions = {p1, p2}
    Topics = {c1, c2}
    TopicOf <- TwoTopics
    LogEnd <- ThreeAndOne
    Tombstones <- OneTombstone
    Policies = {"off", "old"}
    MaxQueueSize = 1
    MaxMoves = 3
    None = None
SYMMETRY Perms
INVARIANTS
    TypeOK
    CommittedIsInserted
PROPERTIES
    CommitAdvances
    ImplementsDelivery
\* Every task may be stopped.
CHECK_DEADLOCK FALSE
