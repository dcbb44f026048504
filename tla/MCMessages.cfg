SPECIFICATION Spec
CONSTANTS
    p1 = p1
    p2 = p2
    p3 = p3
    q1 = q1
    q2 = q2
    Procs = {p1, p2, p3}
    Queues = {q1, q2}
    Requests <- McRequests
    Limits <- McLimits
    MSGTQL = 2
    MSGSEG = 3
    MSGSSZ = 2
    MSGMNB = 3
    MaxSeq = 1
    MAPSLOTS = 3
SYMMETRY Symmetry
INVARIANTS
    TypeOK
    PoolAccounted
    SleepersBlocked
PROPERTIES
    ImplementsMessageQueues
