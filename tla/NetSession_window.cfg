SPECIFICATION Spec
CONSTANTS
    acc = acc
    w1 = w1
    w2 = w2
    c1 = c1
    c2 = c2
    Acceptor = acc
    NSlots = 1
    Workers <- TwoWorkers
    Callers <- OneCaller
    Batch = 1
    MaxSessions = 2
    MaxQueued = 1
    AssocFails = {}
    Quiet = FALSE
CHECK_DEADLOCK FALSE
PROPERTY
    IncToOneMeansRelease
