SPECIFICATION Spec
CONSTANTS
    acc = acc
    w1 = w1
    w2 = w2
    c1 = c1
    c2 = c2
    Acceptor = acc
    NSlots = 1
    Workers <- TwoWorkers
    Callers <- TwoCallers
    Batch = 1
    MaxSessions = 2
    MaxQueued = 2
    AssocFails = {1}
    Quiet = TRUE
CHECK_DEADLOCK FALSE
SYMMETRY Symmetry
INVARIANTS
    TypeOK
    IndexPool
    SingleRelease
    
    HeldIsLive
    OneOverlapped
    FreeSlotIsClean
PROPERTY
    EventsSpec
