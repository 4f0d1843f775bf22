SPECIFICATION Spec
CONSTANTS
    s1 = s1
    s2 = s2
    m1 = m1
    m2 = m2
    m3 = m3
    m4 = m4
    w1 = w1
    w2 = w2
    Sessions <- TwoSessions
    Messages <- FourMessages
    Workers <- TwoWorkers
    Update = update
    Null = Null
    Batch = 2
    MaxReceives = 4
CHECK_DEADLOCK FALSE
SYMMETRY Symmetry
INVARIANTS
    TypeOK
    RefExact
    WireIntact
    MessagesComeBack
