SPECIFICATION Spec
CONSTANTS
    t1 = t1
    t2 = t2
    t3 = t3
    Threads <- ThreeThreads
    MaxBlocks = 3
    MaxOps = 5
    InitBlocks = 2
CHECK_DEADLOCK FALSE
SYMMETRY Symmetry
INVARIANTS
    TypeOK
    EnoughForAll
    ListIntact
PROPERTY
    PoolSpec
