SPECIFICATION FairSpec
CONSTANTS
    p1 = p1
    p2 = p2
    n1 = n1
    n2 = n2
    n3 = n3
    n4 = n4
    Producers <- OneProducer
    Nodes <- ThreeNodes
    Dummy = n1
    Null = Null
    MaxPut = 4
    MaxTake = 5
    Looks = TRUE
INVARIANTS
    TypeOK
    PeekFinds
    NothingOverlooked
PROPERTIES
    FifoSpec
    DequeueReturns
