SPECIFICATION FairSpec
CONSTANTS
    p1 = p1
    p2 = p2
    n1 = n1
    n2 = n2
    n3 = n3
    n4 = n4
    Producers <- TwoProducers
    Nodes <- ThreeNodes
    Dummy = n1
    Null = Null
    MaxPut = 3
    MaxTake = 3
    Looks = FALSE
CHECK_DEADLOCK FALSE
PROPERTIES
    DequeueReturns
