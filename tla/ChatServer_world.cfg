SPECIFICATION Spec
CONSTANTS
    s1 = s1
    s2 = s2
    o1 = o1
    o2 = o2
    NoPlayer = NoPlayer
    Sessions <- TwoSessions
    Players <- TwoObjects
    Max = 3
    Packets <- WorldPackets
    MaxTime = 1
    Wrap = 1
    Wraps = FALSE
    MaxQueue = 2
SYMMETRY Symmetry
INVARIANTS
    TypeOK
    SectorsExact
    PlayersOwned
    ChatReachesAround
    
    NoLostWakeup
