SPECIFICATION FairSpec
CONSTANTS
    s1 = s1
    s2 = s2
    o1 = o1
    o2 = o2
    NoPlayer = NoPlayer
    Sessions <- TwoSessions
    Players <- TwoObjects
    Max = 1
    Packets <- OnePacket
    MaxTime = 1
    Wrap = 3
    Wraps = TRUE
    MaxQueue = 1
PROPERTIES
    SweepExact
    
    
