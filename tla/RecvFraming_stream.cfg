SPECIFICATION FairSpec
CONSTANTS
    BufferSize = 8
    BlankSize = 2
    HeaderLen = 2
    Frames <- FourFrames
    Scripts <- SomeScripts
    MaxFrames = 3
    MaxConnections = 2
CHECK_DEADLOCK FALSE
INVARIANTS
    TypeOK
    RoomIsFree
    FullIsTooLong
PROPERTIES
    FramingSpec
    FramesArrive
