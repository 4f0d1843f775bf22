SPECIFICATION Spec
CONSTANTS
    Base = 8
    MaxLen = 3
    ByteXor <- BitXor
    FixKey = 2
CHECK_DEADLOCK FALSE
INVARIANTS
    RoundTrip
