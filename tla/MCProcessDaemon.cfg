\* sans -d
SPECIFICATION Spec
CONSTANTS
    LINE_MAX = 8
    UserSize = 2
    AddrSize = 3
    PortSize = 2
    Inputs <- NoFile
    SECOND = 2
    LongRange = 16
    ClockSteps <- TwoSteps
    MaxSets = 2
    Waits = {0, 1, 5}
INVARIANT SocketsAboveZero
CHECK_DEADLOCK FALSE
