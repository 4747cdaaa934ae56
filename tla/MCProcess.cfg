\* From main to the end, with a long of 16 units.
SPECIFICATION Spec
CONSTANTS
    LINE_MAX = 8
    UserSize = 2
    AddrSize = 3
    PortSize = 2
    Inputs <- MCInputs
    SECOND = 2
    LongRange = 16
    ClockSteps <- TwoSteps
    MaxSets = 2
    Waits = {0, 1, 5}
INVARIANTS
    ConfAsWritten
    EndsAsTold
PROPERTIES
    SignalStops
    TicksGoOn
    TickNotEarly
CHECK_DEADLOCK FALSE
