\* Every message of up to six bytes, from every offset.
SPECIFICATION Spec
CONSTANTS
    Bytes <- MCBytes
    MaxLen = 6
    DstSize = 4
INVARIANTS
    StaysInside
    UnpacksTheName
PROPERTIES
    Ends
CHECK_DEADLOCK FALSE
