\* Questions and replies, whole and broken.
SPECIFICATION Spec
CONSTANTS
    Made <- MCMade
    NS_PACKETSZ = 2048
    CharIsSigned = TRUE
INVARIANTS
    ReadsInside
    ParsesTheMessage
    QuestionKept
CHECK_DEADLOCK FALSE
