\* A call through the proxy and a direct one, answers whole or in pieces.
SPECIFICATION Spec
CONSTANTS
    Calls <- MCCalls
    Socks5 <- MCSocks5
    NULL = NULL
INVARIANTS
    TypeOK
    NothingLeftBehind
    StateExpected
    StreamAligned
PROPERTIES
    ImplementsDialer
    CallbackComes
CHECK_DEADLOCK FALSE
