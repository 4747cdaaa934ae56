\* One client and one connection to server.
SPECIFICATION Spec
CONSTANTS
    Clients = {k1}
    Upstreams = {u1}
    LISTEN = LISTEN
    WLIST_SIZE = 4
    NS_PACKETSZ = 3
    Sends <- MCSends
    Sigpipe = TRUE
    NULL = NULL
INVARIANTS
    WalkIsFresh
    TextAsSent
    DeafOnlyIfEarly
    SentInOrder
PROPERTIES
    ExchangeEnds
CHECK_DEADLOCK FALSE
