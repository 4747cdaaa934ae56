\* The answer of server may come in pieces; it must be handed over.
SPECIFICATION Spec
CONSTANTS
    Clients = {k1}
    Upstreams = {u1}
    LISTEN = LISTEN
    WLIST_SIZE = 4
    NS_PACKETSZ = 3
    Sends <- OneEach
    Sigpipe = TRUE
    NULL = NULL
INVARIANTS
    ReadIsHandedOver
CHECK_DEADLOCK FALSE
