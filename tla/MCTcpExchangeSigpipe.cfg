\* Peers may close or reset before or between the sends of a message; that must
\* not end the process.
SPECIFICATION Spec
CONSTANTS
    Clients = {k1}
    Upstreams = {u1}
    LISTEN = LISTEN
    WLIST_SIZE = 4
    NS_PACKETSZ = 3
    Sends <- OneEach
    Sigpipe = TRUE
    NULL = NULL
INVARIANTS
    PeerCannotKill
CHECK_DEADLOCK FALSE
