\* server is asked over TCP; connect_cb must find its query.
SPECIFICATION Spec
CONSTANTS
    Requests <- TwoRequests
    Names <- MCNames
    Polluted <- MCPolluted
    ReqId <- TwoIds
    ReqName <- TwoNames
    Ids = {1, 2, 3, 4}
    Conns = {c1}
    QLIST_SIZE = 2
    QueryTtl = 2
    NULL = NULL
INVARIANTS
    ConnectFindsQuery
CHECK_DEADLOCK FALSE
