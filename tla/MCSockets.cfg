\* Two descriptors for two clients and for the connections to server.
SPECIFICATION SocketsSpec
CONSTANTS
    Requests <- ThreeRequests
    Clients <- TwoClients
    Names <- MCNames
    Polluted <- MCNames
    ReqId <- SameId
    ReqName <- SameName
    Ids = {1, 2}
    Conns = {1, 2}
    QLIST_SIZE = 2
    QueryTtl = 1
    NULL = NULL
INVARIANTS
    AnswerToAsker
    LeaksOnlyIfDropped
    CacheSound
PROPERTIES
    ClientsSettled
CHECK_DEADLOCK FALSE
