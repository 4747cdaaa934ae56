\* server is asked over TCP or SOCKS5, or over UDP (-u).
SPECIFICATION FairSpec
CONSTANTS
    Requests <- TwoRequests
    Names <- MCNames
    Polluted <- MCPolluted
    ReqId <- TwoIds
    ReqName <- TwoNames
    Ids = {1, 2, 3, 4}
    Conns = {c1}
    QLIST_SIZE = 2
    QueryTtl = 2
    NULL = NULL
INVARIANTS
    TypeOK
    AnsweredOnce
    PendingOnce
    IdsApart
    RightAnswer
    RoutedByVerdict
    CacheSound
    OrphanOnlyByTimeout
PROPERTIES
    ImplementsForwarder
    EventuallySettled
CHECK_DEADLOCK FALSE
