SPECIFICATION Spec
CONSTANTS
    a = a
    b = b
    none = none
    x = x
    y = y
    Ids <- TwoIds
    NoId = none
    Topics <- OneTopic
    MaxConns = 3
    MaxMsgs = 2
    MaxReqs = 2
    MayKill = TRUE
    MayExit = FALSE
SYMMETRY Symmetric
INVARIANTS
    TypeOK
    SessionTablesAgree
    SocketIdentified
    ScanNeverBlocks
    OneSubscriptionPerClient
PROPERTIES
    SubscriptionsChangeByRequest
    StepsImplementPubSub
CHECK_DEADLOCK FALSE
