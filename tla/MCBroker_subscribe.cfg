SPECIFICATION Spec
CONSTANTS
    a = a
    b = b
    none = none
    x = x
    y = y
    Ids <- OneId
    NoId = none
    Topics <- OneTopic
    MaxConns = 1
    MaxMsgs = 1
    MaxReqs = 1
    MayKill = FALSE
    MayExit = FALSE
PROPERTY
    SubscribeTakesEffect
CHECK_DEADLOCK FALSE
