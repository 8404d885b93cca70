SPECIFICATION Spec
CONSTANTS
    a = a
    b = b
    none = none
    x = x
    y = y
    Ids <- TwoIds
    NoId = none
    Topics <- OneTopic
    MaxConns = 3
    MaxMsgs = 2
    MaxReqs = 1
    MayKill = FALSE
    MayExit = FALSE
PROPERTY
    StoredReachReturning
CHECK_DEADLOCK FALSE
