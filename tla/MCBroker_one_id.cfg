SPECIFICATION FairSpec
CONSTANTS
    a = a
    b = b
    none = none
    x = x
    y = y
    Ids <- OneId
    NoId = none
    Topics <- OneTopic
    MaxConns = 3
    MaxMsgs = 3
    MaxReqs = 1
    MayKill = FALSE
    MayExit = TRUE
INVARIANT KeptOnlyForAbsent
PROPERTIES
    ImplementsPubSub
    EveryConnectionAnswered
    EverythingHandled
CHECK_DEADLOCK FALSE
