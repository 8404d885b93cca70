SPECIFICATION FairSpec
CONSTANTS
    Nicks = {"a", "b"}
    NoNick = ""
    MaxConns = 3
    MaxReqs = 2
INVARIANTS
    SessionTablesAgree
    SocketIdentified
    DeliveredToNumber
PROPERTY WatchedServed
CHECK_DEADLOCK FALSE
