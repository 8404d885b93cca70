SPECIFICATION FairSpec
CONSTANTS
    Nicks = {"a"}
    NoNick = ""
    MaxConns = 2
    MaxReqs = 1
PROPERTY ActiveHeard
CHECK_DEADLOCK FALSE
