SPECIFICATION Spec
CONSTANTS
    Nicks = {"a"}
    NoNick = ""
    MaxConns = 1
    MaxReqs = 2
PROPERTY ListsAnswered
CHECK_DEADLOCK FALSE
