SPECIFICATION FairSpec
CONSTANTS
    COUNT = 5
    Windows = {0, 1, 2, 3, 6}
    MSGSIZE = 4
    BUFFER_SIZE = 2
INVARIANTS
    InQueueTruthful
    Reckoning
PROPERTIES
    NothingLost
    RepliesNumbered
    Finishes
CHECK_DEADLOCK FALSE
