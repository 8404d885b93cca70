SPECIFICATION FairSpec
CONSTANTS
    Names = {"a", "b"}
    MaxFiles = 2
    MaxSize = 4
    MAX_LEN = 2
    BUFFER_SIZE = 2
INVARIANTS
    PlacesAgree
    StopAndWait
    CopiesFaithful
PROPERTY
    Finishes
CHECK_DEADLOCK FALSE
