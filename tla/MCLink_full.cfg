SPECIFICATION FairSpec
CONSTANTS
    BUFFER_SIZE = 2
    serialization_delay = 2
    delay = 1
    Loss = FALSE
    Corrupt = TRUE
    MaxSent1 = 4
    MaxSent2 = 2
    FreeTime = 1
INVARIANTS
    TypeOK
    BufferBounded
    DequeueFindsMessage
    Paced
    WaitsOnlyWhenIdle
PROPERTIES
    ImplementsChannel
    EverythingLeaves
CHECK_DEADLOCK FALSE
