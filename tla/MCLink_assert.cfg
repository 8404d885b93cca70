SPECIFICATION Spec
CONSTANTS
    BUFFER_SIZE = 1
    serialization_delay = 1
    delay = 1
    Loss = FALSE
    Corrupt = TRUE
    MaxSent1 = 4
    MaxSent2 = 2
    FreeTime = 1
INVARIANT
    AssertionsHold
CHECK_DEADLOCK FALSE
