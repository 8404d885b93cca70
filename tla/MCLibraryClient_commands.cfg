SPECIFICATION FairSpec
CONSTANTS
    FdLimit = 5
INVARIANTS
    CredentialsOfOneLogin
    WholeUnlessCut
PROPERTY
    CommandEnds
CHECK_DEADLOCK FALSE
