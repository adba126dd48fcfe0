SPECIFICATION FairSpec
CHECK_DEADLOCK FALSE
CONSTANTS
    MaxData = 4
    Limit = 2
    Window = 2
INVARIANTS
    TypeOK
    PatientEndGetsAll
    BacklogIsBounded
PROPERTIES
    ImplementsStream
    NoConnectionLeaks
