SPECIFICATION Spec
CONSTANTS
    Settings <- SafeSettings
INVARIANTS
    TypeOK
    AckedIsReceived
    RoomIsKept
    WindowHonest
    BufferCovers
    LossCovers
    FixedOutstanding
    AssertionsHold
    OutstandingIsTimed
    StalledIsProbed
PROPERTIES
    StreamSpec
CHECK_DEADLOCK FALSE
