SPECIFICATION FairSpec
CONSTANTS
    Settings <- LostAckSettings
PROPERTIES
    LostAckIsRepaired
CHECK_DEADLOCK FALSE
