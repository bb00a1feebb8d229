SPECIFICATION FairSpec
CONSTANTS
    Settings <- FinAckSettings
PROPERTIES
    FinIsAnswered
CHECK_DEADLOCK FALSE
