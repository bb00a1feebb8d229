SPECIFICATION FairSpec
CONSTANTS
    Settings <- LiveSettings
PROPERTIES
    AllRead
    FinArrives
CHECK_DEADLOCK FALSE
