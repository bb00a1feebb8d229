SPECIFICATION FairSpec
CONSTANTS
    Settings <- ShutdownSettings
PROPERTIES
    FinWhenEmpty
CHECK_DEADLOCK FALSE
