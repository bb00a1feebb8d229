SPECIFICATION FairSpec
CONSTANTS
    Settings <- ShortChainSettings
PROPERTIES
    AllRead
CHECK_DEADLOCK FALSE
