SPECIFICATION Spec
CONSTANTS
    Settings <- PeerCloseSettings
PROPERTIES
    PeacefulClose
CHECK_DEADLOCK FALSE
