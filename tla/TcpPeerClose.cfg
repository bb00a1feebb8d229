SPECIFICATION Spec
CONSTANTS
    Settings <- PeerCloseSettings
INVARIANTS
    PeerCloseExpected
CHECK_DEADLOCK FALSE
