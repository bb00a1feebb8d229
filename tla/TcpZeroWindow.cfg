SPECIFICATION Spec
CONSTANTS
    Settings <- ZeroWindowSettings
INVARIANTS
    TimedUnlessEmpty
CHECK_DEADLOCK FALSE
