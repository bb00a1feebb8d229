SPECIFICATION Spec
CONSTANTS
    Settings <- LastRetrySettings
INVARIANTS
    NoEndPointIsMissed
CHECK_DEADLOCK FALSE
