SPECIFICATION Spec
CONSTANTS
    Settings <- InitialCwndSettings
PROPERTIES
    TimeoutReducesWindow
CHECK_DEADLOCK FALSE
