SPECIFICATION Spec
CONSTANTS
    Settings <- ShutdownSettings
PROPERTIES
    ShutdownStopsData
CHECK_DEADLOCK FALSE
