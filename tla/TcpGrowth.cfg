SPECIFICATION Spec
CONSTANTS
    Settings <- GrowthSettings
PROPERTIES
    OneSegmentPerAck
CHECK_DEADLOCK FALSE
