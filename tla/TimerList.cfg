SPECIFICATION FairSpec
CONSTANTS
    k1 = k1  k2 = k2  k3 = k3
    Keys = {k1, k2, k3}
    Durations = {1, 2, 3}
    MaxLate = 3
    MaxQueue = 1
INVARIANTS
    TypeOK
    DelaysExact
PROPERTIES
    OnTime
    ImplementsService
    TimersEnd
CHECK_DEADLOCK FALSE
