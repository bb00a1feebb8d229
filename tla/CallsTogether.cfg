\* Two processes send the datagrams of their calls at the same time.
SPECIFICATION Spec
CONSTANTS
    Process = {p, q}
    Mixing = TRUE
    MaxFD = 1
    Addrs = {1}
    Sessions = {11}
    Lens = {0, 1, 2}
    BufLen = 1
    MaxBuffer = 1
    MaxBytes = 1
    BodyLen = 2
    Word = 4
    FileLists <- Lists
    MaxFlight = 2
    MaxFaults = 1
    TimerSeqs = {1, 2, 3}
    Seconds = {1, 3}
    MaxSlow = 2
    MaxWaiting = 1
INVARIANT
    OwedOne
CHECK_DEADLOCK FALSE
