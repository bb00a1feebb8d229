\* Two processes send the datagrams of their calls in any order.
SPECIFICATION CallsSpec
CONSTANTS
    Process = {p, q}
    Mixing = TRUE
    MaxFD = 1
    Addrs = {1}
    Sessions = {11}
    Lens = {0, 1}
    BufLen = 1
    MaxBuffer = 1
    MaxBytes = 1
INVARIANT
    NoAnswerTooMany
SYMMETRY Symmetry
VIEW Present
\* A daemon that called exit(), and one in the middle of a call, stop.
CHECK_DEADLOCK FALSE
