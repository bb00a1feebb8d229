SPECIFICATION Spec
CONSTANTS
    c1 = c1  c2 = c2  s1 = s1  s2 = s2  p1 = p1  p2 = p2
    None = None
    NoFtps = NoFtps
    Conn = {c1, c2}
    Session = {s1, s2}
    SeqNum = {0}
    Duplicating = TRUE
    SessionOf <- TwoSessions
    Chunks <- MisfitChunks
    Careless = {c1, c2}
    MaxBufferPackages = 1
    BufLen = 2
    MaxCancels = 1
    Ftps = {p1, p2}
    RecvLens = {0, 1, 3}
    MaxRecv = 2
INVARIANTS
    TimerCovers
    RepliesOwed
    ReassemblyClean
    StartIsFresh
CHECK_DEADLOCK FALSE
