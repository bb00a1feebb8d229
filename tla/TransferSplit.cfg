SPECIFICATION Spec
CONSTANTS
    c1 = c1  c2 = c2  s1 = s1  s2 = s2  p1 = p1  p2 = p2
    None = None
    NoFtps = NoFtps
    Conn = {c1}
    Session = {s1}
    SeqNum = {0, 1}
    Duplicating = TRUE
    SessionOf <- OneSession
    Chunks <- WideChunks
    Careless = {}
    MaxBufferPackages = 2
    BufLen = 2
    MaxCancels = 1
    Ftps = {p1}
    RecvLens = {1}
    MaxRecv = 2
INVARIANTS
    StreamIntact
CHECK_DEADLOCK FALSE
