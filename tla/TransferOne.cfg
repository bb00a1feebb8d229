SPECIFICATION Spec
CONSTANTS
    c1 = c1  c2 = c2  s1 = s1  s2 = s2  p1 = p1  p2 = p2
    None = None
    NoFtps = NoFtps
    Conn = {c1}
    Session = {s1}
    SeqNum = {0, 1, 2}
    Duplicating = TRUE
    SessionOf <- OneSession
    Chunks <- ThreeChunks
    Careless = {}
    MaxBufferPackages = 2
    BufLen = 2
    MaxCancels = 1
    Ftps = {p1}
    RecvLens = {1, 2}
    MaxRecv = 2
INVARIANTS
    TypeOK
    BufferCounted
    AckedIsReceived
    AckedBytesKept
PROPERTIES
    ReleasedForGood
    ImplementsStream
CHECK_DEADLOCK FALSE
