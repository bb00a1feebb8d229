SPECIFICATION FairSpec
CONSTANTS
    c1 = c1  c2 = c2  s1 = s1  s2 = s2  p1 = p1  p2 = p2
    None = None
    NoFtps = NoFtps
    Conn = {c1}
    Session = {s1}
    SeqNum = {0, 1}
    Duplicating = FALSE
    SessionOf <- OneSession
    Chunks <- TwoChunks
    Careless = {}
    MaxBufferPackages = 1
    BufLen = 3
    MaxCancels = 1
    Ftps = {p1}
    RecvLens = {3}
    MaxRecv = 3
PROPERTIES
    RecvPrompt
CHECK_DEADLOCK FALSE
