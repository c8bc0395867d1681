CONSTANTS
    FileSize <- MCFileSize
    BufSize = 2
    Nobody = Nobody
    Other = Other
    NSlots = 2
    Conns = {k1, k2}
    MaxPacket = 2
    MaxAccepts = 3
SPECIFICATION LiveSpec
CHECK_DEADLOCK FALSE
INVARIANTS
    WebSocketInv
PROPERTIES
    HandshakeFirst PacketsAsAsked DoneEnds
