CONSTANTS
    FileSize <- MCFileSize
    BufSize = 2
    Nobody = Nobody
    NSlots = 2
    Conns = {k1, k2}
    Requests <- MCRequests
    PeerMayClose = FALSE
    MaxAccepts = 2
SPECIFICATION LiveSpec
INVARIANTS
    NoPacketRefused
    AnswersRequest
PROPERTIES
    NoTimerInFreedBlock
    SlotsReturned
CHECK_DEADLOCK FALSE
