CONSTANTS
    FileSize <- MCFileSize
    BufSize = 2
    Nobody = Nobody
    NSlots = 1
    Conns = {k1}
    Requests <- TimerRequests
    PeerMayClose = TRUE
    MaxAccepts = 2
SPECIFICATION Spec
INVARIANTS
    NoAnswerBeforeRequest
CHECK_DEADLOCK FALSE
