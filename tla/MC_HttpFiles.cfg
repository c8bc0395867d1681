CONSTANTS
    FileSize <- MCFileSize
    BufSize = 2
    Nobody = Nobody
    NSlots = 2
    Conns = {k1, k2, k3}
    Requests <- MCRequests
    PeerMayClose = TRUE
    MaxAccepts = 3
SPECIFICATION Spec
CHECK_DEADLOCK FALSE
SYMMETRY MCSymmetry
INVARIANTS
    PoolInv NoAnswerBeforeRequest AnswersRequest
PROPERTIES
    ParserKeepsSlot
