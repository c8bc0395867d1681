CONSTANTS
    FileSize <- MCFileSize
    BufSize = 2
    Nobody = Nobody
    NSlots = 2
    Conns = {k1, k2}
    Requests <- TimerRequests
    PeerMayClose = TRUE
    MaxAccepts = 3
SPECIFICATION Spec
INVARIANTS
    SomethingWillCall
CHECK_DEADLOCK FALSE
SYMMETRY MCSymmetry
