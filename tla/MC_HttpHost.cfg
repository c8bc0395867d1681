CONSTANTS
    FileSize <- MCFileSize
    BufSize = 2
    Nobody = Nobody
    NSlots = 1
    Conns = {k1}
    Requests <- ForeignRequests
    PeerMayClose = FALSE
    MaxAccepts = 1
SPECIFICATION Spec
INVARIANTS
    HostEnforced
CHECK_DEADLOCK FALSE
