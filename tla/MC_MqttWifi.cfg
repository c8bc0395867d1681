SPECIFICATION Spec
CONSTANTS
    KeepAlive = 2
    SendTimeout = 2
    ReconnectTimeout = 1
    QueueLen = 3
    Relays = 1
    WifiMayDrop = TRUE
    ConnectMayFail = TRUE
INVARIANTS NoWakeupLost HandshakePending
