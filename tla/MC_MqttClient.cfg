SPECIFICATION LiveSpec
CONSTANTS
    KeepAlive = 2
    SendTimeout = 2
    ReconnectTimeout = 1
    QueueLen = 3
    Relays = 1
    WifiMayDrop = FALSE
    ConnectMayFail = FALSE
INVARIANTS
    ConnectFirst
PROPERTIES
    DequeuedIsSent Retries
