SPECIFICATION TcpSpec
CONSTANTS
    SeqSpace = 32
    U16 = 16
    U8 = 8
    TCP_MSS <- MCMSS
    TCP_WND = 5
    TCP_SND_BUF <- MCSndBuf
    TCP_SND_QUEUELEN = 3
    Packets <- MCPackets
    ISS <- MCISS
    IssStep = 9
    TCP_MAXRTX = 2
    TCP_SYNMAXRTX = 2
    MaxFaults = 2
CHECK_DEADLOCK FALSE
INVARIANTS
    InOrder SenderInv ReceiverInv
PROPERTIES
    EdgeNeverRetreats
