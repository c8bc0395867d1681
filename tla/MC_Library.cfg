SPECIFICATION LiveSpec
CONSTANTS
    Byte <- MCByte
    Size = 4
    QUEUE_BUFFER_SIZE = 11
    MaxLen = 3
    Payload <- MCPayload
    MQTT_BUF_SIZE = 140
    ID_BITS = 2
    MaxSegment = 2
    MaxSegments = 2
    Topics <- MCTopics
    Payloads <- MCPayloads
    SampleBytes = {0, 77, 255}
    MaxSample = 5
    FrameSizes <- MCFrameSizes
    HostParts <- MCHostParts
    MaxParts = 4
    LabelLens = {1, 5, 9, 12}
    localDomains <- MCLocalDomains
    Streams <- MCStreams
    SavedKeys <- MCSavedKeys
    MAX_HEADERS = 3
    RELAY_COUNT = 2
    Listeners = {"mqtt", "other"}
    MAX_RELAY_LISTENERS = 2
    MaxLosses = 1
    MaxPresses = 3
    Item = {a, b}
    NULL = NULL
    Node <- MCNode
    UART_FIFO_LEN = 2
    TX_ITEM_LEN = 2
    UART_TX_EMPTY_THRESH_VAL = 1
    RxFull = 1
    MaxReceived = 1
    MaxWritten <- MCMaxWritten
CHECK_DEADLOCK FALSE
INVARIANTS
    RingInv FormatsRight ParserInv RelayInv KeyInv BuffersInv
PROPERTIES
    ImplementsFifo ImplementsPackets ImplementsSequence BootRestores 
