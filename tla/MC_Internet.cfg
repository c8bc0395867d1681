SPECIFICATION LiveSpec
CONSTANTS
    TableSize = 2
    DnsServers = 2
    MaxRetries = 2
    SeqRange = 256
    Randoms = {0, 1}
    Callers = {"mqtt", "http1", "http2"}
    NameOf <- MCNameOf
    MaxQueries = 4
    NSlots = 3
    MaxChecks = 2
    Stations = {a, b, c}
    StartIp = 2
    EndIp = 3
    LeaseTimer = 2
    MaxStationNum = 2
    Addresses = {"a", "b"}
    LeaseTimes <- MCLeaseTimes
    TimerRange = 4
    TriesRange = 4
    RequestTries = 1
    RebindTries = 1
    REBOOT_TRIES = 2
    OutOfMemory = {FALSE}
    MaxEpochs = 2
    MaxXid = 4
CHECK_DEADLOCK FALSE
INVARIANTS
    DnsInv HttpClientInv LeaseInv DhcpInv
PROPERTIES
    RightAnswer WaitsEnd
