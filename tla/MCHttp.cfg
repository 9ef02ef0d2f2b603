CONSTANTS
    Lowered <- UpperWords
    Addresses <- AddressWords
    PlainWords <- Letters
    UintMax = 255
    MaxPrefix = 3
    p1 = p1
    p2 = p2
    p3 = p3
    Peers <- ThreePeers
    max_failures = 2
    window_sec = 2
    global_max = 3
    kSweepAt = 1
    kMaxTracked = 1
    Requests <- CrowdRequests
    Auth = TRUE
    Loopback = FALSE
    hostname <- Host
    allowed_hosts = {}
    cookie_name <- SessionCookie
    NewTokens = {}
    kMaxLimit = 5
    kMaxClients = 1
    MaxSeconds = 3
    kFirstByte = 1
    io_timeout = 2
    min_send_rate = 2
    ReqLen = 3
    RespLens = {1, 4}
    Room = 2
    MaxConns = 2
    MaxStarts = 2
SPECIFICATION WebSpec
INVARIANTS  RequestRight LoginsBounded TextRight
PROPERTIES DataNeedsSession StopReturns
