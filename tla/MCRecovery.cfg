SPECIFICATION RecoverySpec
CONSTANTS
    b1 = b1
    b2 = b2
    NULL = NULL
    Blocks <- MCBlocks
    NameBlocks <- MCNameBlocks
    SendTimeout = 1
    KeepAlive = 0
    ReconnectTimeout = 0
    QueueCap = 1
    DnsTable = 1
    Segments <- MCSegments
PROPERTIES NotStalledForever Reconnects Recovers
