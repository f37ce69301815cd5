SPECIFICATION Spec
CONSTANTS
    b1 = b1
    b2 = b2
    NULL = NULL
    Blocks <- MCBlocks
    SendTimeout = 1
    KeepAlive = 1
    ReconnectTimeout = 1
    QueueCap = 1
    DnsTable = 1
    Segments <- MCSegments
INVARIANTS
    TypeOK
    NoLostWakeup
    SessionMatches
    RestsOffline
SYMMETRY Symmetry
