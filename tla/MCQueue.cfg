SPECIFICATION FairSpec
CONSTANTS
    Size = 7
    BufSize = 3
    Packets <- MCPackets
    Replies <- MCReplies
    MaxPuts = 4
INVARIANTS
    TypeOK
    BeginIsSet
PROPERTIES
    IsMsgFifo
    CallReturns
CHECK_DEADLOCK FALSE
