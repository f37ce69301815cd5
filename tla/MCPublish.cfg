CONSTANTS
    Samples = 4
    Sums = {0, 37}
    Multiplier <- MCMultiplier
    Uint16 = 65536
    Heap = 2
    BufLen = 132
    IdMod = 4
    Topics <- MCTopics
    Payloads <- MCPayloads
    Names <- MCNames
    KeepAlives = {120, 300}
SPECIFICATION PublishSpec
INVARIANTS TypeOK ShowsOwnInput Decodes AnswersItsId IdsFresh ConnectParses
