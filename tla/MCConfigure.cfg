CONSTANTS
    Forms <- MCForms
    Initial <- MCInitial
    MaxDrops = 1
    Tokens <- MCTokens
    MaxTokens = 7
    IntBound = 512
    HexDigits = 3
SPECIFICATION ConfigureSpec
INVARIANTS TypeOK StoresTheForm AnsweredOnce ParsesAddresses ResolvesNames AtohReads
PROPERTY Reopens
