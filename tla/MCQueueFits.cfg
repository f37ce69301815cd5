SPECIFICATION Spec
CONSTANTS
    Size = 7
    BufSize = 3
    Packets <- MCFitting
    Replies <- MCReplies
    MaxPuts = 4
INVARIANT
    FittingPublishSucceeds
CHECK_DEADLOCK FALSE
