CONSTANTS
    TimeLimit = 6
    MsgLimit = 3
    BytesLimit = 4
    Sizes <- SmallSizes
    Delay = 1
SPECIFICATION FairSpec
INVARIANTS TypeOK BatchBounds AgeBound
PROPERTY BatchIsFlushed
