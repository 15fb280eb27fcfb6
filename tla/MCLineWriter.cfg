SPECIFICATION FairSpec
CONSTANTS
    MaxTokens = 3
    MaxString = 2
    MaxBytes = 7
    Doc <- MCDoc
    Scratch = 6
    Timeout = 2
    Cap = 2
INVARIANTS CompactKeepsTokens WireIsTheLine DeadlineHolds
PROPERTY WriteEnds
CHECK_DEADLOCK FALSE
