\* files of up to seven bytes, and the logger with two handlers and signals
SPECIFICATION FairSpec
CONSTANTS
    h1 = h1
    h2 = h2
    Handlers <- TwoHandlers
    BlockSize = 3
    LineBytes = 2
    Signals = TRUE
    MaxSource = 7
    MaxOld = 2
INVARIANTS
    CopiedInOrder
    NothingLeftAtEnd
PROPERTIES
    LoopsEnd
CHECK_DEADLOCK FALSE
