\* no signal but the one the Server itself sends
SPECIFICATION Spec
CONSTANTS
    h1 = h1
    h2 = h2
    Handlers <- TwoHandlers
    BlockSize = 3
    LineBytes = 2
    Signals = FALSE
    MaxSource = 0
    MaxOld = 0
INVARIANTS
    NoneLeftWhenTold
CHECK_DEADLOCK FALSE
