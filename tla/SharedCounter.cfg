\* three threads that add three times, and a clock with seconds of four ticks
SPECIFICATION Spec
CONSTANTS
    N = 3
    M = 3
    V = 2
    Second = 4
    Millisecond = 2
    UIntRange = 2
    MaxTime = 7
INVARIANTS
    ArrayExact
    SharedBounds
    ElapsedExact
CHECK_DEADLOCK FALSE
