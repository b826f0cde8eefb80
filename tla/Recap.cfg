\* riepilogo.c, with failing calls and a killed run before this one
SPECIFICATION FairSpec
CONSTANTS
    N = 2
    M = 2
    MaxRounds = 2
    MaxRestarts = 1
    MaxFailures = 1
INVARIANTS
    StartTogether
    CriticalExclusive
    StatsComplete
PROPERTIES
    MainFinishes
CHECK_DEADLOCK FALSE
