\* both servers, with failing clients, a killed main and a second run
SPECIFICATION LimitFairSpec
CONSTANTS
    c1 = c1
    c2 = c2
    c3 = c3
    Clients <- ThreeClients
    MaxConcurrency = 2
    MaxConnQueue = 1
    Failures = TRUE
    MaxRuns = 2
INVARIANTS
    TokensAccounted
    ServingBounded
PROPERTIES
    EveryClientServed
CHECK_DEADLOCK FALSE
