\* the four servers with two clients and two faults
SPECIFICATION FairSpec
CONSTANTS
    c1 = c1
    c2 = c2
    Clients <- TwoClients
    MaxConnQueue = 1
    MaxFaults = 2
INVARIANTS
    WelcomeNamesClient
PROPERTIES
    EveryClientAccepted
    AnswersArrive
CHECK_DEADLOCK FALSE
