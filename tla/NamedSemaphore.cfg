\* server.c and two client.c, killed and restarted, and a process of
\* scheduler_solution.c; one resource each
SPECIFICATION FairSpec
CONSTANTS
    c1 = c1
    c2 = c2
    Clients <- TwoClients
    NumResources = 1
    ThreadBurst = 2
    NumTasks = 3
    MaxBursts = 1
    MaxRuns = 2
    MaxHeaps = 1
    MaxKills = 1
INVARIANTS
    ResourcesAccounted
PROPERTIES
    ThreadsFinish
CHECK_DEADLOCK FALSE
