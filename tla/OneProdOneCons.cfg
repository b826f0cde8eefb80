\* one_prod_one_cons.c: the programs without mutexes
SPECIFICATION FairSpec
CONSTANTS
    p1 = p1
    p2 = p2
    c1 = c1
    c2 = c2
    Producers <- OneProducer
    Consumers <- OneConsumer
    BufferSize = 4
    MaxTransaction = 1
    ReportEvery = 3
    Modulus = 3
    WriteMutex = FALSE
    ReadMutex = FALSE
INVARIANTS
    ReportSpans
PROPERTIES
    ImplementsQueue
    EveryTransactionSettles
