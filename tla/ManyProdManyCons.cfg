\* many_prod_many_cons.c: safety, refinement and liveness
SPECIFICATION FairSpec
CONSTANTS
    p1 = p1
    p2 = p2
    c1 = c1
    c2 = c2
    Producers <- TwoProducers
    Consumers <- TwoConsumers
    BufferSize = 2
    MaxTransaction = 1
    ReportEvery = 2
    Modulus = 2
    WriteMutex = TRUE
    ReadMutex = TRUE
INVARIANTS
    SlotsAccounted
    IndexesAgree
    ElementsExclusive
    MoneyConserved
PROPERTIES
    ImplementsQueue
    EveryTransactionSettles
