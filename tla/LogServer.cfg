\* echo_server_mt_logger.c: two clients that may vanish
SPECIFICATION FairSpec
CONSTANTS
    c1 = c1
    c2 = c2
    Clients <- TwoClients
    LogBufferSize = 2
    MaxMessages = 1
    Failures = TRUE
INVARIANTS
    HeapExact
    NoneOverwritten
PROPERTIES
    LoggedInOrder
    ConsumedWhileUp
