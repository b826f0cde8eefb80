\* both programs, two lines from each user and one fault
SPECIFICATION FairSpec
CONSTANTS
    MaxLines = 2
    MaxFaults = 1
INVARIANTS
    NothingLostBeforeBye
    FailsOnlyAfterBye
PROPERTIES
    StopsWhenTold
    PeerLearns
CHECK_DEADLOCK FALSE
