\* both programs started and killed at any moment
SPECIFICATION FIFOFairSpec
CONSTANTS
    Texts <- TwoTexts
    Lines <- AnyLines
    MaxRuns <- ThreeRuns
    MaxKills = 2
INVARIANTS
    FIFOsRemoved
PROPERTIES
    AnswersAreEchoes
    ClientGetsThrough
    QuitEndsEcho
    TextsAnswered
CHECK_DEADLOCK FALSE
