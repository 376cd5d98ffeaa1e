SPECIFICATION FairSpec
CONSTANTS
    MaxTokens = 7
    OwnAddress = "own"
    HeaderSize = 2
    DataSizes = {0, 2, 15}
    TimeOut = 2
    Retries = 1
    Burst = 2
    AnyLength = 3
    MaxDepth = 2
    Keys = {"Address", "Type", "Event"}
INVARIANTS TypeOK MessageIsFramed WaitIsBounded LookAheadIsParsed AnsweredByMeaning
PROPERTY ThreadEnds
