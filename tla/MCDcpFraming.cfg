SPECIFICATION FairSpec
CONSTANTS
    Payloads <- Data
    OtherPackets <- AnyPackets
    AnswerData <- Answers
    MaxInt = 3
    MaxPacketSize = 4
    MaxWritten = 3
    MaxAnswers = 1
INVARIANTS
    RefusedForSize
    ClientReadsWhole
PROPERTIES
    HubReadsPackets
    NothingHeldBack
CHECK_DEADLOCK FALSE
