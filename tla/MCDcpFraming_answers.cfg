SPECIFICATION Spec
CONSTANTS
    Payloads <- Data
    OtherPackets = {}
    AnswerData <- Answers
    MaxInt = 3
    MaxPacketSize = 4
    MaxWritten = 1
    MaxAnswers = 1
INVARIANTS
    LargeAnswersSkipped
CHECK_DEADLOCK FALSE
