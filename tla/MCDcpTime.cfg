SPECIFICATION FairSpec
CONSTANTS
    OtherCommands <- SomeCommands
    MaxFaults = 2
    MaxEvents = 1
INVARIANTS
    FieldsShowTheirAnswers
PROPERTIES
    ComboFollowsServer
