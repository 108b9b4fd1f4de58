SPECIFICATION Spec
CONSTANTS
    Peers = {"a", "b"}
    MaxSends = 2
    MaxCommands = 1
    MaxLosses = 1
    Inputs <- AllInputs
    Destinations <- ThreeNames
    MinConnection = 2
INVARIANTS
    NothingLost
    SendsAll
PROPERTIES
    WaitKeepsItsWord
CHECK_DEADLOCK FALSE
