SPECIFICATION FairSpec
CONSTANTS
    n1 = n1
    NoName = NoName
    DeviceNames = {n1}
    RawMessages <- Forwarded
    UserSnrs = {2}
    MaxSnr = 3
    MaxCalls = 2
    MaxArrived = 2
INVARIANTS
    TypeOK
    TimerRunsWhenNeeded
    RegistersFirst
    SnrUnique
    ReceivedInOrder
PROPERTIES
    TimerStartsOnRequest
    AutoReconnects
    DisconnectHonoured
