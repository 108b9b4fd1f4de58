SPECIFICATION TermSpec
CONSTANTS
    n1 = n1
    n2 = n2
    NoName = NoName
    DeviceNames = {n1, n2}
    RawMessages = {}
    UserSnrs = {}
    MaxSnr = 2
    MaxCalls = 2
    MaxArrived = 2
    MaxStarts = 2
INVARIANTS
    WindowAgrees
    SettingsInUse
CHECK_DEADLOCK FALSE
