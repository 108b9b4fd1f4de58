SPECIFICATION Spec
CONSTANTS
    n1 = n1
    NoName = NoName
    DeviceNames = {n1}
    RawMessages = {}
    UserSnrs = {}
    MaxSnr = 2
    MaxCalls = 1
    MaxArrived = 0
PROPERTIES
    NoReconnectAfterDisconnect
