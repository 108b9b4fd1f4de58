SPECIFICATION Spec
CONSTANTS
    s1 = s1
    s2 = s2
    s3 = s3
    n1 = n1
    n2 = n2
    hub = hub
    other = other
    Sockets = {s1, s2}
    NoSocket = NoSocket
    Names = {n1, n2, hub}
    Spaced = {}
    Words = {"full"}
    NullName = NullName
    NoName = NoName
    Absent = Absent
    DefaultServerName = hub
    ServerNames = {n2}
    StartFlags = {1}
    Traffic <- CommandTraffic
    MaxSent = 3
INVARIANTS
    AnswersPaired
PROPERTIES
    CommandAnswered
    DevInfoFindsDevices
