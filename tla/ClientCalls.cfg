\* more callers than streams, 2 * MaxStreams packets as in the code
CONSTANTS
    MaxStreams = 1
    MaxPackets = 2
    Callers = {c1, c2}
    MaxCalls = 3
    MaxConnections = 2
    MaxRequestPackets = 2
    MaxResponsePackets = 2
    MaxGarbage = 0
    ReadsTimeOut = TRUE
SPECIFICATION TimeoutSpec
PROPERTIES
    StopCompletesUnlessStarved
    CallsEndUnlessStarved
CHECK_DEADLOCK FALSE
