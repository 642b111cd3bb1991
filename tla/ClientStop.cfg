\* the 2 * MaxStreams packets of the code; reads that wait time out
CONSTANTS
    MaxStreams = 2
    MaxPackets = 4
    Callers = {c1, c2}
    MaxCalls = 2
    MaxConnections = 1
    MaxRequestPackets = 1
    MaxResponsePackets = 2
    MaxGarbage = 0
    ReadsTimeOut = TRUE
SPECIFICATION TimeoutSpec
PROPERTY StopCompletes
CHECK_DEADLOCK FALSE
