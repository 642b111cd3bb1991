\* the 2 * MaxStreams packets of the code and a correct client
CONSTANTS
    MaxStreams = 2
    Streams = {s1, s2}
    MaxPackets = 4
    MaxRequests = 3
    MaxConnections = 1
    MaxRequestPackets = 1
    MaxResponsePackets = 2
    MaxGarbage = 0
    ReadsTimeOut = FALSE
SPECIFICATION Spec
INVARIANT CorrectClientNotDropped
CHECK_DEADLOCK FALSE
