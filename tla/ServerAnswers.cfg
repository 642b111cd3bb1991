\* 2 * MaxStreams packets as in the code; nobody waits for a timeout
CONSTANTS
    MaxStreams = 2
    Streams = {s1, s2}
    MaxPackets = 4
    MaxRequests = 2
    MaxConnections = 1
    MaxRequestPackets = 1
    MaxResponsePackets = 2
    MaxGarbage = 0
    ReadsTimeOut = FALSE
SPECIFICATION FairSpec
INVARIANT ResponsesMatch
PROPERTIES
    StopCompletesUnlessStarved
    RequestsAnswered
CHECK_DEADLOCK FALSE
