\* 2 * MaxStreams packets as in the code
CONSTANTS
    MaxStreams = 2
    Streams = {s1, s2}
    MaxPackets = 4
    MaxRequests = 2
    MaxConnections = 2
    MaxRequestPackets = 2
    MaxResponsePackets = 2
    MaxGarbage = 1
    ReadsTimeOut = TRUE
SPECIFICATION Spec
CONSTRAINT ShortWithFaultyClient
SYMMETRY StreamSymmetry
INVARIANTS
    PacketsConserved
    StoppedMeansStopped
    RequestsDontMix
    DroppedOnlyInFlush
\* with so few packets everybody may wait for one for ever
CHECK_DEADLOCK FALSE
