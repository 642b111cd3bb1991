\* as many callers as streams, 2 * MaxStreams packets as in the code
CONSTANTS
    MaxStreams = 2
    MaxPackets = 4
    Callers = {c1, c2}
    MaxCalls = 3
    MaxConnections = 2
    MaxRequestPackets = 2
    MaxResponsePackets = 2
    MaxGarbage = 1
    ReadsTimeOut = TRUE
SPECIFICATION Spec
CONSTRAINT ShortWithFaultyServer
SYMMETRY CallerSymmetry
INVARIANTS
    StreamsHeldOnce
    StopEventTruthful
    AssertionsHold
    PacketsConserved
    PooledStreamsHoldNoData
    OwnDataOnly
    ResponsesHaveOwner
    NothingLeftUnflushed
PROPERTY ImplementsLifecycle
\* with so few packets everybody may wait for one for ever
CHECK_DEADLOCK FALSE
