\* three servers, two clients, two callers, three ADD_CLIENT messages
CONSTANTS
    BucketsCnt = 2
    BucketSize = 3
    UniformFactor = 2
    Keys = {1, 2, 3}
    Values = {w1, w2}
    NoValue = NoValue
    Hashes <- MCHashes
    Callers = {c1, c2}
    MaxTries = 2
    MaxAdds = 3
    MaxStarts = 2
SPECIFICATION FairSpec
INVARIANTS
    LookupCorrect
    RingTracksServers
    UsersKeepTheirClient
    AssertionsHold
    StoppedMeansStopped
PROPERTIES
    OnlyOwnKeysMove
    StopEnds
