\* two callers, two starts, one failure of the connection
CONSTANTS
    Callers = {c1, c2}
    MaxTries = 3
    MaxStarts = 2
    MaxFailures = 1
    MaxCalls = 3
    EndlessCalls = FALSE
SPECIFICATION FairSpec
INVARIANTS
    StoppedMeansStopped
PROPERTIES
    StopEnds
    Reconnects
