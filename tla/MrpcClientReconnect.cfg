\* a caller that goes on calling
CONSTANTS
    Callers = {c1}
    MaxTries = 3
    MaxStarts = 1
    MaxFailures = 1
    MaxCalls = 0
    EndlessCalls = TRUE
SPECIFICATION FairSpec
PROPERTY Reconnects
