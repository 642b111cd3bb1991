\* more clients than stream processors, so that connections wait for one; a
\* bitmap of five bits, so that searches start, wrap and end anywhere
CONSTANTS
    Processors = {p1, p2, p3}
    MaxStarts = 2
    MaxClients = 5
    Size = 5
SPECIFICATION MCSpec
INVARIANTS
    GivesUpIffFull
    ActiveProcessorsRun
    StopEventTruthful
    StoppedMeansStopped
PROPERTY StopEndsUnlessCrowded
