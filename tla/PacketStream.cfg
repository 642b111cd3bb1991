\* a message of up to four packets, reads and writes that span three of them
CONSTANTS
    MaxPacketSize = 3
    MaxBytes = 10
    MaxLen = 7
SPECIFICATION FairSpec
INVARIANTS
    NothingBehind
PROPERTIES
    ImplementsByteStream
    ReadsEnd
