\* three methods, messages of up to three bytes from a foreign peer
CONSTANTS
    OctetBits = 2
    LongBits = 5
    WordBits = 3
    MaxArrayLength = 2
    CharLimit = 4
    MaxFiles = 4
    Methods <- MCMethods
    Arguments <- MCArguments
    ValuesOf <- MCValuesOf
    MessageLength = 3
    Readers = {r1, r2}
SPECIFICATION Spec
INVARIANTS
    RefsExact
    FilesMatchBlobs
    ParametersArrive
    ReceivedInRange
