SPECIFICATION Spec
CONSTANTS
    MaxXid = 6
    MaxLen = 8
    Base = 4
    DEFAULT_RPC_SZ = 26
    MaxArgs = 2
    MsPerSec = 3
    NsPerMs = 2
    IntMax = 31
    Timeouts = {0, 3, 10, 31}
    Slack = 3
    Lengths <- MCLengths
    NameChars = {1, 11}
    MaxName = 2
    DirInums = {1, 21, 12}
    MaxCreated = 3
    PageSize = 4
    Bytes = {1}
    MaxWrite = 2
    MaxOff = 4
    maxextent = 3
    SizeBits = 2
INVARIANTS
    ListIsSet
    HandlerGetsArguments CallerGetsResult
    TimeoutKept 
    ListsWhatWasCreated LookupFindsCreated ListingComplete
    
CHECK_DEADLOCK FALSE
