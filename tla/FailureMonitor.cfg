SPECIFICATION Spec
CONSTANTS
    Addresses = {1, 2}
    Endpoints <- MCEndpoints
    Whole = 0
    Waiters = {w1}
    MaxAddresses = 1
    MaxFailed = 1
    Delay = 1
    Sustains <- MCSustains
    MaxAge = 1
INVARIANTS
    TypeOK
    RecordsKept
PROPERTIES
    FailedForMeansIt
    WaitsEnd
CHECK_DEADLOCK FALSE
