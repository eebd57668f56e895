SPECIFICATION FairSpec
CONSTANTS
    Settings = 2
    Values = {v0, v1, outOfRange}
    Valid = {v0, v1}
    InitValue = v0
    Active = Active
    Led = Led
    QueueDepth = 2
    EventDepth = 4
    HasWebSocket = FALSE
    Preemptive = TRUE
    AtomicBlob = TRUE
    WriteMayFail = FALSE
    MaxRequests = 2
    MaxCuts = 1
INVARIANTS
    LandsWhole
    UntouchedIsSafe
PROPERTIES
    ObeysOneRule
    PromisesKept
    ToldInTheEnd
