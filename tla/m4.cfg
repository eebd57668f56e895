SPECIFICATION FairSpec
CONSTANTS
    Settings = 2
    Values = {v0, v1, outOfRange}
    Valid = {v0, v1}
    InitValue = v0
    Active = Active
    Led = Led
    QueueDepth = 2
    EventDepth = 1
    HasWebSocket = FALSE
    Preemptive = FALSE
    AtomicBlob = FALSE
    WriteMayFail = FALSE
    MaxRequests = 3
    MaxCuts = 1
INVARIANTS DirtyIsPending
PROPERTIES LoopKeepsUp
