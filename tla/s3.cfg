SPECIFICATION Spec
CONSTANTS
    Settings = 2
    Values = {v0, v1, outOfRange}
    Valid = {v0, v1}
    InitValue = v0
    Active = Active
    Led = Led
    QueueDepth = 2
    EventDepth = 1
    HasWebSocket = TRUE
    Preemptive = TRUE
    AtomicBlob = TRUE
    WriteMayFail = TRUE
    MaxRequests = 2
    MaxCuts = 0
INVARIANTS CommandsArrive EventsAreCounted
