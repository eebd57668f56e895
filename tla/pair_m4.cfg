CONSTANTS
    i1 = i1
    i2 = i2
    i3 = i3
    nobody = nobody
    Ids <- MCIds
    Nobody = nobody
    MaxClients = 2
    Wrap = 8
    Window = 2
    Preemptive = FALSE
    AtomicBlob = FALSE
    WriteMayFail = FALSE
    MaxUptime = 18
    MaxIdle = 5
    MaxPresses = 4
    MaxCuts = 0
SPECIFICATION FairSpec
INVARIANTS OpenExactly
PROPERTIES HoldWorks
