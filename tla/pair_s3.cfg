CONSTANTS
    i1 = i1
    i2 = i2
    i3 = i3
    nobody = nobody
    Ids <- MCIds
    Nobody = nobody
    MaxClients = 2
    Wrap = 8
    Window = 2
    Preemptive = TRUE
    AtomicBlob = TRUE
    WriteMayFail = FALSE
    MaxUptime = 8
    MaxIdle = 5
    MaxPresses = 3
    MaxCuts = 1
SPECIFICATION Spec
SYMMETRY Symmetry
INVARIANTS OnePairPerPress HoldTakesEffect FlashIsTrue
