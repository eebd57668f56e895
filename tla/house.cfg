CONSTANTS
    plain = plain
    chosen = chosen
    Word = 6
    Debounce = 1
    Hold = 3
    Quiet = 2
    MaxPass = 2
    BeginAt = 1
    BootEnd = 5
    Values <- MCValues
    Default = plain
    Pages = 2
    MaxWorn = 1
SPECIFICATION FairSpec
INVARIANTS UnsavedIsPending
PROPERTIES NotInBurst ObeysBlobStore HoldIsHeeded
