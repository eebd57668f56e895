CONSTANTS
    Cell <- MCCell
    MethodCap = 2
    TargetCap = 11
    AuthorizationCap = 10
    KeyCap = 2
    BodyCap = 2
    LengthLimit = 12
    Apps = 2
    Scripts <- MCScripts
    Frames <- MCFrames
    MaxFrames = 2
    LineCap = 17
    MaxHeaders = 3
    ReadTimeout = 2
    DrainTimeout = 1
    InboundCap = 16
SPECIFICATION FairSpec
INVARIANTS HandledAsSent NextIsServed FramesHeeded TerminatorFits
PROPERTIES NotEnumerable Answered
