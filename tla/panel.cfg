CONSTANTS
    white = white
    mixed = mixed
    nothing = nothing
    Canvases <- MCCanvases
    Nothing = nothing
    Pixel <- MCPixel
    Width = 2
    AddressLines = 1
    Depths <- MCDepths
    Layouts <- MCLayouts
    TimerFreq = 3000
    MinMinPeriod = 6
    TimerWord = 512
    Loads <- MCLoads
SPECIFICATION FairSpec
INVARIANTS NeverTorn PeriodFits FrameShowsCanvas
PROPERTIES ShowReturns ObeysDoubleBuffer
