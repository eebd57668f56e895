CONSTANTS
    h1 = h1
    h2 = h2
    d1 = d1
    d2 = d2
    reserve = reserve
    nobody = nobody
    nowhere = nowhere
    blank = blank
    malformed = malformed
    garbled = garbled
    Garbled = garbled
    Drivers <- MCDrivers
    Nobody = nobody
    MaxDrivers = 2
    BlueFlagTimeout = 2
    TimeWord = 16
    Hosts <- MCHosts
    NoHost = nowhere
    Blank = blank
    Malformed = malformed
    Configs <- MCConfigs
    TrackOf <- MCTrackOf
    LapsOf <- MCLapsOf
    Lineup <- MCLineup
    Boot = 13
    MaxTicks = 3
    MaxMessages <- MCMessages
    MaxFaults = 1
    MaxTaps = 1
SPECIFICATION FairSpec
INVARIANTS PollsTheHost ShownIsWhole BlueIsLatest
PROPERTIES PollsAreHarmless SettlesInTheEnd
