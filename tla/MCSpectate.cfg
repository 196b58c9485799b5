SPECIFICATION FairSpec
CONSTANTS
    NPlayers = 3
    Sources <- MCSources
    Gop = 3
    Room = 1
    MaxFrames = 4
    Scenarios <- MCScenarios
    Flaps = FALSE
INVARIANTS
    TypeOK
PROPERTIES
    FreshStreams
    PicturesFollow
    CaptureFollowsWatchers
