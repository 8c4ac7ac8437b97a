SPECIFICATION LanSpec
CONSTANTS
    Streams = {1, 2}
    Packets <- TwoStreams
    EpochCounter = 2
    MovesPerRead = 1
INVARIANTS
    LeaseIsWatched
PROPERTIES
    NoSilentResume
    BlockedLanStops
