SPECIFICATION FairSpec
CONSTANTS
    Mod = 16
    MaxDropout = 4
    MaxMisorder = 3
    CacheSize = 2
    RetryMax = 1
    NackListMax = 2
    BitmapLen = 2
    Start = 14
    MaxPacket = 5
    MaxFlight = 2
    MaxLoss = 1
    None = None
INVARIANTS
    TypeOK
    NackSound
    HighestSeqIsTrue
PROPERTIES
    ImplementsLossRecovery
    NackListDrains
CHECK_DEADLOCK FALSE
