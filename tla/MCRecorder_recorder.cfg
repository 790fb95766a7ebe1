SPECIFICATION FairSpec
CONSTANTS
    Producers = {d1, d2}
    Surfaces = {TRUE, FALSE}
    Limit = 1
    HwLimit = 1
    AudioLimit = 2
    BlockLen = 2
    AacFrame = 2
    Encoders <- MCEncoders
    Modes = {"auto", "gpu"}
    MaxTime = 2
    MaxFrames = 2
    MaxStarts = 2
CHECK_DEADLOCK FALSE
INVARIANTS
    PtsIncrease
    EveryPictureAccounted
    NoHiddenReadback
PROPERTY
    StopReturns
