SPECIFICATION Spec
CONSTANTS
    Producers = {d1}
    Surfaces = {FALSE}
    Limit = 2
    HwLimit = 1
    AudioLimit = 12
    BlockLen = 1
    AacFrame = 2
    Encoders <- MCEncoders
    Modes = {"cpu"}
    MaxTime = 6
    MaxFrames = 1
    MaxStarts = 1
CHECK_DEADLOCK FALSE
INVARIANT
    SoundInSync
