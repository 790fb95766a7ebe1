SPECIFICATION FairSpec
CONSTANTS
    Sessions = {s1, s2}
    MaxPlays = 2
    MaxPictures = 2
CHECK_DEADLOCK FALSE
INVARIANTS
    MirrorLeavesSlot
    EndIsOfItsVideo
    RatesAgree
PROPERTIES
    NewestWins
    RequestsEnd
