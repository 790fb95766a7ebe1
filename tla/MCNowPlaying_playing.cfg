SPECIFICATION FairPlayingSpec
CONSTANTS
    Sessions = {"s1", "s2"}
    MaxPresses = 1
CHECK_DEADLOCK FALSE
INVARIANTS
    PauseEndsWithSession
PROPERTIES
    BadgeFollowsSound
    ButtonsComeBack
