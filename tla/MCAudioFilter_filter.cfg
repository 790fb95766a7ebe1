SPECIFICATION FilterSpec
CONSTANTS
    SeqNumbers = 8
    Window = 4
    Every = 2
    Copies = 2
    Late = 2
    MaxFrame = 12
CHECK_DEADLOCK FALSE
INVARIANTS
    DecodedOnce
