SPECIFICATION QueueSpec
CONSTANTS
    RtpMod = 96
    Limit = 4
    PktLen = 2
    Pauses = {1, 5}
    Jitter <- MCJitter
    Leads <- MCLeads
    Epochs = {9, 93}
    MaxSrc = 8
    MaxHeldUp = 1
    MaxOps = 6
CHECK_DEADLOCK FALSE
INVARIANTS
    CounterIsSum
    QueueInOrder
    MusicInOrder
    SinkIsOfOneFlush
