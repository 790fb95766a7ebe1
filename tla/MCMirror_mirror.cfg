SPECIFICATION Spec
CONSTANTS
    Codecs = {"h264", "hevc"}
    Faults = {"key", "find", "alloc", "gpu", "open", "malformed"}
    MaxFrames = 5
    MaxWire = 2
    MaxConns = 2
    MaxSetups = 2
CHECK_DEADLOCK FALSE
INVARIANTS
    InStep
    ShownWithItsSets
    DecoderReady
