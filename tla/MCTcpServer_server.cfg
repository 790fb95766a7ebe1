SPECIFICATION FairSpec
CONSTANTS
    Conns = {c1, c2}
    NoConn = NoConn
    Fds = {f1, f2, f3}
    NoFd = NoFd
    HandlerKinds = {"mirror", "plain"}
INVARIANTS
    DrainWaitsForCancelled
    ShutdownHitsCancelled
    StoppedLeavesNothing
PROPERTIES
    GateSpec
    DisconnectCompletes
    
