SPECIFICATION ReverseSpec
CONSTANTS
    s1 = s1
    s2 = s2
    c4 = c4
    Conns = {c1, c2, c3, c4}
    Fds = {f1, f2, f3}
    Ids = {s1, s2}
    Names <- MCNames
    Unset = Unset
    MaxHead = 10
    MaxPiece = 4
    MaxStream = 13
    MaxRequests = 6
CHECK_DEADLOCK FALSE
INVARIANTS
    RegisteredIsOpen
    RequestsWhole
    KeysAgree
