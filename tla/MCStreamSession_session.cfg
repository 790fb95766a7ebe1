SPECIFICATION FairSpec
CONSTANTS
    Fds = {f1, f2, f3, f4, f5}
    Requests = 3
    Strangers = 2
CHECK_DEADLOCK FALSE
INVARIANTS
    BorrowedIsOpen
    OneOwner
PROPERTY
    RequestsEnd
