SPECIFICATION FairSpec
CONSTANTS
    c1 = c1
    c2 = c2
    p1 = p1
    p2 = p2
    Conns = {c1, c3}
    Phones = {p1, p2}
    Phone <- MCPhone
    HlsPhones = {p1}
    Asked = {"mirror", "audio"}
    None = None
CHECK_DEADLOCK FALSE
INVARIANTS
    DeviceHasOwner
PROPERTIES
    DisconnectLeavesIdle
    LostOwnerReleases
