SPECIFICATION FairSpec
CONSTANTS
    Sids = {s1}
    Handlers = {t1}
    Getters = {g1}
    None = None
    Lists = {"a", "b"}
    Playlists <- MCPlaylists
    MaxGen = 2
    MaxId = 3
    Refreshes = TRUE
INVARIANTS
    ContentIsCurrent
    PathsLeadHome
    ExpansionUndoes
    MastersPlay
PROPERTY
    GetsEnd
