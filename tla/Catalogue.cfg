SPECIFICATION BrowseSpec
CONSTANTS
    NULL = NULL
    c1 = c1
    c2 = c2
    p1 = p1
    p2 = p2
    SeedSize = 2
    References = {1, 2, 3, 4}
    Lookalikes = {3}
    Serials = {1, 3}
    Creators = {c1, c2}
    Seeders = {p1, p2}
    Limit = 2
SYMMETRY Symmetry
INVARIANTS
    BrowseTypeOK
    EveryWatchHasItsPassport
    OrphansAreSeeds
    DoneMeansFull
    NothingSkipped
