SPECIFICATION Spec
CONSTANTS
    NULL = NULL
    p1 = p1
    SeedSize = 2
    References = {}
    Lookalikes = {}
    Serials = {}
    Creators = {}
    Seeders = {p1}
INVARIANT RerunNeverFails
