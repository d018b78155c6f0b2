SPECIFICATION Spec
CONSTANTS
    NULL = NULL
    k1 = k1
    u1 = u1
    Users = {u1}
    Assignments <- MCAssignments
    Secrets = {1, 2}
    Clients = {k1}
    TTL = 2
    MaxClock = 3
INVARIANTS
    IdentityTypeOK
    PowersWereHeld
