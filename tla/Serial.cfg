SPECIFICATION Spec
CONSTANTS
    NULL = NULL
    t1 = t1
    t2 = t2
    w1 = w1
    w2 = w2
    k1 = k1
    k2 = k2
    r1 = r1
    r2 = r2
    r3 = r3
    ESCROW_FUNDING_DEADLINE_HOURS = 1
    SHIPMENT_SLA_HOURS = 1
    DISPUTE_WINDOW_HOURS = 1
    Trades = {t1, t2}
    Watches = {w1, w2}
    Users <- MCUsers
    SellerOf <- MCSellerOf
    PriceOf <- MCPriceOf
    MaxError = 1
    Listed = {w1, w2}
    Linked = {w1, w2}
    Keys = {k1, k2}
    Bodies <- TwoBodies
    Requests = {r1, r2}
    Overlap = FALSE
    MaxClock = 0
SYMMETRY Symmetry
VIEW WithoutAnswer
INVARIANTS
    FundedExactlyOnce
    FundsMatchState
    DeadlinesAreSet
    ChainVerifies
PROPERTIES
    LegalTransitions
    ReplayPromise
    ImplementsLifecycle
