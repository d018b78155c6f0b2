SPECIFICATION Spec
CONSTANTS
    NULL = NULL
    t1 = t1
    t2 = t2
    w1 = w1
    w2 = w2
    k1 = k1
    k2 = k2
    r1 = r1
    r2 = r2
    r3 = r3
    ESCROW_FUNDING_DEADLINE_HOURS = 1
    SHIPMENT_SLA_HOURS = 1
    DISPUTE_WINDOW_HOURS = 1
    Trades = {t1}
    Watches = {w1}
    Users <- MCUsers
    SellerOf <- MCSellerOf
    PriceOf <- MCPriceOf
    MaxError = 1
    Listed = {w1}
    Linked = {w1}
    Keys = {k1}
    Bodies <- OneBody
    Requests = {r1, r2}
    Overlap = TRUE
    MaxClock = 0
VIEW WithoutAnswer
INVARIANT TransferredOnce
