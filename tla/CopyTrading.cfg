SPECIFICATION MCSpec
CONSTANTS
    p1 = p1
    p2 = p2
    x1 = x1
    x2 = x2
    Charges = {x1, x2}
    Updates = {p1, p2}
    Sweeps = {s1}
    Period = 2
    Grace = 1
    NoCharge = NoCharge
    None = None
    Setups <- MCSetups
    Prices <- MCPrices
    Workers = {p1, p2}
    Metas <- MCMetas
    Order <- MCOrder
    Lifetime = 1
    Symbols = {x1, x2}
    Commands = {p1, p2}
    NoSymbol = NoSymbol
    ConfirmTtl = 2
    MaxNow = 3
SYMMETRY MCSymmetry
INVARIANTS
    TypeOK
    ServesOnlyPaidTime
    ShutOutOnlyByOverlap
    ClaimsAuthorized
    RefusesUnknown
    ListIsWhatWasWished
PROPERTIES
    ProgressIsForward
    TurnedOnInTime
CHECK_DEADLOCK FALSE
