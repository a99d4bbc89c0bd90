SPECIFICATION MCSpec
CONSTANTS
    p1 = p1
    p2 = p2
    x1 = x1
    x2 = x2
    v1 = v1
    Requests = {x1, x2, v1}
    Reservers = {p1, p2}
    RiskSizes = {1, 2}
    HeatLimits = {2, 3}
    LeaseSeconds = 1
    Reported = {"CHECKED", "SENT", "FILLED"}
    NoRequest = NoRequest
    MaxNow = 2
    GATED_METRICS = {x1, x2}
    Estimates = {0, 1, 2}
    Versions = {v1}
    Runners = {p1, p2}
    Taps = {p1, p2}
    Measured <- MCMeasured
    MaxCycles = 3
    Parameters = {x1, x2}
    ParameterSpec <- MCParameterSpec
    Regimes = {"trend", "range"}
    Unseen = Unseen
    Landscapes <- MCLandscapes
SYMMETRY MCSymmetry
INVARIANTS
    TypeOK
    HeatWithinLimit
    SettledIffReleased
    ApprovedOnEvidence
    VerdictStands
    ReturnsOnlyByStale
CHECK_DEADLOCK FALSE
