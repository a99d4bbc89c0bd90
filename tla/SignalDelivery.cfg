SPECIFICATION Spec
CONSTANTS
    Signals = {s1, s2}
    TradeEvents = {}
    Posters = {p1, p2}
    Retriers = {r1, r2}
    Attempts = 2
    BatchLimit = 2
    None = None
    MaxExcuses = 1
    MaxLosses = 1
SYMMETRY Interchangeable
INVARIANTS TypeOK NoSecondMessage ActiveIsAccountedFor SuppressedStaysSilent StrandedOnlyByLoss
CHECK_DEADLOCK FALSE
