SPECIFICATION FairSpec
CONSTANTS
    Signals = {s1}
    TradeEvents = {t1}
    Posters = {p1}
    Retriers = {r1}
    Attempts = 1
    BatchLimit = 1
    None = None
    MaxExcuses = 0
    MaxLosses = 0
PROPERTY NoHushedBroadcast
CHECK_DEADLOCK FALSE
