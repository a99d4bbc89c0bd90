SPECIFICATION FairSpec
CONSTANTS
    Zones = {z1}
    MaxOpen = 1
    Attempts = 2
    Routes = {"market", "limit"}
    Faults <- AllFaults
    MaxDecisions = 2
    MaxTickets = 2
    MaxBars = 2
INVARIANTS RowPerDecision ReissuedOnlyIfUnsaved
PROPERTIES ClosedTradeLeaves FillTakesEffect
