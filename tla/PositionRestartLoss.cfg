SPECIFICATION Spec
CONSTANTS
    Buy = TRUE
    Routes = {"market"}
    Entry = 4
    InitialStop = 2
    Slippage = 1
    BreakEvenAtR = 1
    PartialAtR = 2
    TrailDistances = {1, 2}
    MinDist = 1
    Volumes = {2}
    MinLots = 1
    Hundredth = 1
    MaxPrice = 12
    Faults <- Restart
INVARIANT ProtectedAtActualEntry
