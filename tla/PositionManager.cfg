SPECIFICATION FairSpec
CONSTANTS
    Buy = FALSE
    Routes = {"market", "limit"}
    Entry = 6
    InitialStop = 8
    Slippage = 1
    BreakEvenAtR = 1
    PartialAtR = 2
    TrailDistances = {2}
    MinDist = 1
    Volumes = {1, 3, 4}
    MinLots = 1
    Hundredth = 2
    MaxPrice = 8
    Faults <- EveryFault
INVARIANTS TypeOK ProtectedAtKnownFill NoSecondPartial
PROPERTIES StopNeverLoosened RunnerOnlyTightens WinnerTrailed
