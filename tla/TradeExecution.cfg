SPECIFICATION Spec
CONSTANTS
    Zones = {z1, z2}
    MaxOpen = 2
    Attempts = 2
    Routes = {"market", "limit"}
    Faults <- NoFaults
    MaxDecisions = 3
    MaxTickets = 4
    MaxBars = 3
SYMMETRY ZoneSymmetry
INVARIANTS TypeOK IdsBelowNext NothingUnwatched ExposureWithinLimit
PROPERTIES LetsGoOnlyWhatEnded DecidedOnceActedOnce
