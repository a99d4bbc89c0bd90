SPECIFICATION Spec
CONSTANTS
    Zones = {z1, z2}
    MaxOpen = 2
    Attempts = 2
    Routes = {"market"}
    Faults <- NoFaults
    MaxDecisions = 2
    MaxTickets = 4
    MaxBars = 2
INVARIANT OneTicketPerZone
