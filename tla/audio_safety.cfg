SPECIFICATION Spec
CONSTANTS
    Directs = {s1, s2}
    Relays = {r1, r2}
    Deleters = {d1, d2}
    NoSession = NoSession
    MaxRuntimes = 1
    Configured = TRUE
    DropPoints <- MCDropPoints
SYMMETRY MCSymmetry
CHECK_DEADLOCK FALSE
INVARIANTS
    OneCallPerDevice
    PermitBacked
    AckMeansHungUp
    FailedStartStops
