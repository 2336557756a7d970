SPECIFICATION FairSpec
CONSTANTS
    Directs = {s1}
    Relays = {r1}
    Deleters = {d1}
    NoSession = NoSession
    MaxRuntimes = 2
    Configured = FALSE
    DropPoints <- MCDropPoints
CHECK_DEADLOCK FALSE
INVARIANT OneCallPerGate
PROPERTIES
    PermitReturned
    CallEnds
