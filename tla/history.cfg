SPECIFICATION Spec
CONSTANTS
    a = a
    b = b
    Alias = alias
    Worlds <- MCWorlds
    Poll = 1
    MaxReplay = 2
    Late = 1
    PageLimit = 3
    Dedupe = 0
    MatchWindow = 1
    Grace = 2
    UnprovenGrace = 1
    ObserveMaxAge = 1
    Retention = 3
    MemoryLimit = 1
    MaxClock = 4
    MaxFaults = 1
CHECK_DEADLOCK FALSE
INVARIANTS
    TypeOK
    UnlockReported
    NotReplayed
    AckedWasPublished
    MissedOnce
PROPERTY PushedNotMissed
