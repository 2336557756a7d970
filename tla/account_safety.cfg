SPECIFICATION Spec
CONSTANTS
    Procs = {p1, p2}
    Clients = {c1, c2}
    NoProc = NoProc
    NoClient = NoClient
    MaxTokens = 3
    MaxEnrollments = 2
    DropPoints <- MCDropPoints
SYMMETRY MCSymmetry
INVARIANTS
    NoStaleClient
    EnrollmentSticks
    DurableBeforeUse
    RotationAccounted
PROPERTIES
    RefusalRemembered
    ChallengeUsedOnce
