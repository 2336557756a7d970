SPECIFICATION FairSpec
CONSTANTS
    Procs = {p1, p2}
    Clients = {c1, c2}
    NoProc = NoProc
    NoClient = NoClient
    MaxTokens = 2
    MaxEnrollments = 1
    DropPoints <- MCDropPoints
PROPERTIES
    GuardGranted
