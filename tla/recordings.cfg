SPECIFICATION Spec
CONSTANTS
    Tasks = {t1, t2}
    Ids = {r1, r2}
    NoId = none
    Sizes = {0, 2}
    MinMedia = 1
    MaxMedia = 3
    MaxArchive = 3
    Retention = 0
    MaxClock = 2
    MaxFaults = 2
SYMMETRY MCSymmetry
INVARIANTS
    ListedHasMedia
    MediaAccounted
    ReaderServed
    ArchiveFits
    DeletedIsGone
