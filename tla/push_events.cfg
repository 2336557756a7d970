SPECIFICATION Spec
CONSTANTS
    Consumers = {c1}
    Publishers = {push, history}
    Events <- MCEvents
    EventLimit = 2
    Dedupe = 2
    MaxEvents <- MCMaxEvents
    MaxGenerations = 2
SYMMETRY MCSymmetry
CHECK_DEADLOCK FALSE
INVARIANTS
    NoLostWakeup
    UnlockOnce
PROPERTY FeedSpec
