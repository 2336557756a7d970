SPECIFICATION Spec
CONSTANTS
    Users <- MCUsers
    MaxIce = 2
    MaxHeard = 8
INVARIANTS CallSound TornDown NoLostConnect
PROPERTY MediaEnds
CHECK_DEADLOCK FALSE
