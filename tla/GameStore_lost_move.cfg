CONSTANTS
    WhiteElsewhere = {}
    BlackElsewhere = {}
    Monitors = {monitor}
    MaxInFlight = 2
    InitialTime = 1
    Increment = 1
    GraceTime = 1
    MaxNow = 1
    MaxDisturbances = 1
    MaxPlies = 2
SPECIFICATION Spec
INVARIANTS
    MoveLogAgrees
CHECK_DEADLOCK FALSE
