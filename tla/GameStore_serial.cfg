CONSTANTS
    WhiteElsewhere = {older}
    BlackElsewhere = {}
    Monitors = {monitor}
    MaxInFlight = 1
    InitialTime = 2
    Increment = 1
    GraceTime = 1
    MaxNow = 3
    MaxDisturbances = 2
    MaxPlies = 4
SPECIFICATION Spec
PROPERTIES
    KeepsPromise
CHECK_DEADLOCK FALSE
