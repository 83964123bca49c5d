CONSTANTS
    InitialTime = 2
    Increment = 1
    GraceTime = 1
    MaxNow = 4
    MaxPlies = 4
SPECIFICATION FairSpec
INVARIANTS
    RowConsistent
    PausedPlayerIsOffline
PROPERTIES
    FinishedIsFinal
    GraceResolutionEarned
    TimeConserved
    OverdueIsSettled
CHECK_DEADLOCK FALSE
