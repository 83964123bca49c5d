CONSTANTS
    Sockets = {s1, s2}
    Instances = {a, b}
    MaxCrashes = 1
SPECIFICATION FairSpec
PROPERTIES
    WorkingSocketKeepsItsPlace
    PresenceFindsTheSocket
    NoGhostPresence
CHECK_DEADLOCK FALSE
