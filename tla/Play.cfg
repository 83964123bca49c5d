CONSTANTS
    Me = me
    Sessions = {me}
    NoSession = NoSession
    MaxPlies = 3
    MaxVer = 3
    MaxInbox = 2
    MaxOutbox = 2
SPECIFICATION Spec
INVARIANTS
    ShowsThePresent
    MovesGoWhereAimed
PROPERTIES
    JoinIsAnswered
CHECK_DEADLOCK FALSE
