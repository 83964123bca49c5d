CONSTANTS
    Sockets = {s1, s2, s3}
    MaxStale = 1
    NoSocket = NoSocket
    a = a
    b = b
    ann = ann
    bob = bob
    Sessions = {a, b}
    NoSession = NoSession
    Users = {ann, bob}
    NoUser = NoUser
    Owner <- MCOwner
    Visited <- MCVisited
    MaxCalls = 1
SPECIFICATION Spec
INVARIANTS
    OwnProfile
PROPERTIES
    HeardAsSelf
    ImplementsLink
    GuardedPageDecides
CHECK_DEADLOCK FALSE
