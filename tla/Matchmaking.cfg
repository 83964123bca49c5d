CONSTANTS
    low = low
    middle = middle
    high = high
    Players <- MCPlayers
    Rating <- MCRating
    TimeControls = {"5+0"}
    Threshold = 200
    MaxJoins = 3
    MaxStalls = 1
    MaxCrashes = 1
SPECIFICATION FairSpec
INVARIANTS
    EntryMakesOneGameUnlessStalled
PROPERTIES
    OnlyOwnerReleases
    LockIsFreed
CHECK_DEADLOCK FALSE
