CONSTANTS
    Games = {g1, g2}
    NoGame = NoGame
    MaxMessages = 2
    MaxHistories = 2
    MaxVisits = 2
    MaxSignals = 2
    MaxLost = 1
    p0 = p0
    p1 = p1
    p2 = p2
    step = step
    Positions = {p0, p1, p2}
    NoFen = NoFen
    Start = p0
    After <- MCAfter
    Best <- MCBest
    NoMove = NoMove
    Eligible = {p0, p1, p2}
    SourceLine <- MCSource
    Pasted <- MCPasted
    MaxEngineMessages = 1
SPECIFICATION PagesSpec
INVARIANTS ChatIsWhole CameraOffWhenGone ShownIsOfThisPosition
PROPERTIES CallIsMade PositionGetsAnalysed
CHECK_DEADLOCK FALSE
