CONSTANTS
    Frames <- MCMoves
    MaxFrames = 2
    MaxConns = 2
    RingSize = 16
    Garbled <- MCGarbled
    BUFFER_SIZE = 16
    START = 170
    END = 85
    Byte <- MCByte
    PERIOD = 50000
    Speeds <- MCSpeeds
    Degrees <- MCDegrees
    Cos <- MCCos
    Sin <- MCSin
SPECIFICATION Spec
CONSTRAINT LostBound
CHECK_DEADLOCK FALSE
INVARIANT NoPhantom NoneSkipped MotorsFollow
PROPERTY AllExecuted
