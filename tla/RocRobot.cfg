CONSTANTS
    PERIOD = 50000
    Speeds <- MCSpeeds
    Degrees <- MCDegrees
    Cos <- MCCos
    Sin <- MCSin
SPECIFICATION RobotSpec
INVARIANT RobotTypeOK
INVARIANT NoSpin
