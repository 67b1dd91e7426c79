CONSTANTS
    BUFFER_SIZE = 8
    START = 170
    END = 85
    Byte <- MCByte
    MaxRing = 1
SPECIFICATION Spec
INVARIANT TypeOK
INVARIANT WriteInBounds
INVARIANT AcceptedIsWhole
