CONSTANTS
    a = a
    b = b
    Byte <- MCByte
    Requests <- MCRequests
    Align = 4
    MaxLength = 5
SPECIFICATION Spec
PROPERTY ForceKeepsNewest
