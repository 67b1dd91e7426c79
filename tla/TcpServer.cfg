CONSTANTS
    Writes <- MCWrites
    MaxWrites = 3
    MaxConns = 3
    BlockSize = 2
    RingSize = 4
    Garbled <- MCGarbled
SPECIFICATION ServerSpec
INVARIANT NoUseAfterClose
INVARIANT BufferOwned
PROPERTY BackToAccept
