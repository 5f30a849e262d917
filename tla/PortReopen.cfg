CONSTANTS
    a = a
    b = b
    c = c
    nl = nl
    Junk = Junk
    Nul = Nul
    Byte <- MCByte
    Outgoing <- ShortWrites
    DeviceOut <- ShortLine
    Delim <- NewLine
    ReadBufferSize = 1
    MaxOpens = 2
SPECIFICATION Spec
CHECK_DEADLOCK FALSE
INVARIANTS
    WriteFifo
    NothingStranded
    ReadChainsPerOpen
    ReadsKept
PROPERTIES
    HalfOpenForever
