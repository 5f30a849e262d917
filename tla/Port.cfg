CONSTANTS
    a = a
    b = b
    c = c
    nl = nl
    Junk = Junk
    Nul = Nul
    Byte <- MCByte
    Outgoing <- ThreeWrites
    DeviceOut <- TwoLines
    Delim <- NewLine
    ReadBufferSize = 2
    MaxOpens = 1
SPECIFICATION FairSpec
CHECK_DEADLOCK FALSE
INVARIANTS
    ReadFifo
    ErrorHasCause
PROPERTIES
    ImplementsStream
    AllSent
    AllReceived
    ThreadsEnd
