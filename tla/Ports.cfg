CONSTANTS
    ttyA = ttyA
    ttyB = ttyB
    Group = {g1, g2}
    Watched = g1
    NoLocation = NoLocation
    Location <- MCLocation
    Rows <- TwoPorts
    Reported <- MCReported
    Minimum <- MCMinimum
    Tries = 2
    Timeout = 1
    JsonOK = {TRUE, FALSE}
    MaxUnsolicited = 0
SPECIFICATION StartSpec
CHECK_DEADLOCK FALSE
INVARIANTS
    Exclusive
    MutexGivenBack
    OldNotAccepted
    SilenceAccepted
PROPERTIES
    GroupSettles
