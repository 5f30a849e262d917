CONSTANTS
    ttyA = ttyA
    ttyB = ttyB
    Group = {g1, g2}
    NoLocation = NoLocation
    Location <- MCLocation
    Rows <- TwoPorts
    Reported <- MCReported
    Minimum <- MCMinimum
SPECIFICATION Spec
CHECK_DEADLOCK FALSE
PROPERTIES
    RefusedOnlyIfInUse
