CONSTANTS
    d1 = d1
    d2 = d2
    Daemon = {d1, d2}
    Group = {g1, g2}
SPECIFICATION Spec
SYMMETRY Symmetry
CHECK_DEADLOCK FALSE
INVARIANTS
    OneRowEach
    ReturnedComplete
    UndisturbedReturns
    OnlyLenientStarts
