CONSTANTS
    Passwords = {"", "secret"}
    MaxPairs = 3
SPECIFICATION Spec
CHECK_DEADLOCK FALSE
INVARIANTS
    PairsMatch
    ServesSound
PROPERTIES
    NeverAgain
