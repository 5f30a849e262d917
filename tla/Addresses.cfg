CONSTANTS
    Numbers = {0, 1}
    Behind = {0, 7}
    Texts <- AllTexts
    Strings <- AllStrings
SPECIFICATION Spec
CHECK_DEADLOCK FALSE
INVARIANTS
    ReadsAsMeant
    ReadsInside
    ReadsBack
    ElidesBest
    TakenForMapped
