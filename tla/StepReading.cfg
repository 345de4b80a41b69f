SPECIFICATION Spec
CONSTANTS
    Ids = {1, 2, 4, 6}
    Instances <- MCInstances
    Nothing = 0
    ALWAYS_DENSE_IDS = 2
    Texts <- MCTexts
    Targets = {0, 1, 12}
    Numeral <- MCNumeral
INVARIANTS
    LaterOneWins
    VectorStaysSmall
    CountsEachOnce
    CuttingIsInvisible
CHECK_DEADLOCK FALSE
