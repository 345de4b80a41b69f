SPECIFICATION Spec
CONSTANTS
    Ids = {1, 2, 4, 6}
    Instances <- MCInstances
    Nothing = 0
    ALWAYS_DENSE_IDS = 2
    Texts <- MCTestTexts
    Targets = {1}
    Numeral <- MCNumeral
INVARIANTS
    SkippedAreCounted
CHECK_DEADLOCK FALSE
