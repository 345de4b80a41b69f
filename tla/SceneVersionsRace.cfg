SPECIFICATION Spec
CONSTANTS
    Convs = {c1, c2}
    VersionDeletes = {}
    SceneDeletes = {}
    Viewers = {}
    Readers = {}
    MaxNumber = 3
    HasFlat = TRUE
    Patience = "none"
    MarkMayFail = FALSE
    RemovalMayFail = FALSE
    Legacy = Legacy
    NoOne = NoOne
SYMMETRY Symmetry
INVARIANTS
    NumbersAreUnique
CHECK_DEADLOCK FALSE
