SPECIFICATION Spec
CONSTANTS
    Convs = {c1}
    VersionDeletes = {}
    SceneDeletes = {}
    Viewers = {}
    Readers = {}
    MaxNumber = 2
    HasFlat = TRUE
    Patience = "end"
    MarkMayFail = FALSE
    RemovalMayFail = FALSE
    Legacy = Legacy
    NoOne = NoOne
INVARIANTS
    NobodyResolvesToPart
CHECK_DEADLOCK FALSE
