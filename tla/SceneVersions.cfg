SPECIFICATION Spec
CONSTANTS
    Convs = {c1, c2}
    VersionDeletes = {d1}
    SceneDeletes = {s1}
    Viewers = {w1}
    Readers = {r1}
    MaxNumber = 3
    HasFlat = TRUE
    Patience = "reply"
    MarkMayFail = FALSE
    RemovalMayFail = TRUE
    Legacy = Legacy
    NoOne = NoOne
SYMMETRY Symmetry
INVARIANTS
    TypeOK
    NumbersAreUnique
    PinnedReadsOneModel
    LandedIsThere
    DeletedStaysDeleted
CHECK_DEADLOCK FALSE
