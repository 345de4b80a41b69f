SPECIFICATION Spec
CONSTANTS
    Inputs <- MCInputs
    NarrowHeader = 2
    WideHeader = 3
    MEMBER_PREPARE_BATCH = 2
INVARIANTS
    BodiesAreWholeOrAbsent
    NoByteTwice
    LosesNothing
    BatchingIsInvisible
    InflatedOnce
CHECK_DEADLOCK FALSE
