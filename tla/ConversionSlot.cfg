SPECIFICATION Spec
CONSTANTS
    o1 = o1
    o2 = o2
    Outputs = {o1, o2}
    OutputOf <- MCOutputOf
    Deletable = {o2}
    Federated = {2}
    Jobs = {1, 2, 3}
    Cancels = {c1, c2}
    Remembered = 2
SYMMETRY Symmetry
INVARIANTS
    TypeOK
    OneConverter
    CancelledIsKilled
    CancelledLeavesNothing
    NoStageAfterEnd
PROPERTIES
    DoneWhenWhole
    LifecycleSpec
CHECK_DEADLOCK FALSE
