SPECIFICATION FairSpec
CONSTANTS
    o1 = o1
    o2 = o2
    Outputs = {o1, o2}
    OutputOf <- MCOutputOf
    Deletable = {}
    Federated = {2}
    Jobs = {1, 2, 3}
    Cancels = {c1}
    Remembered = 2
PROPERTIES
    CancelFreesSlot
    EveryJobEnds
    CancelledInQueueNeverStarts
CHECK_DEADLOCK FALSE
