SPECIFICATION Spec
CONSTANTS
    u1 = u1
    u2 = u2
    u3 = u3
    u4 = u4
    u5 = u5
    r1 = r1
    Uploads = {u1, u2, u3, u4, u5}
    Exports <- MCExports
    Reads = {r1}
    Mixes <- MCMixes
    HeaderSet <- MCHeaders
    Totals <- MCTotals
    SourceSets <- MCSourceSets
    FreeSet <- MCFree
    Unknown = Unknown
    Missing = Missing
    Junk = Junk
    MaxU64 = 15
    Ratio = 5
    Remembered = 2
    FirstMs = 4
    LastMs = 5
    Hex = 2
    Dec = 3
INVARIANTS
    ServedAsAsked
    TakenWhereItFits
    ListingIsChronological
CHECK_DEADLOCK FALSE
