SPECIFICATION FairSpec
CONSTANTS
    r1 = r1
    r2 = r2
    r3 = r3
    r4 = r4
    tower = tower
    site = site
    Requests = {r1, r2, r3, r4}
    Names = {tower, site}
    NameOf <- MCNameOf
    Contents = {old, new}
    Threads = 3
    Nothing = Nothing
    NoOne = NoOne
INVARIANTS
    TypeOK
    NobodyPaysTwice
    OneModelPerName
PROPERTIES
    EveryRequestIsAnswered
