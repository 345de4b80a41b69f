SPECIFICATION Spec
CONSTANTS
    u1 = u1
    u2 = u2
    u3 = u3
    u4 = u4
    alice = alice
    bob = bob
    tower = tower
    site = site
    a = a
    b = b
    d1 = d1
    d2 = d2
    NoSet = NoSet
    Root = Root
    NoOne = NoOne
    Mixed = Mixed
    Requests = {u1, u2, u3, u4}
    Clients = {alice, bob}
    ClientOf <- MCClientOf
    Names = {tower, site}
    NameOf <- MCNameOf
    SetNames = {a, b}
    SetOf <- MCSetOf
    Complete = {u2, u3}
    Dirs = {d1, d2}
    Sanitised <- MCApart
INVARIANTS
    TypeOK
    OwnFilesOnly
    ReadsAllItWasSent
PROPERTIES
    NothingLeftBehind
CHECK_DEADLOCK FALSE
