SPECIFICATION Spec
CONSTANTS
    k1 = k1
    k2 = k2
    k3 = k3
    a = a
    b = b
    n = n
    d1 = d1
    p1 = p1
    p2 = p2
    c1 = c1
    c2 = c2
    c3 = c3
    c4 = c4
    c5 = c5
    NoVal = NoVal
    ServerId = ServerId
    Idle = Idle
    Entity = {k1, k2, k3}
    Book = {k1, k2}
    Value = {a, b, n, NoVal}
    ChangeId = {c1, c2, c3, c4, c5}
    Restored <- MCRestored
    Changes <- MCChanges
    Forced <- MCForced
    Snapshots <- MCSnapshots
    Device = {d1}
    Pull = {p1, p2}
    Owner <- MCOwner
    Limit = 1
    MaxId = 3
    MaxHistory = 1
INVARIANTS
    TypeOK
    OneEventPerChange
    CursorClaimsOnlyListed
    ConflictQuotesServer
PROPERTIES
    RestoreBringsBack
    ImplementsSyncLog
    EventuallyListed
