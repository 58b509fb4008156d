SPECIFICATION FeedSpec
CONSTANTS
    k1 = k1
    k2 = k2
    a = a
    b = b
    c1 = c1
    c2 = c2
    c3 = c3
    c4 = c4
    t1 = t1
    t2 = t2
    d1 = d1
    Entity = {k1, k2}
    Book = {k1, k2}
    Content = {a, Null}
    NoFiles = {Null}
    Null = Null
    Page = {0, 1}
    ChangeId = {c1, c3, c4}
    ServerId = ServerId
    Changes <- MCChanges
    NoChange = NoChange
    Forced <- MCForced
    Snapshots <- MCSnapshots
    Tx = {t1, t2}
    NoTx = NoTx
    MaxId = 3
    Device = {d1}
    Limit = 1
    NoPull = NoPull
INVARIANTS
    FeedTypeOK
    OnlyRacedAreSkipped
    CaughtUpMirrors
PROPERTIES
    ArrivesInOrder
    EventuallyReceived
