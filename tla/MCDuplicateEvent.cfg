SPECIFICATION Spec
CONSTANTS
    k1 = k1
    k2 = k2
    k3 = k3
    a = a
    b = b
    bad = bad
    c1 = c1
    c2 = c2
    c3 = c3
    c4 = c4
    c5 = c5
    t1 = t1
    t2 = t2
    Entity = {k1, k2, k3}
    Book = {k1, k2}
    Content = {a, b, bad}
    NoFiles = {bad}
    Null = bad
    Page = {0, 1}
    ChangeId = {c1, c2, c3, c4, c5}
    ServerId = ServerId
    Changes <- MCChanges
    NoChange = NoChange
    Forced <- MCForced
    Snapshots <- MCSnapshots
    Tx = {t1, t2}
    NoTx = NoTx
    MaxId = 4
SYMMETRY Symmetry
INVARIANT
    OneEventPerChange
