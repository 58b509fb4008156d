SPECIFICATION Spec
CONSTANTS
    k1 = k1
    k2 = k2
    f = f
    p = p
    e = e
    n = n
    c1 = c1
    c2 = c2
    c3 = c3
    c4 = c4
    c5 = c5
    q1 = q1
    q2 = q2
    Null = Null
    Book = {k1, k2}
    Content = {f, e, n, Null}
    NoFiles = {n, Null}
    NeedsFiles = {f}
    Unparsed = {}
    HasVerifier = TRUE
    ChangeId = {c1, c2, c3, c4}
    Changes <- MCChanges
    Batches <- MCBatches
    Manual = {e, n}
    Archived <- MCArchived
    Req = {q1, q2}
    MaxRev = 2
    MaxHistory = 2
SYMMETRY Symmetry
INVARIANTS
    TypeOK
    PushAnswersHold
    PushedBooksWereComplete
    ResolvedAfterWrite
PROPERTIES
    ResolvedOnce
