SPECIFICATION Spec
CONSTANTS
    a = a
    x = x
    N = 2
    Body <- MCHonest
    PartNo = {1, 2}
    PartLists <- MCPartLists
    Uid = {u1, u2}
    NoObject = NoObject
    NoUid = NoUid
    Req = {q1, q2}
PROPERTY
    DownloadIsImmutable
