SPECIFICATION Spec
CONSTANTS
    a = a
    x = x
    N = 2
    Body <- MCBody
    PartNo = {1, 2}
    PartLists <- MCPartLists
    Uid = {u1, u2}
    NoObject = NoObject
    NoUid = NoUid
    Req = {q1, q2}
INVARIANTS
    TypeOK
    MetaNamesObject
PROPERTIES
    CompleteStays
    EventuallyComplete
