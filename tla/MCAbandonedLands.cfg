SPECIFICATION Spec
CONSTANTS
    x = x
    y = y
    z = z
    hx = hx
    hy = hy
    n1 = n1
    n2 = n2
    q1 = q1
    q2 = q2
    File = {x, y, z}
    Hash = {hx, hy}
    HashOf <- MCHashOf
    Lists <- MCLists
    NoBook = NoBook
    NoOrder = NoOrder
    Req = {q1, q2}
SYMMETRY Symmetry
PROPERTY
    AbandonedIsNotCompleted
