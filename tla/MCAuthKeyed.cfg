SPECIFICATION Spec
CONSTANTS
    a = a
    b = b
    a1 = a1
    a2 = a2
    b1 = b1
    Dev = {a, b}
    Keyed = {a, b}
    Token = {t1, t2, t3, t4}
    None = None
    Req = {a1, b1}
    Owner <- MCOwner
    MaxFaults = 1
INVARIANTS
    TokensBelong
