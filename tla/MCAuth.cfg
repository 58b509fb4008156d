SPECIFICATION Spec
CONSTANTS
    a = a
    b = b
    a1 = a1
    a2 = a2
    b1 = b1
    Dev = {a, b}
    Keyed = {a}
    Token = {t1, t2, t3}
    None = None
    Req = {a1, a2, b1}
    Owner <- MCOwner
    MaxFaults = 2
INVARIANTS
    TypeOK
    TokensBelong
    GivenTokenWorks
PROPERTIES
    NoLockout
    SpentIsDead
