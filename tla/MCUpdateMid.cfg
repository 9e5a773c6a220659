SPECIFICATION Spec
CONSTANTS
    a = a
    h = h
    b = b
    p = p
    q = q
    n1 = n1
    n2 = n2
    M = M
    Order <- MCOrder
    Hidden = {}
    PathOrder <- MCPathOrder
    Search <- MCSearch
    Names = {n1, n2}
    Macros = {M}
    Absent = Absent
    Silent = Silent
    Undef = Undef
    Stub = Stub
    Versions <- MCVersionsMid
    Racing = "rewrites"
INVARIANT
    FreshOrPending
