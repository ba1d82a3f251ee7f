CONSTANTS
    a = a
    b = b
    t1 = t1
    t2 = t2
    Franchises = {a, b}
    Serials = {s1, s2}
    Transfers = {t1, t2}
    Source <- ReturnSource
    Dest <- ReturnDest
    Home <- AtA
    Products = {p}
    Edited = {}
    Product <- OneProduct
    Clerks = {c1, c2, c3}
    MaxOvertaken = 1
SPECIFICATION Spec
SYMMETRY Symmetry
INVARIANTS Conserved SourceAgrees
PROPERTY ImplementsCustody
CHECK_DEADLOCK FALSE
