CONSTANTS
    n1 = n1
    n2 = n2
    n3 = n3
    Unlinked = Unlinked
    Nodes = {n1, n2, n3}
    Code <- MCCode
    Origin <- MCOrigin
    Admins = {a1, a2, a3}
    Overlapping = {"connect"}
    MaxEvents = 3
    MaxCrashes = 2
SPECIFICATION Spec
SYMMETRY AdminSymmetry
INVARIANTS OneBaseline CodeLocked OneHistory Reconnectable
CHECK_DEADLOCK FALSE
