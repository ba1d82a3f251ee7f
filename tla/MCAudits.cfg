CONSTANTS
    Serials = {s1}
    Assignments = {1}
    Batches = {b1, b2, b3}
    Clerks = {c1, c2}
    None = None
    MaxTime = 4
    MaxOvertaken = 1
SPECIFICATION AuditSpec
SYMMETRY AuditSymmetry
INVARIANTS MissingOnlyAfterDeadline MissingIsUnscanned
CHECK_DEADLOCK FALSE
