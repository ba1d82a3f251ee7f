CONSTANTS
    s1 = s1
    s2 = s2
    buy = buy
    sell = sell
    undo = undo
    audit = audit
    Serials = {s1, s2}
    Clerks = {c1, c2}
    Batches = {buy, sell, undo, audit}
    Type <- TypeOfBatches
    Damaged = {}
    Expiry <- MCExpiry
    Interval = 1
    InitialStatus <- MCStatus
    MaxOvertaken = 1
SPECIFICATION Spec
SYMMETRY ClerkSymmetry
INVARIANTS SubmittedOnce LedgerChains EventsTellStatus
CHECK_DEADLOCK FALSE
