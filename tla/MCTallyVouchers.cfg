CONSTANTS
    Batches = {1}
    Keys = {}
    Answers = {"imported", "rejected", "lost", "unreadable", "cut"}
    Broken = {1}
    MaxSettings = 3
    MaxBooks = 0
    MaxChecks = 0
    MaxActive = 1
    MaxCrashes = 1
    MaxStops = 1
SPECIFICATION Spec
INVARIANTS OneVoucher SyncedIsInTally
PROPERTIES SyncingIsTakenOver
