CONSTANTS
    Batches = {1}
    Keys = {"ledgers"}
    Answers = {"imported"}
    Broken = {}
    MaxSettings = 1
    MaxBooks = 1
    MaxChecks = 1
    MaxActive = 1
    MaxCrashes = 1
    MaxStops = 0
SPECIFICATION Spec
INVARIANTS TypeOK NoLostWakeup FreshAnswer
PROPERTIES BatchIsTried RequestsAreAnswered
