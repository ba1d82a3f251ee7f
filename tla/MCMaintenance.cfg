CONSTANTS
    Folders = {f1, f2}
    DefaultFolder = f1
    NoFolder = NoFolder
    Retentions = {1, 2}
    DefaultRetention = 1
    MaxCommits = 3
    MaxRestores = 1
    MaxSettings = 1
    MaxFailures = 1
SPECIFICATION Spec
INVARIANTS BackupsAreWhole SafetyIsKept DatabaseIsWhole
PROPERTY CommitsAreBackedUp
CHECK_DEADLOCK FALSE
