CONSTANTS
    Pushers = {worker, sync}
    Workers = {worker}
    MaxEvents = 2
    MaxFaults = 2
    Limit = 1
    EventKinds = {"BATCH", "RECEIPT"}
    MasterErrors <- MCErrors
SPECIFICATION FairSpec
INVARIANTS NoSequenceGap ReportedIsRecorded
PROPERTIES ImplementsEventLog EventuallyConfirmed
CHECK_DEADLOCK FALSE
