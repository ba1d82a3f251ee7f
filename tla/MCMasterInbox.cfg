CONSTANTS
    Pollers = {worker, sync}
    Workers = {worker}
    N = 3
    Refusing = {2}
    MaxFaults = 2
    MaxConflicts = 1
SPECIFICATION FairSpec
INVARIANTS ExactlyOnce AppliedInOrder
PROPERTIES ProofKept EventuallyAcked
CHECK_DEADLOCK FALSE
