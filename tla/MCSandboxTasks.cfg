CONSTANTS
    NumTasks = 1
    MaxAttempts = 2
    DestroyWaits = TRUE
    Outcomes = {"ok", "big", "err"}
    Workers = {w1, w2}
    MaxFaults = 2
SPECIFICATION Spec
SYMMETRY WorkerSymmetry
INVARIANTS
    TypeOK
    PredecessorGone
    ExecutionRecorded
    SuccessIsEarned
    LedgerConsistent
    NeverReplayed
    AssociationCurrent
PROPERTIES
    QueueSpec
