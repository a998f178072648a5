CONSTANTS
    NumTasks = 1
    MaxAttempts = 2
    DestroyWaits = FALSE
    Outcomes = {"ok"}
    Workers = {w1, w2}
    MaxFaults = 1
SPECIFICATION Spec
SYMMETRY WorkerSymmetry
INVARIANTS
    NoLiveOverlap
