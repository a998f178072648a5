CONSTANTS
    NumTasks = 1
    MaxAttempts = 3
    DestroyWaits = TRUE
    Outcomes = {"ok", "err"}
    Workers = {w1}
    MaxFaults = 2
SPECIFICATION FairSpec
PROPERTIES
    EventuallySettled
