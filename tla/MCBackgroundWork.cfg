CONSTANTS
    j1 = j1
    t1 = t1
    t2 = t2
    Jobs <- MCJobs
    Tasks <- MCTasks
    Interval = 1
    Limit = 1
    Horizon = 1
    MaxChanges = 1
    MaxRestarts = 1
SPECIFICATION LiveBackgroundSpec
INVARIANTS
    BackgroundTypeOK
    JobsTruthful
    CancelIsSignalled
    CleanExit
    NoTaskLeftBehind
PROPERTIES
    OccurrenceOnce
    PauseHolds
    JobsSettle
    DueIsDispatched
CONSTRAINT TwoAtOnce
CHECK_DEADLOCK FALSE
