CONSTANTS
    e1 = e1
    e2 = e2
    u1 = u1
    Slots <- MCSlots
    Users <- MCUsers
    Plans <- MCPlans
    Repairs <- MCRepairs
    MaxParallel = 2
    MaxRetries = 1
    MaxSessions = 2
    MaxRequests = 1
    MaxRestarts = 1
SPECIFICATION LiveSpec
INVARIANTS
    AgentTypeOK
    CompletedMeansSettled
    NobodyLeftBehind
CONSTRAINT SmallOverlap
PROPERTIES
    CheckpointsAreKept
    PassedMeansDone
    SessionsEnd
CHECK_DEADLOCK FALSE
