CONSTANTS
    e1 = e1
    e2 = e2
    u1 = u1
    Slots <- MCSlots
    Users <- MCUsers
    Plans <- MCWork
    Repairs <- MCRepairs
    MaxParallel = 2
    MaxRetries = 0
    MaxSessions = 1
    MaxRequests = 1
    MaxRestarts = 0
SPECIFICATION Spec
CONSTRAINT OnlyStopsEndCalls
PROPERTIES
    PauseHolds
CHECK_DEADLOCK FALSE
