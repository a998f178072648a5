CONSTANTS
    j1 = j1
    j2 = j2
    w1 = w1
    Requests <- MCOneJob
    Workers <- MCWorkers
    Anyone = ""
    UserOf <- MCUserOf
    WorkspaceOf <- MCWorkspaceOf
    PriorityOf <- MCPriorityOf
    MaxPerUser = 1
    MaxPerWorkspace = 1
    Outcomes <- MCOutcomes
    MaxCancels = 0
    Stubborn <- MCOneJob
    MaxRestarts = 3
SPECIFICATION LiveJobsSpec
INVARIANTS
    JobsTypeOK
    ExportedOnce
    CancelReachesDelegate
PROPERTIES
    FinalRowsStay
    EveryJobSettles
CHECK_DEADLOCK FALSE
