CONSTANTS
    j1 = j1
    j2 = j2
    w1 = w1
    Requests <- MCJobs
    Workers <- MCWorkers
    Anyone = ""
    UserOf <- MCUserOf
    WorkspaceOf <- MCWorkspaceOf
    PriorityOf <- MCPriorityOf
    MaxPerUser = 1
    MaxPerWorkspace = 1
    Outcomes <- MCOutcomes
    MaxCancels = 2
    Stubborn = {}
    MaxRestarts = 1
SPECIFICATION JobsSpec
PROPERTIES
    QueuedWorkSurvives
CHECK_DEADLOCK FALSE
