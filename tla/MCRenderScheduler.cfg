CONSTANTS
    r1 = r1
    r2 = r2
    r3 = r3
    w1 = w1
    w2 = w2
    Requests <- MCRequests
    Workers <- MCWorkers
    Anyone = ""
    UserOf <- MCUserOf
    WorkspaceOf <- MCWorkspaceOf
    PriorityOf <- MCPriorityOf
    MaxPerUser = 1
    MaxPerWorkspace = 1
    Outcomes <- MCOutcomes
    MaxCancels = 1
    Stubborn <- MCStubborn
SPECIFICATION RenderSpec
INVARIANTS
    NoLostWakeup
    NoGhostRender
    DelegatesBounded
PROPERTIES
    ImplementsAdmission
SYMMETRY WorkerSymmetry
CHECK_DEADLOCK FALSE
