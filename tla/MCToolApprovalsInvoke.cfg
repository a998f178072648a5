CONSTANTS
    c1 = c1
    c2 = c2
    manual = manual
    step = step
    write = write
    read = read
    a1 = a1
    a2 = a2
    Calls <- InvokeCalls
    Mode <- InvokeMode
    Tool <- InvokeTool
    Request <- InvokeRequest
    Deferred <- InvokeCalls
    SideEffecting = {write}
    Adjustable = {}
    Answers <- MCAnswers
    CacheLimit = 2
    MaxChanges = 0
SPECIFICATION ApprovalsSpec
INVARIANTS
    RepliesAreOwn
