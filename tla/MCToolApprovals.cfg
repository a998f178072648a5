CONSTANTS
    c1 = c1
    c2 = c2
    manual = manual
    step = step
    write = write
    read = read
    Calls <- MCCalls
    Mode <- MCMode
    Tool <- MCTool
    Request <- MCRequest
    Deferred = {}
    SideEffecting = {write}
    Adjustable = {write}
    a1 = a1
    a2 = a2
    Answers <- MCAnswers
    CacheLimit = 1
    MaxChanges = 1
SPECIFICATION LiveApprovalsSpec
INVARIANTS
    ApprovalsTypeOK
    RunsAsAnswered
    SideEffectsOnce
    RepeatsAreReplayed
PROPERTIES
    DenialHolds
    NoAnswerAfterReturn
    AnswersTakeEffect
CONSTRAINT Apart
