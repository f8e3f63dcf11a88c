SPECIFICATION FairSpec
CONSTANTS
    k1 = k1
    Keys <- MCKeys
    Budget = 1
    MaxRuns = 2
    MaxCalls = 2
    MaxReplies = 2
INVARIANTS
    TypeOK
    PendingOnlyWhileCalled
    SoloBudget
    CacheOfThisRun
PROPERTIES
    ToolCallsImplemented
    EveryCallEnds
CHECK_DEADLOCK FALSE
