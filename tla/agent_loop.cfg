\* The task of one run and one request, fairly scheduled: two iterations, replies of two calls, one repair, one retry; one storage call fails.
CONSTANTS
    Clients = {k1}
    Calls = {c1}
    NoCall = NoCall
    MintsIds = TRUE
    AdvanceAuths <- NoDecision
    MaxIterations = 2
    MaxRepairs = 1
    MaxProviderRetries = 1
    MaxUsage = 1
    MaxBatch = 2
    MaxSeq = 4
    MaxFreezes = 0
    MaxCrashes = 0
    MaxFaults = 1
SPECIFICATION FairSpec
INVARIANTS
    BudgetsHold
PROPERTIES
    TasksHandBack
CHECK_DEADLOCK FALSE
