\* A provider that leaves the ids of calls to the parser: the second reply repeats the id of the first.
CONSTANTS
    Clients = {k1}
    Calls = {c1}
    NoCall = NoCall
    MintsIds = FALSE
    AdvanceAuths <- NoDecision
    MaxIterations = 2
    MaxRepairs = 0
    MaxProviderRetries = 0
    MaxUsage = 2
    MaxBatch = 1
    MaxSeq = 9
    MaxFreezes = 0
    MaxCrashes = 0
    MaxFaults = 0
SPECIFICATION Spec
INVARIANTS
    EffectsRepeatOnlyByFailure
CHECK_DEADLOCK FALSE
