\* Two requests and the task of one run; Core stops once and one storage call of the task fails, anywhere.
CONSTANTS
    Clients = {k1, k2}
    Calls = {c1}
    NoCall = NoCall
    MintsIds = TRUE
    AdvanceAuths <- NoDecision
    MaxIterations = 1
    MaxRepairs = 0
    MaxProviderRetries = 0
    MaxUsage = 1
    MaxBatch = 1
    MaxSeq = 4
    MaxFreezes = 1
    MaxCrashes = 1
    MaxFaults = 1
SPECIFICATION Spec
SYMMETRY Symmetry
INVARIANTS
    TypeOK
    WaitingRunNamesItsCall
    OwnerIsCurrent
    CheckpointUncontended
    EffectsRepeatOnlyByFailure
PROPERTIES
    LifecycleRefined
    EffectsAreAuthorized
    SpendingIsKept
CHECK_DEADLOCK FALSE
