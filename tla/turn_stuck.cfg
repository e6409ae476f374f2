\* A cancellation arrives while the task fails its operation.
CONSTANTS
    Keys = {t1}
    Clients = {c1}
    Contents = {p1}
    NoKey = NoKey
    NoContent = NoContent
    MaxCrashes = 0
    MaxFaults = 0
SPECIFICATION FairSpec
PROPERTIES
    OperationsEnd
CHECK_DEADLOCK FALSE
