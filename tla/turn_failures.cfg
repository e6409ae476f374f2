\* One key, two requests; Core stops once and two storage calls fail.
CONSTANTS
    Keys = {t1}
    Clients = {c1, c2}
    Contents = {p1}
    NoKey = NoKey
    NoContent = NoContent
    MaxCrashes = 1
    MaxFaults = 2
SPECIFICATION FairSpec
INVARIANTS
    TypeOK
    OneEnd
    CancelledIsNeverCompleted
    OutboundOnce
    OpenOperationIsOwned
PROPERTIES
    LifecycleRefined
    TurnsEnd
CHECK_DEADLOCK FALSE
