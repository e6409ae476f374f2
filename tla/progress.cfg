\* A run or an operation is followed, two connections are lost and one read
\* fails; two schedules fall due, Core stops once and a storage call fails; or
\* two Vaults, a switch, a Desktop that ends and is launched again, and a fault.
CONSTANTS
    Sources = {"run", "operation"}
    PageSize = 1
    MaxLog = 2
    MaxDrops = 2
    MaxFaults = 1
    Schedules = {a, b}
    Callers = {c}
    ManualKeys = {k1}
    NoId = NoId
    Recurrences = {{1, 2}}
    Jobs = {"local", "radar", "draft"}
    BatchLimit = 2
    MaxClock = 2
    MaxChanges = 2
    MaxStops = 1
    MaxScheduleFaults = 1
    Vaults = {v1, v2}
    NoVault = NoVault
    MaxThreads = 2
    RetryLimit = 2
    HeartbeatLimit = 2
    MaxCores = 14
    MaxSwitches = 1
    MaxQuits = 1
    MaxDesktopFaults = 1
SPECIFICATION FairSpec
INVARIANT ProgressTypeOK
PROPERTIES
    FeedRefined
    FollowersAreServed
    DueIsServed
    CoreIsWatched
CHECK_DEADLOCK FALSE
