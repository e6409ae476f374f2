\* Pairing, schedules, subtasks and extension tools, and the Desktop, one for each behaviour.
CONSTANTS
    a = a
    b = b
    c = c
    d = d
    e = e
    f = f
    Tabs = {a, b}
    Commands = {c, d}
    PairingTtl = 2
    TokenTtl = 2
    Grace = 1
    Refresh = 1
    MaxTime = 3
    MaxLosses = 1
    MaxTokens = 4
    Schedules = {a, b}
    Callers = {c, d}
    ManualKeys = {k1}
    NoId = NoId
    Recurrences = {{1, 2}}
    Jobs = {"local", "radar", "draft"}
    BatchLimit = 2
    MaxClock = 2
    MaxChanges = 3
    MaxStops = 1
    MaxScheduleFaults = 1
    SubtaskIds = {a, b, e}
    SubtaskClients = {c, d, f}
    ParentOf <- OneParent
    Slots = 2
    PerParent = 2
    MaxLeaves = 2
    Tools = {e}
    Skill = f
    Manifests = {a, b}
    NoManifest = NoManifest
    Pages = {g}
    ToolCallers = {c, d}
    CallKeys = {a, b}
    RevisionLimit = 1
    MaxPackageChanges = 5
    MaxSends = 3
    MaxToolStops = 1
    Vaults = {v1, v2}
    NoVault = NoVault
    MaxThreads = 2
    RetryLimit = 2
    HeartbeatLimit = 2
    MaxCores = 14
    MaxSwitches = 1
    MaxQuits = 1
    MaxDesktopFaults = 2
    DayLength = 4
    WeekLength = 3
    LookAhead = 1
    Window = 17
    Rules <- ModelRules
    Shifts <- ModelShifts
    ChangesAt = {5, 6, 7, 8}
    Starts = {1, 2, 3, 4, 5, 6}
    MaxFired = 3
SPECIFICATION Spec
INVARIANTS
    ServicesTypeOK
    TokensAreCurrent
    CalledOnce
    ReviewedVersionRuns
    CoreFollowsVault
PROPERTIES
    SchedulesAreKept
SYMMETRY Symmetry
CHECK_DEADLOCK FALSE
