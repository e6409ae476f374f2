\* Files the user has reviewed or asked for, one component for each behaviour.
CONSTANTS
    h1 = h1
    TaskKeys = {k1, k2}
    TaskHandlers = {h1, h2}
    Vaults = {v1, v2}
    MaxNoteEdits = 1
    MaxCoreStops = 1
    WorkHandlers = {h1, h2}
    Paths = {p1, p2}
    Targets = {p1}
    MaxVersion = 1
    MaxRepoEdits = 1
    MaxPackages = 2
    MaxFiles = 2
    MaxWorkStops = 2
    LastFile = 3
    MaxFileEdits = 1
    MaxFileFaults = 2
    MaxRestoreStops = 1
    ReportKeys = {r1}
    DeckKeys = {d1, d2}
    Ledgers <- ModelLedgers
    Writers = {w}
    Templates = {t}
    Looks = {x, y}
    BuiltIn = b
    ExportKeys = {e}
    LastVersion = 3
    KeptArtifacts = 1
    MaxPublications = 2
    MaxDownloads = 2
    MaxLaunches = 2
    MaxUpdateFaults = 1
    ToolNames = {"r", "s"}
    Sizes = {1, 2}
    Times = {1, 2, 3}
    MaxModelTurns = 3
    MaxToolCalls = 1
    MaxRetries = 1
    MaxWallTime = 2
    MaxOutputBytes = 3
    MaxWord = 4
    NoTool = NoTool
    GroupSizes = {1, 7}
    MaxReplies = 3
    MaxContextStops = 1
    Releases = {1, 2, 4}
    MaxOpens = 4
    MaxWrites = 2
SPECIFICATION Spec
INVARIANTS
    EffectsTypeOK
    ReviewedIsWritten
    EvidenceIsSound
    UpdatesAreSafe
PROPERTIES
    RestoreIsAllOrNothing
SYMMETRY Symmetry
CHECK_DEADLOCK FALSE
