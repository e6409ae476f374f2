\* One component for each behaviour. Of two to four rows, two requests each, and
\* as many times, edits and faults as let the requests meet.
CONSTANTS
    a = a
    b = b
    c = c
    d = d
    MemoryIds = {a, b}
    MemoryClients = {c, d}
    SummaryRuns = {e}
    Texts = {t, u}
    MemorySource = g
    SuggestionTtl = 1
    PageLimit = 1
    MaxMemoryTime = 2
    MaxMemoryChanges = 2
    StudyHandlers = {c, d}
    Objectives = {a, b}
    VaultNotes = {n}
    AttemptKeys = {k}
    MaxPrepares = 2
    MaxStudyEdits = 0
    MaxStudyEnds = 1
    Items = {i}
    LaneOf <- ModelLane
    Refreshers = {r, s}
    Scheduler = s
    FeedTtl = 1
    Retention = 1
    MaxRadarTime = 2
    MaxRadarChanges = 2
    MaxRadarFaults = 1
    TodoKeys = {"k1", "k2"}
    TodoClients = {c, d}
    VaultTasks <- ModelTasks
    PageSize = 1
    MaxStamp = 3
    SettingSavers = {c, d}
    MaxRevisions = 3
    MaxXRestarts = 1
    NoSaver = NoSaver
    XTopics = {i, j}
    Linked = {i}
    Composers = {e, f}
    Jobs = {f}
    PublicRuns = {g}
    Tabs = {c, d}
    MaxDrafts = 2
    MaxXStamp = 3
    Candidates <- ModelCandidates
    Canonical <- ModelCanonical
    Payloads <- ModelPayloads
    MaxFound = 2
    SessionIds = {a, b}
    Profiles = {p}
    SafeMode = safe
    Posters = {c, d}
    CopyLimit = 1
    ExportPageSize = 1
    MaxMessages = 2
    MaxTimes = 4
    MaxProfileChanges = 0
    Editors = {c, d}
    MaxEdits = 3
    PageRows = {1, 2, 3}
    RowsPerPage = 1
    MaxPageTime = 2
    Playlists = {a, b}
    Songs = {s, t}
    Places = {p, q}
    Nothing = Nothing
    DailyHandlers = {c, d}
    MaxDailyRequests = 4
    Findings <- ModelFindings
    Replies <- ModelReplies
    BufferLimit = 12
    MaxStreamFaults = 1
    MaxOutput = 3
    Notes = {a, b}
    LoadIds = {c, d}
    MaxVaultEdits = 3
    MaxWatchFaults = 1
SPECIFICATION Spec
INVARIANTS
    LibraryTypeOK
    DecisionsAreKept
    ListsAreWhole
    AnswersAreOfTheirSource
PROPERTIES
    SuccessorsAreWhole
SYMMETRY Symmetry
CHECK_DEADLOCK FALSE
