\* One Profile that is edited once, two sessions and one request.
CONSTANTS
    SessionIds = {a, b}
    Profiles = {p}
    SafeMode = safe
    Posters = {c}
    CopyLimit = 1
    ExportPageSize = 1
    MaxMessages = 2
    MaxTimes = 4
    MaxProfileChanges = 1
SPECIFICATION SessionsSpec
INVARIANT ContextIsPermitted
CHECK_DEADLOCK FALSE
