\* A run proposes a call of a tool that is updated before the call is made.
CONSTANTS
    Tools = {t}
    Skill = s
    Manifests = {m1, m2}
    NoManifest = NoManifest
    Pages = {x}
    ToolCallers = {c}
    CallKeys = {k}
    RevisionLimit = 1
    MaxPackageChanges = 4
    MaxSends = 0
    MaxToolStops = 0
SPECIFICATION ToolSpec
INVARIANT ApprovedVersionRuns
CHECK_DEADLOCK FALSE
