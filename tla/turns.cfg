\* Two keys and two requests: previews, duplicates, cancellations, archive and deletion.
CONSTANTS
    Keys = {t1, t2}
    Clients = {c1, c2}
    Contents = {p1}
    NoKey = NoKey
    NoContent = NoContent
    MaxCrashes = 0
    MaxFaults = 0
SPECIFICATION Spec
SYMMETRY Symmetry
INVARIANTS
    PreviewsUsedOnce
    AnswersAreOfCompleted
CHECK_DEADLOCK FALSE
