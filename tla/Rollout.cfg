\* Two undos, two images, one restart, revisions 9 to 12.
CONSTANTS
    Calls = {c1, c2}
    Images = {"a", "b"}
    MaxRestarts = 1
    FirstRevision = 9
    MaxRevision = 12
    HistoryLimit = 2
SPECIFICATION Spec
PROPERTIES
    UndoGoesBack
    RequestedRevisionHonoured
    NoOpHasReason
    RefusedOnlyWithoutHistory
