\* One undo after one restart.
CONSTANTS
    Calls = {c1}
    Images = {"a", "b"}
    MaxRestarts = 1
    FirstRevision = 1
    MaxRevision = 3
    HistoryLimit = 2
SPECIFICATION Spec
PROPERTIES
    UndoRestoresTemplate
