\* Two calls of any tools on one object, two writes of others, one failure;
\* manifests of up to four documents.
CONSTANTS
    Calls = {c1, c2}
    ContainerNames = {"debugger", "shell"}
    MaxOthers = 2
    MaxFailures = 1
    MaxDocuments = 4
    MaxManifest = 3
    ApplyFailures = 1
SPECIFICATION Spec
INVARIANTS
    ApplyExplained
PROPERTIES
    UndoesOnlyOwnField
    KeepsExistingKeys
    AttachesAtomically
\* Calls end.
CHECK_DEADLOCK FALSE
