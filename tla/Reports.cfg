\* Two templates, up to three replicas and three changes; a limit of three units read
\* two at a time; every snapshot.
CONSTANTS
    Templates = {t1, t2}
    MaxReplicas = 3
    MaxChanges = 3
    ReadLimit = 3
    BufferSize = 2
    MaxWritten = 5
    MaxContainers = 2
    MaxNodes = 2
    MaxEndpoints = 2
    ClusterNodes <- MCClusterNodes
SPECIFICATION Spec
INVARIANTS
    RolloutReportExplained
    LogsExplained
    AllClearExplained
\* A call that has answered is over.
CHECK_DEADLOCK FALSE
