\* Two names, of any owner each; a budget of one; one deletion, uncordon or pod
\* of others and one replacement under each name.
CONSTANTS
    Pods = {p1, p2}
    Owners = {"ReplicaSet", "StatefulSet", "DaemonSet", "none", "mirror", "static"}
    Volumed = {"ReplicaSet", "StatefulSet", "none"}
    MinAvailable = 1
    MaxUid = 2
    MaxOthers = 1
SPECIFICATION Spec
SYMMETRY PodSymmetry
INVARIANTS
    LeftoverExplained
PROPERTIES
    EvictionsExplained
\* The drain answers and the cluster comes to rest.
CHECK_DEADLOCK FALSE
