\* Command lines that differ in what the checks look at; each tool of each.
CONSTANTS
    Settings <- AllSettings
    Namespaces = {"default", "kube-system", "team"}
    Privileged = {"kube-system"}
    Kinds = {"Deployment", "Secret", "Node"}
    ClusterKinds = {"Node"}
    Images = {"tools", "shell"}
    Accounts = {"default", "probe"}
SPECIFICATION Spec
INVARIANTS
    FlagsGovern
    ScopeExplained
    HandlersRefuseAlone
    SaysWhatItDoes
    OpenOnlyAsExplained
\* A refused or failed start ends the program.
CHECK_DEADLOCK FALSE
