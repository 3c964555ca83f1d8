---- MODULE Policy ----
(***************************************************************************)
(* From the command line to a request: flags and environment become a      *)
(* configuration (internal/config), the configuration a policy             *)
(* (internal/security) and a set of registered tools (internal/mcpserver), *)
(* and every handler's own checks decide which requests a call sends.  A   *)
(* handler is a row of its package's table: where it looks, and so which   *)
(* check of the policy it makes.                                           *)
(***************************************************************************)
EXTENDS FiniteSets

CONSTANTS Settings,     \* the command lines and environments considered
          Namespaces,
          Privileged,   \* rpc.PrivilegedNamespaces
          Kinds,        \* the kinds discovery knows
          ClusterKinds, \* those of them that have no namespace
          Images, Accounts

Default       == "default"
ControlPlane  == "kube-system"
NoNamespace   == "(cluster)"  \* a request for a cluster-scoped resource
AllNamespaces == "(all)"      \* a request across all namespaces
Unknown       == "(unknown)"  \* a kind discovery does not know

ASSUME PolicyAssumption ==
    /\ Default \in Namespaces /\ ControlPlane \in Privileged
    /\ Privileged \subseteq Namespaces
    /\ {NoNamespace, AllNamespaces, ""} \cap Namespaces = {}
    /\ ClusterKinds \subseteq Kinds
    /\ \A s \in Settings :
          /\ {s.cert, s.key} \subseteq BOOLEAN
          /\ s.ca \in {"none", "good", "unreadable"}
          /\ s.token \in {"none", "good", "blank"}
          /\ s.tokenFile \in {"none", "good", "blank", "unreadable"}

VARIABLES setting,  \* what the server is started with
          phase,    \* "starting", "refused", "built", "failed" or "serving"
          config,   \* the validated switches
          policy,   \* security.Policy
          tools,    \* the registered tools
          serving,  \* how it listens
          sent      \* the requests of the call in hand

vars == <<setting, phase, config, policy, tools, serving, sent>>

Switches == {"writes", "destructive", "debug", "privileged", "reveal", "insecure"}

\* A boolean flag: the command line, or else the environment, where anything
\* but "true" and "1" is off.
Says(s, f) == IF s.given[f] = "unset" THEN s.env[f] = "on" ELSE s.given[f] = "on"

----------------------------------------------------------------------------
\* Mutated forms of the definitions below.

\* Only the wildcard addresses count as open to others.
IsLoopbackListenUnlessWildcard(s) == s.listen # "wildcard"

\* Debug is looked at before writes.
InstructionsDebugFirst(p) ==
    CASE p.destructive -> "read-write-destructive"
      [] ~p.destructive /\ p.debug -> "read-debug"
      [] ~p.destructive /\ ~p.debug /\ p.writes -> "read-write"
      [] OTHER -> "read-only"

\* Being allowed to write is enough.
CheckDestructiveAsMutating(p) == p.writes

\* The destructive tools come with the other operations.
DestroyRegisteredAlways(p) == TRUE

\* An allowlist is no reason to refuse a list of all namespaces.
ListAllowedUnscoped(p, a) ==
    \/ a.all
    \/ ~a.all /\ (a.ns \in Privileged => p.privileged)
              /\ (a.ns = "" \/ p.namespaces = {} \/ a.ns \in p.namespaces)

----------------------------------------------------------------------------
\* Configuration.

\* FromFlags: the switches as the flags and the environment give them.
FromFlags(s) == [f \in Switches |-> Says(s, f)]

IsLoopbackListen(s) == s.listen = "loopback"

ValidateHTTPExposure(s) ==
    \/ IsLoopbackListen(s)
    \/ s.cert /\ s.key
    \/ s.token # "none" \/ s.tokenFile # "none"

\* The checks of Validate.  "numbers" stands for the numeric settings, which must
\* be in range; the transport is compared without regard to case.
Valid(s) ==
    /\ s.transport \in {"stdio", "http", "HTTP"}
    /\ s.numbers = "in range"
    /\ s.token = "none" \/ s.tokenFile = "none"
    /\ \/ s.transport = "stdio" \/ Says(s, "insecure")
       \/ ValidateHTTPExposure(s)

\* What Validate adds: destructive implies writes.
Validated(s) ==
    [FromFlags(s) EXCEPT !["writes"] = @ \/ Says(s, "destructive")]

CategoryEnabled(s, name) == s.categories = {} \/ name \in s.categories

\* "blank": white space only, which TrimSpace makes empty.
HasAuthToken(s) ==
    \/ s.tokenFile = "good"
    \/ s.tokenFile \in {"none", "unreadable"} /\ s.token = "good"

----------------------------------------------------------------------------
\* Policy: its fields, and the checks the handlers call.

FromConfig(s, c) ==
    [writes      |-> c["writes"] \/ c["destructive"],
     destructive |-> c["destructive"],
     debug       |-> c["debug"],
     privileged  |-> c["privileged"],
     reveal      |-> c["reveal"],
     namespaces  |-> s.namespaces,
     kinds       |-> s.kinds,
     forbidden   |-> s.forbidden,
     accounts    |-> s.accounts]

CheckMutating(p)    == p.writes
CheckDestructive(p) == p.destructive
CheckDebug(p)       == p.debug

CheckNamespace(p, ns) == p.namespaces = {} \/ ns \in p.namespaces

CheckTarget(p, ns, clusterScoped) ==
    /\ clusterScoped => p.privileged
    /\ ns \in Privileged => p.privileged

CheckManifestKind(p, kind) == p.kinds = {} \/ kind \in p.kinds
CheckImage(p, image)       == image \notin p.forbidden

CheckDebugServiceAccount(p, account) ==
    LET sa == IF account = "" THEN Default ELSE account
    IN  IF p.accounts = {} THEN sa = Default ELSE sa \in p.accounts

CheckSecretReveal(p, requested) == requested => p.reveal

CheckScope(p, ns, clusterScoped) ==
    /\ CheckTarget(p, ns, clusterScoped)
    /\ ~clusterScoped /\ ns # "" => CheckNamespace(p, ns)

ResolveNS(ns) == IF ns = "" THEN Default ELSE ns

----------------------------------------------------------------------------
\* The tools of each package, each with the place it acts on:
\*   "cluster"    a cluster-scoped resource, read without a check
\*   "list"       a namespace, or all of them
\*   "named"      a resource in a namespace
\*   "shown"      a resource of any kind, read
\*   "kind"       a resource of any kind, changed
\*   "document"   a document of a manifest
\*   "node"       a node or a namespace, changed
\*   "pod"        a pod, deleted

CoreTools ==
    [list_namespaces   |-> "cluster", get_namespace  |-> "cluster",
     get_api_resources |-> "cluster", cluster_health |-> "cluster",
     list_nodes        |-> "cluster", get_node       |-> "cluster",
     describe_node     |-> "cluster"]

EventTools == [list_events |-> "list"]

AppTools ==
    [list_pods         |-> "list", get_pod         |-> "named",
     list_deployments  |-> "list", get_deployment  |-> "named",
     list_statefulsets |-> "list", list_daemonsets |-> "list",
     list_replicasets  |-> "list"]

BatchTools == [list_jobs |-> "list", list_cronjobs |-> "list"]

NetworkTools ==
    [list_services  |-> "list", get_service         |-> "named",
     get_endpoints  |-> "named", list_ingresses     |-> "list",
     list_networkpolicies |-> "list", check_connectivity |-> "named"]

ConfigTools ==
    [list_configmaps |-> "list", get_configmap |-> "named",
     list_secrets    |-> "list", get_secret    |-> "named",
     list_pvcs       |-> "list", list_storageclasses |-> "cluster"]

TopTools == [top_nodes |-> "cluster", top_pods |-> "list"]

DiagnosisTools == [diagnose_pod |-> "named", diagnose_node |-> "cluster"]

TroubleshootTools ==
    [get_logs |-> "named", describe |-> "shown",
     rollout_status |-> "named", rollout_history |-> "named"]

OperationTools ==
    [apply_manifest |-> "document", patch |-> "kind", scale |-> "named",
     rollout_restart |-> "named", rollout_undo |-> "named",
     label |-> "kind", annotate |-> "kind", uncordon_node |-> "node"]

CreateTools ==
    [create_namespace |-> "node", create_configmap |-> "named",
     update_configmap |-> "named", create_secret |-> "named"]

ServiceTools == [create_service |-> "named"]

DeleteTools == [delete_pod |-> "pod", delete_manifest |-> "kind"]

NodeTools == [cordon_node |-> "node", drain_node |-> "node"]

DebugTools ==
    [exec_command |-> "named", add_ephemeral_container |-> "named",
     port_forward |-> "named", run_debug_pod |-> "named"]

Core         == DOMAIN CoreTools \cup DOMAIN EventTools
Workloads    == DOMAIN AppTools \cup DOMAIN BatchTools
Network      == DOMAIN NetworkTools
ConfigStore  == DOMAIN ConfigTools
Troubleshoot == DOMAIN TopTools \cup DOMAIN DiagnosisTools \cup DOMAIN TroubleshootTools
Writing      == DOMAIN OperationTools \cup DOMAIN CreateTools \cup DOMAIN ServiceTools
Destroying   == DOMAIN DeleteTools \cup DOMAIN NodeTools
Debugging    == DOMAIN DebugTools
Reading      == Core \cup Workloads \cup Network \cup ConfigStore \cup Troubleshoot
AllTools     == Reading \cup Writing \cup Destroying \cup Debugging

ToolTables ==
    {CoreTools, EventTools, AppTools, BatchTools, NetworkTools, ConfigTools, TopTools,
     DiagnosisTools, TroubleshootTools, OperationTools, CreateTools, ServiceTools,
     DeleteTools, NodeTools, DebugTools}

PlaceOf(t) == (CHOOSE table \in ToolTables : t \in DOMAIN table)[t]

EffectOf(t) ==
    CASE t \in Reading    -> "read"
      [] t \in Writing    -> "write"
      [] t \in Destroying -> "destructive"
      [] t \in Debugging  -> "debug"

\* What a call is asked.  Arguments a tool does not have keep one value.
Arguments(t) ==
    [ns      : Namespaces \cup {""},
     all     : IF PlaceOf(t) = "list" THEN BOOLEAN ELSE {FALSE},
     kind    : IF PlaceOf(t) \in {"shown", "kind", "document"}
               THEN Kinds \cup {Unknown} ELSE {Unknown},
     reveal  : IF t = "get_secret" THEN BOOLEAN ELSE {FALSE},
     image   : IF t \in {"add_ephemeral_container", "run_debug_pod"}
               THEN Images ELSE {CHOOSE i \in Images : TRUE},
     account : IF t = "run_debug_pod" THEN Accounts \cup {""} ELSE {""}]

----------------------------------------------------------------------------
\* What the handlers check.

\* The flag once more.  The two tools that mark nodes leave it to registration.
FlagAllowed(p, t) ==
    CASE t \in {"cordon_node", "uncordon_node"} -> TRUE
      [] t \in Reading -> TRUE
      [] t \in Writing \ {"uncordon_node"} -> CheckMutating(p)
      [] t \in Destroying \ {"cordon_node"} -> CheckDestructive(p)
      [] t \in Debugging -> CheckDebug(p)

\* Toolkit.ResolveList.
ListAllowed(p, a) ==
    \/ a.all /\ p.namespaces = {}
    \/ ~a.all /\ CheckScope(p, ResolveNS(a.ns), FALSE)

\* describe: a cluster-scoped kind is shown, if no namespace comes with it.
DescribeAllowed(p, a) ==
    /\ a.kind \in Kinds
    /\ a.kind \in ClusterKinds => a.ns = ""
    /\ a.kind \notin ClusterKinds => CheckScope(p, ResolveNS(a.ns), FALSE)

\* policyTarget of the kind's scope, after ResolveGVR found the kind.
KindAllowed(p, a) ==
    /\ a.kind \in Kinds
    /\ CheckScope(p, ResolveNS(a.ns), a.kind \in ClusterKinds)

\* A document without a namespace gets the call's, whatever its kind; the
\* namespace must be in the allowlist even where the kind has none.
DocumentAllowed(p, a) ==
    /\ a.kind \in Kinds
    /\ CheckManifestKind(p, a.kind)
    /\ CheckTarget(p, ResolveNS(a.ns), a.kind \in ClusterKinds)
    /\ CheckNamespace(p, ResolveNS(a.ns))

DeletePodAllowed(p, a) == CheckNamespace(p, ResolveNS(a.ns))

PlaceAllowed(p, t, a) ==
    CASE PlaceOf(t) = "cluster"  -> TRUE
      [] PlaceOf(t) = "list"     -> ListAllowed(p, a)
      [] PlaceOf(t) = "named"    -> CheckScope(p, ResolveNS(a.ns), FALSE)
      [] PlaceOf(t) = "shown"    -> DescribeAllowed(p, a)
      [] PlaceOf(t) = "kind"     -> KindAllowed(p, a)
      [] PlaceOf(t) = "document" -> DocumentAllowed(p, a)
      [] PlaceOf(t) = "node"     -> CheckTarget(p, "", TRUE)
      [] PlaceOf(t) = "pod"      -> DeletePodAllowed(p, a)

DebugAllowed(p, t, a) ==
    /\ t \in {"add_ephemeral_container", "run_debug_pod"} => CheckImage(p, a.image)
    /\ t = "run_debug_pod" => CheckDebugServiceAccount(p, a.account)

Allowed(p, t, a) ==
    /\ FlagAllowed(p, t)
    /\ PlaceAllowed(p, t, a)
    /\ DebugAllowed(p, t, a)
    /\ CheckSecretReveal(p, a.reveal)

----------------------------------------------------------------------------
\* What the handlers send.

\* Where the requests of a call go.  cluster_health lists the control plane's
\* pods; diagnose_node lists events, drain_node pods, of all namespaces.
Where(t, a) ==
    CASE t = "cluster_health"                -> {NoNamespace, ControlPlane}
      [] t \in {"diagnose_node", "drain_node"} -> {NoNamespace, AllNamespaces}
      [] t \notin {"cluster_health", "diagnose_node", "drain_node"} ->
           IF \/ PlaceOf(t) \in {"cluster", "node"}
              \/ PlaceOf(t) \in {"shown", "kind", "document"} /\ a.kind \in ClusterKinds
           THEN {NoNamespace}
           ELSE IF a.all THEN {AllNamespaces} ELSE {ResolveNS(a.ns)}

\* The values of a Secret are in the answer: get_secret shows them when asked;
\* describe masks them always.
ShowsSecrets(t, a) == t = "get_secret" /\ a.reveal

Requests(p, t, a) ==
    IF Allowed(p, t, a)
    THEN {[tool |-> t, effect |-> EffectOf(t), where |-> w, plain |-> ShowsSecrets(t, a),
           image |-> IF t \in {"add_ephemeral_container", "run_debug_pod"}
                     THEN {a.image} ELSE {}] : w \in Where(t, a)}
    ELSE {}

----------------------------------------------------------------------------
\* Registration.

DestroyRegistered(p) == p.destructive

Registered(s, p) ==
    UNION {IF CategoryEnabled(s, "core") THEN Core ELSE {},
           IF CategoryEnabled(s, "workloads") THEN Workloads ELSE {},
           IF CategoryEnabled(s, "troubleshoot") THEN Troubleshoot ELSE {},
           IF CategoryEnabled(s, "network") THEN Network ELSE {},
           IF CategoryEnabled(s, "configstore") THEN ConfigStore ELSE {},
           IF CategoryEnabled(s, "operations") /\ p.writes
           THEN Writing \cup (IF DestroyRegistered(p) THEN Destroying ELSE {})
           ELSE {},
           IF CategoryEnabled(s, "debug") /\ p.debug THEN Debugging ELSE {}}

\* The mode the server's instructions tell the client.
Instructions(p) ==
    CASE p.destructive -> "read-write-destructive"
      [] ~p.destructive /\ p.writes -> "read-write"
      [] ~p.destructive /\ ~p.writes /\ p.debug -> "read-debug"
      [] OTHER -> "read-only"

----------------------------------------------------------------------------
NoPolicy  == "none"
NotServing == [transport |-> "none", tls |-> FALSE, token |-> FALSE]

Init ==
    /\ setting \in Settings
    /\ phase = "starting"
    /\ config = FromFlags(setting)
    /\ policy = NoPolicy
    /\ tools = {}
    /\ serving = NotServing
    /\ sent = {}

\* FromFlags refuses what Validate refuses.
Refuse ==
    /\ phase = "starting" /\ ~Valid(setting)
    /\ phase' = "refused"
    /\ UNCHANGED <<setting, config, policy, tools, serving, sent>>

\* main: validate, FromConfig, Build.
Build ==
    /\ phase = "starting" /\ Valid(setting)
    /\ config' = Validated(setting)
    /\ policy' = FromConfig(setting, config')
    /\ tools' = Registered(setting, policy')
    /\ phase' = "built"
    /\ UNCHANGED <<setting, serving, sent>>

\* Run: anything but "http", spelled so, is stdio.
RunStdio ==
    /\ phase = "built" /\ setting.transport # "http"
    /\ serving' = [NotServing EXCEPT !.transport = "stdio"]
    /\ phase' = "serving"
    /\ UNCHANGED <<setting, config, policy, tools, sent>>

\* runHTTP.  There is a TLS configuration only with a client CA.
RunHTTP ==
    /\ phase = "built" /\ setting.transport = "http" /\ setting.ca # "unreadable"
    /\ serving' = [transport |-> "http",
                   tls   |-> setting.ca = "good" /\ setting.cert /\ setting.key,
                   token |-> HasAuthToken(setting)]
    /\ phase' = "serving"
    /\ UNCHANGED <<setting, config, policy, tools, sent>>

TLSFails ==
    /\ phase = "built" /\ setting.transport = "http" /\ setting.ca = "unreadable"
    /\ phase' = "failed"
    /\ UNCHANGED <<setting, config, policy, tools, serving, sent>>

\* A call of a registered tool.
Call ==
    /\ phase = "serving" /\ sent = {}
    /\ \E t \in tools : \E a \in Arguments(t) : sent' = Requests(policy, t, a)
    /\ UNCHANGED <<setting, phase, config, policy, tools, serving>>

\* Its requests are answered.
Answer ==
    /\ sent # {}
    /\ sent' = {}
    /\ UNCHANGED <<setting, phase, config, policy, tools, serving>>

Next == Refuse \/ Build \/ RunStdio \/ RunHTTP \/ TLSFails \/ Call \/ Answer

Spec == Init /\ [][Next]_vars

----------------------------------------------------------------------------
\* Properties.

CategoryOf(t) ==
    CASE t \in Core -> "core"
      [] t \in Workloads -> "workloads"
      [] t \in Troubleshoot -> "troubleshoot"
      [] t \in Network -> "network"
      [] t \in ConfigStore -> "configstore"
      [] t \in Writing \cup Destroying -> "operations"
      [] t \in Debugging -> "debug"

\* The switch an effect needs.
Needs(effect) ==
    CASE effect = "read"        -> {}
      [] effect = "write"       -> {"writes", "destructive"}
      [] effect = "destructive" -> {"destructive"}
      [] effect = "debug"       -> {"debug"}

\* Every request was enabled by whoever started the server: the flag of its
\* effect is on, its category is enabled, no forbidden image is run, and the
\* values of a Secret are shown only under --reveal-secrets.  (The path from a flag
\* to a handler: config/flags.go, config.Validate, security.FromConfig,
\* App.register and the handlers' checks.)
FlagsGovern ==
    \A r \in sent :
        /\ Needs(r.effect) = {} \/ \E f \in Needs(r.effect) : Says(setting, f)
        /\ CategoryEnabled(setting, CategoryOf(r.tool))
        /\ r.plain => Says(setting, "reveal")
        /\ r.image \cap setting.forbidden = {}

\* A request that reaches a control-plane namespace: one for it, or one across all.
Reaches(where) == where \in Privileged \cup {AllNamespaces}

\* Requests stay in the namespace allowlist and away from the control plane's
\* namespaces and from changes to cluster-scoped resources, as configured; the
\* exceptions are these: cluster-scoped reads, which no allowlist restricts;
\* cluster_health and diagnose_node, which look across namespaces; drain_node, which
\* does so with the privileged flag and past the allowlist; a list of all namespaces,
\* which without an allowlist shows the control plane's too; and delete_pod, which
\* does not ask whether its namespace is privileged (tools/util.go:33-69,
\* core/core.go:202, troubleshoot/top.go:56, operations/delete.go:54).  The last two
\* are against PLAN.md:356, which wants the privileged flag for them.
ScopeExplained ==
    \A r \in sent :
        /\ \/ setting.namespaces = {} \/ r.where \in setting.namespaces
           \/ r.where = NoNamespace
           \/ r.tool \in {"cluster_health", "diagnose_node", "drain_node"}
        /\ Reaches(r.where) =>
              \/ Says(setting, "privileged")
              \/ r.tool \in {"cluster_health", "diagnose_node", "delete_pod"}
              \/ /\ PlaceOf(r.tool) = "list" /\ r.where = AllNamespaces
                 /\ setting.namespaces = {}
        /\ r.where = NoNamespace /\ r.effect # "read" => Says(setting, "privileged")

\* A tool that is not registered would send no change if it were called all the
\* same, as its handler asks for the flag too ("at registration time AND inside
\* each mutating handler", security/policy.go:3); except cordon_node and
\* uncordon_node, and tools whose category is switched off, which no handler
\* looks at.
HandlersRefuseAlone ==
    phase = "built" =>
        \A t \in AllTools \ (tools \cup {"cordon_node", "uncordon_node"}) :
            EffectOf(t) # "read" /\ CategoryEnabled(setting, CategoryOf(t)) =>
                \A a \in Arguments(t) : Requests(policy, t, a) = {}

\* The mode in the server's instructions is true of every request: "read-only"
\* and "read-debug" servers write nothing, only a "destructive" one deletes or
\* evicts (mcpserver/server.go:245).
SaysWhatItDoes ==
    \A r \in sent :
        LET mode == Instructions(policy)
        IN  /\ r.effect = "write" => mode \in {"read-write", "read-write-destructive"}
            /\ r.effect = "destructive" => mode = "read-write-destructive"
            /\ r.effect = "debug" => mode # "read-only"

\* A server that serves plain HTTP without a token beyond loopback was started
\* with --insecure-http, or is one of the cases Validate takes for covered and
\* runHTTP does not: a certificate and a key without a client CA, for which no
\* TLS configuration is made, and a token that is blank or cannot be read
\* (config/config.go:155, mcpserver/server.go:146-159).
OpenOnlyAsExplained ==
    /\ serving.transport = "http" /\ setting.listen # "loopback"
    /\ ~serving.tls /\ ~serving.token
    => \/ Says(setting, "insecure")
       \/ setting.cert /\ setting.key /\ setting.ca = "none"
       \/ setting.token = "blank" \/ setting.tokenFile \in {"blank", "unreadable"}
====
