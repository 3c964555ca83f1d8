---- MODULE PolicyProofs ----
(* What a server may send and how it may listen, for any command line, namespaces,
   kinds, images and accounts. *)
EXTENDS Policy, TLAPS

----------------------------------------------------------------------------
\* The tools.

\* No tool is in two packages.
LEMMA PackagesApart ==
    /\ \A t \in Core : t \notin Workloads /\ t \notin Network /\ t \notin ConfigStore
                       /\ t \notin Troubleshoot
    /\ \A t \in Workloads : t \notin Network /\ t \notin ConfigStore /\ t \notin Troubleshoot
    /\ \A t \in Network : t \notin ConfigStore /\ t \notin Troubleshoot
    /\ \A t \in ConfigStore : t \notin Troubleshoot
<1> USE DEF Core, Workloads, Network, ConfigStore, Troubleshoot, CoreTools, EventTools,
            AppTools, BatchTools, NetworkTools, ConfigTools, TopTools, DiagnosisTools,
            TroubleshootTools
<1>1. \A t \in Core : t \notin Workloads /\ t \notin Network /\ t \notin ConfigStore
                      /\ t \notin Troubleshoot
  OBVIOUS
<1>2. \A t \in Workloads : t \notin Network /\ t \notin ConfigStore /\ t \notin Troubleshoot
  OBVIOUS
<1>3. \A t \in Network : t \notin ConfigStore /\ t \notin Troubleshoot
  OBVIOUS
<1>4. \A t \in ConfigStore : t \notin Troubleshoot
  OBVIOUS
<1> QED
  BY <1>1, <1>2, <1>3, <1>4

\* No tool has two effects.
LEMMA EffectsApart ==
    /\ \A t \in Writing : t \notin Reading
    /\ \A t \in Destroying : t \notin Reading /\ t \notin Writing
    /\ \A t \in Debugging : t \notin Reading /\ t \notin Writing /\ t \notin Destroying
<1> USE DEF Reading, Writing, Destroying, Debugging, OperationTools, CreateTools,
            ServiceTools, DeleteTools, NodeTools, DebugTools
<1>1. \A t \in Writing \cup Destroying \cup Debugging : t \notin Reading
  BY DEF Core, Workloads, Network, ConfigStore, Troubleshoot, CoreTools, EventTools,
         AppTools, BatchTools, NetworkTools, ConfigTools, TopTools, DiagnosisTools,
         TroubleshootTools
<1>2. \A t \in Destroying \cup Debugging : t \notin Writing
  OBVIOUS
<1>3. \A t \in Debugging : t \notin Destroying
  OBVIOUS
<1> HIDE DEF Reading, Writing, Destroying, Debugging
<1> QED
  BY <1>1, <1>2, <1>3

\* The effect of a tool is the list its package registers it in.
LEMMA EffectFacts ==
    /\ \A t \in Reading : EffectOf(t) = "read"
    /\ \A t \in Writing : EffectOf(t) = "write"
    /\ \A t \in Destroying : EffectOf(t) = "destructive"
    /\ \A t \in Debugging : EffectOf(t) = "debug"
BY EffectsApart, Zenon DEF EffectOf

\* The category of a tool is that of the package that registers it.
LEMMA CategoryFacts ==
    /\ \A t \in Core : CategoryOf(t) = "core"
    /\ \A t \in Workloads : CategoryOf(t) = "workloads"
    /\ \A t \in Troubleshoot : CategoryOf(t) = "troubleshoot"
    /\ \A t \in Network : CategoryOf(t) = "network"
    /\ \A t \in ConfigStore : CategoryOf(t) = "configstore"
    /\ \A t \in Writing \cup Destroying : CategoryOf(t) = "operations"
    /\ \A t \in Debugging : CategoryOf(t) = "debug"
<1>1. \A t \in Core \cup Workloads \cup Network \cup ConfigStore \cup Troubleshoot :
         t \notin Writing /\ t \notin Destroying /\ t \notin Debugging
  BY EffectsApart DEF Reading
<1>2. \A t \in Writing \cup Destroying \cup Debugging :
         t \notin Core /\ t \notin Workloads /\ t \notin Network /\ t \notin ConfigStore
         /\ t \notin Troubleshoot
  BY <1>1
<1>3. \A t \in Core : CategoryOf(t) = "core"
  BY <1>1, PackagesApart, Zenon DEF CategoryOf
<1>4. \A t \in Workloads : CategoryOf(t) = "workloads"
  BY <1>1, PackagesApart, Zenon DEF CategoryOf
<1>5. \A t \in Troubleshoot : CategoryOf(t) = "troubleshoot"
  BY <1>1, PackagesApart, Zenon DEF CategoryOf
<1>6. \A t \in Network : CategoryOf(t) = "network"
  BY <1>1, PackagesApart, Zenon DEF CategoryOf
<1>7. \A t \in ConfigStore : CategoryOf(t) = "configstore"
  BY <1>1, PackagesApart, Zenon DEF CategoryOf
<1>8. \A t \in Writing \cup Destroying : CategoryOf(t) = "operations"
  BY <1>2, EffectsApart, Zenon DEF CategoryOf
<1>9. \A t \in Debugging : CategoryOf(t) = "debug"
  BY <1>2, EffectsApart, Zenon DEF CategoryOf
<1> QED
  BY <1>3, <1>4, <1>5, <1>6, <1>7, <1>8, <1>9

Places == {"cluster", "list", "named", "shown", "kind", "document", "node", "pod"}

\* What a tool's place tells of it.
PlaceTold(t, place) ==
    /\ t \in AllTools /\ place \in Places
    /\ place = "cluster" => t \in Reading
    /\ place = "shown" => t \in Reading
    /\ place = "pod" => t = "delete_pod"
    /\ t \in {"drain_node", "cordon_node"} => place = "node"

\* The packages' tables name tools, each with a place that fits its effect.
LEMMA TableFacts ==
    \A table \in ToolTables : \A t \in DOMAIN table : PlaceTold(t, table[t])
<1> USE DEF PlaceTold, Places, AllTools, Reading, Writing, Destroying, Debugging
<1>1. \A table \in {CoreTools, EventTools} : \A t \in DOMAIN table : PlaceTold(t, table[t])
  BY DEF CoreTools, EventTools, Core
<1>2. \A table \in {AppTools, BatchTools} : \A t \in DOMAIN table : PlaceTold(t, table[t])
  BY DEF AppTools, BatchTools, Workloads
<1>3. \A t \in DOMAIN NetworkTools : PlaceTold(t, NetworkTools[t])
  BY DEF NetworkTools, Network
<1>4. \A t \in DOMAIN ConfigTools : PlaceTold(t, ConfigTools[t])
  BY DEF ConfigTools, ConfigStore
<1>5. \A table \in {TopTools, DiagnosisTools, TroubleshootTools} :
         \A t \in DOMAIN table : PlaceTold(t, table[t])
  BY DEF TopTools, DiagnosisTools, TroubleshootTools, Troubleshoot
<1>6. \A table \in {OperationTools, CreateTools, ServiceTools} :
         \A t \in DOMAIN table : PlaceTold(t, table[t])
  BY DEF OperationTools, CreateTools, ServiceTools
<1>7. \A table \in {DeleteTools, NodeTools} : \A t \in DOMAIN table : PlaceTold(t, table[t])
  BY DEF DeleteTools, NodeTools
<1>8. \A t \in DOMAIN DebugTools : PlaceTold(t, DebugTools[t])
  BY DEF DebugTools
<1> HIDE DEF PlaceTold
<1> QED
  BY <1>1, <1>2, <1>3, <1>4, <1>5, <1>6, <1>7, <1>8 DEF ToolTables

\* A tool's place is that of the one table it is in.
LEMMA PlaceFacts == \A t \in AllTools : PlaceTold(t, PlaceOf(t))
<1> SUFFICES ASSUME NEW t \in AllTools PROVE PlaceTold(t, PlaceOf(t))
  OBVIOUS
<1>1. \E table \in ToolTables : t \in DOMAIN table
  BY DEF AllTools, Reading, Writing, Destroying, Debugging, Core, Workloads, Network,
         ConfigStore, Troubleshoot, ToolTables
<1> QED
  BY <1>1, TableFacts DEF PlaceOf

----------------------------------------------------------------------------
\* The policy.

Configured(s) == FromConfig(s, Validated(s))

\* A switch is on or off.
LEMMA SaysFacts == \A s, f : Says(s, f) \in BOOLEAN
BY DEF Says

\* The policy FromConfig makes of a command line (config.go Validate, policy.go
\* FromConfig): the flag or what implies it.
LEMMA PolicyFacts ==
    ASSUME NEW s
    PROVE  /\ Configured(s).writes = (Says(s, "writes") \/ Says(s, "destructive"))
           /\ Configured(s).destructive = Says(s, "destructive")
           /\ Configured(s).debug = Says(s, "debug")
           /\ Configured(s).privileged = Says(s, "privileged")
           /\ Configured(s).reveal = Says(s, "reveal")
           /\ Configured(s).namespaces = s.namespaces
           /\ Configured(s).forbidden = s.forbidden
<1>1. /\ Validated(s)["destructive"] = Says(s, "destructive")
      /\ Validated(s)["debug"] = Says(s, "debug")
      /\ Validated(s)["privileged"] = Says(s, "privileged")
      /\ Validated(s)["reveal"] = Says(s, "reveal")
  BY DEF Validated, FromFlags, Switches
<1>2. Validated(s)["writes"] = (Says(s, "writes") \/ Says(s, "destructive"))
  BY DEF Validated, FromFlags, Switches
<1>3. (Validated(s)["writes"] \/ Validated(s)["destructive"])
         = (Says(s, "writes") \/ Says(s, "destructive"))
  BY <1>1, <1>2, SaysFacts, Zenon
<1>4. /\ Configured(s).writes = (Validated(s)["writes"] \/ Validated(s)["destructive"])
      /\ Configured(s).destructive = Validated(s)["destructive"]
      /\ Configured(s).debug = Validated(s)["debug"]
      /\ Configured(s).privileged = Validated(s)["privileged"]
      /\ Configured(s).reveal = Validated(s)["reveal"]
      /\ Configured(s).namespaces = s.namespaces
      /\ Configured(s).forbidden = s.forbidden
  BY DEF Configured, FromConfig
<1> QED
  BY <1>1, <1>3, <1>4

\* A tool is registered if its category is enabled and its switch is on.
LEMMA RegisteredFacts ==
    ASSUME NEW s, NEW p, NEW t \in Registered(s, p)
    PROVE  /\ t \in AllTools /\ CategoryEnabled(s, CategoryOf(t))
           /\ EffectOf(t) = "write" => p.writes
           /\ EffectOf(t) = "destructive" => p.writes /\ p.destructive
           /\ EffectOf(t) = "debug" => p.debug
           /\ EffectOf(t) \in {"read", "write", "destructive", "debug"}
<1>1. \/ t \in Core /\ CategoryEnabled(s, "core")
      \/ t \in Workloads /\ CategoryEnabled(s, "workloads")
      \/ t \in Troubleshoot /\ CategoryEnabled(s, "troubleshoot")
      \/ t \in Network /\ CategoryEnabled(s, "network")
      \/ t \in ConfigStore /\ CategoryEnabled(s, "configstore")
      \/ t \in Writing /\ CategoryEnabled(s, "operations") /\ p.writes
      \/ t \in Destroying /\ CategoryEnabled(s, "operations") /\ p.writes /\ p.destructive
      \/ t \in Debugging /\ CategoryEnabled(s, "debug") /\ p.debug
  BY DEF Registered, DestroyRegistered
<1>2. CASE t \in Reading
  <2>1. t \notin Writing /\ t \notin Destroying /\ t \notin Debugging
    BY <1>2, EffectsApart
  <2>2. CategoryEnabled(s, CategoryOf(t))
    BY <1>1, <2>1, CategoryFacts
  <2> QED
    BY <1>2, <2>2, EffectFacts DEF AllTools
<1>3. CASE t \notin Reading
  <2>1. \/ t \in Writing /\ CategoryEnabled(s, "operations") /\ p.writes
        \/ t \in Destroying /\ CategoryEnabled(s, "operations") /\ p.writes /\ p.destructive
        \/ t \in Debugging /\ CategoryEnabled(s, "debug") /\ p.debug
    BY <1>1, <1>3 DEF Reading
  <2> QED
    BY <2>1, EffectFacts, CategoryFacts DEF AllTools
<1> QED
  BY <1>2, <1>3

\* The server runs under the policy of its setting, and what a call sends are the
\* requests of a registered tool.
StartTold ==
    /\ setting \in Settings
    /\ phase \in {"starting", "refused", "built", "failed", "serving"}
    /\ phase \in {"built", "failed", "serving"} =>
          /\ Valid(setting)
          /\ policy = Configured(setting)
          /\ tools = Registered(setting, policy)

CallTold ==
    sent # {} =>
        /\ phase = "serving"
        /\ \E t \in tools : \E a \in Arguments(t) : sent = Requests(policy, t, a)

ServingTold ==
    serving.transport = "http" =>
        /\ phase = "serving" /\ setting.transport = "http" /\ setting.ca # "unreadable"
        /\ serving = [transport |-> "http",
                      tls   |-> setting.ca = "good" /\ setting.cert /\ setting.key,
                      token |-> HasAuthToken(setting)]

PolicyInv == StartTold /\ CallTold /\ ServingTold

\* In every reachable state the server's policy is that of its setting, a call sends
\* what a registered tool's handler lets through, and a server that listens has the
\* cover runHTTP makes of its setting (mcpserver/server.go:100-123, 146-214).
THEOREM PolicyInvariant == Spec => []PolicyInv
<1>1. Init => PolicyInv
  BY DEF Init, PolicyInv, StartTold, CallTold, ServingTold, NotServing
<1>2. PolicyInv /\ [Next]_vars => PolicyInv'
  <2> SUFFICES ASSUME PolicyInv, [Next]_vars PROVE PolicyInv'
    OBVIOUS
  <2> USE DEF PolicyInv
  <2>1. ASSUME Refuse PROVE PolicyInv'
    BY <2>1 DEF Refuse, StartTold, CallTold, ServingTold
  <2>2. ASSUME Build PROVE PolicyInv'
    BY <2>2 DEF Build, StartTold, CallTold, ServingTold, Configured
  <2>3. ASSUME RunStdio PROVE PolicyInv'
    BY <2>3 DEF RunStdio, StartTold, CallTold, ServingTold, NotServing
  <2>4. ASSUME RunHTTP PROVE PolicyInv'
    BY <2>4 DEF RunHTTP, StartTold, CallTold, ServingTold
  <2>5. ASSUME TLSFails PROVE PolicyInv'
    BY <2>5 DEF TLSFails, StartTold, CallTold, ServingTold
  <2>6. ASSUME Call PROVE PolicyInv'
    BY <2>6 DEF Call, StartTold, CallTold, ServingTold
  <2>7. ASSUME Answer PROVE PolicyInv'
    BY <2>7 DEF Answer, StartTold, CallTold, ServingTold
  <2>8. ASSUME UNCHANGED vars PROVE PolicyInv'
    BY <2>8 DEF vars, StartTold, CallTold, ServingTold
  <2> QED
    BY <2>1, <2>2, <2>3, <2>4, <2>5, <2>6, <2>7, <2>8 DEF Next
<1> QED
  BY <1>1, <1>2, PTL DEF Spec

\* Where a request that is sent comes from.
LEMMA SentFacts ==
    ASSUME PolicyInv, NEW r \in sent
    PROVE  \E t \in Registered(setting, policy) : \E a \in Arguments(t) :
              /\ policy = Configured(setting)
              /\ Allowed(policy, t, a)
              /\ r.tool = t /\ r.effect = EffectOf(t) /\ r.where \in Where(t, a)
              /\ r.plain = ShowsSecrets(t, a)
              /\ r.image = IF t \in {"add_ephemeral_container", "run_debug_pod"}
                           THEN {a.image} ELSE {}
<1>0. PICK t \in tools : \E a \in Arguments(t) : sent = Requests(policy, t, a)
  BY DEF PolicyInv, CallTold
<1>1. PICK a \in Arguments(t) : sent = Requests(policy, t, a)
  BY <1>0
<1>2. policy = Configured(setting) /\ tools = Registered(setting, policy)
  BY DEF PolicyInv, CallTold, StartTold
<1>3. Allowed(policy, t, a)
  BY <1>1 DEF Requests
<1>4. PICK w \in Where(t, a) :
         r = [tool |-> t, effect |-> EffectOf(t), where |-> w, plain |-> ShowsSecrets(t, a),
              image |-> IF t \in {"add_ephemeral_container", "run_debug_pod"}
                        THEN {a.image} ELSE {}]
  BY <1>1, <1>3 DEF Requests
<1>5. /\ r.tool = t /\ r.effect = EffectOf(t) /\ r.where \in Where(t, a)
      /\ r.plain = ShowsSecrets(t, a)
      /\ r.image = IF t \in {"add_ephemeral_container", "run_debug_pod"}
                   THEN {a.image} ELSE {}
  BY <1>4
<1> QED
  BY <1>1, <1>2, <1>3, <1>5

\* Every request was enabled by whoever started the server, for any command line
\* (config.Validate, security.FromConfig, App.register and the handlers' checks).
THEOREM FlagsAlwaysGovern == Spec => []FlagsGovern
<1>1. PolicyInv => FlagsGovern
  <2> SUFFICES ASSUME PolicyInv, NEW r \in sent
               PROVE  /\ Needs(r.effect) = {} \/ \E f \in Needs(r.effect) : Says(setting, f)
                      /\ CategoryEnabled(setting, CategoryOf(r.tool))
                      /\ r.plain => Says(setting, "reveal")
                      /\ r.image \cap setting.forbidden = {}
    BY DEF FlagsGovern
  <2>1. PICK t \in Registered(setting, policy) : \E a \in Arguments(t) :
           /\ policy = Configured(setting)
           /\ Allowed(policy, t, a)
           /\ r.tool = t /\ r.effect = EffectOf(t) /\ r.where \in Where(t, a)
           /\ r.plain = ShowsSecrets(t, a)
           /\ r.image = IF t \in {"add_ephemeral_container", "run_debug_pod"}
                        THEN {a.image} ELSE {}
    BY SentFacts
  <2>2. PICK a \in Arguments(t) :
           /\ policy = Configured(setting)
           /\ Allowed(policy, t, a)
           /\ r.tool = t /\ r.effect = EffectOf(t) /\ r.where \in Where(t, a)
           /\ r.plain = ShowsSecrets(t, a)
           /\ r.image = IF t \in {"add_ephemeral_container", "run_debug_pod"}
                        THEN {a.image} ELSE {}
    BY <2>1
  <2>3. /\ policy.writes => Says(setting, "writes") \/ Says(setting, "destructive")
        /\ policy.destructive => Says(setting, "destructive")
        /\ policy.debug => Says(setting, "debug")
        /\ policy.reveal => Says(setting, "reveal")
    BY <2>2, PolicyFacts, SaysFacts
  <2>4. Needs(r.effect) = {} \/ \E f \in Needs(r.effect) : Says(setting, f)
    <3>1. CASE EffectOf(t) = "read"
      BY <2>2, <3>1 DEF Needs
    <3>2. CASE EffectOf(t) = "write"
      <4>1. Says(setting, "writes") \/ Says(setting, "destructive")
        BY <2>3, <3>2, RegisteredFacts
      <4>2. Needs(r.effect) = {"writes", "destructive"}
        BY <2>2, <3>2 DEF Needs
      <4> QED
        BY <4>1, <4>2
    <3>3. CASE EffectOf(t) = "destructive"
      <4>1. Says(setting, "destructive") /\ Needs(r.effect) = {"destructive"}
        BY <2>2, <2>3, <3>3, RegisteredFacts DEF Needs
      <4> QED
        BY <4>1
    <3>4. CASE EffectOf(t) = "debug"
      <4>1. Says(setting, "debug") /\ Needs(r.effect) = {"debug"}
        BY <2>2, <2>3, <3>4, RegisteredFacts DEF Needs
      <4> QED
        BY <4>1
    <3> QED
      BY <3>1, <3>2, <3>3, <3>4, RegisteredFacts
  <2>5. CategoryEnabled(setting, CategoryOf(r.tool))
    BY <2>2, RegisteredFacts
  <2>6. r.plain => Says(setting, "reveal")
    BY <2>2, <2>3 DEF Allowed, CheckSecretReveal, ShowsSecrets
  <2>7. r.image \cap setting.forbidden = {}
    <3>1. policy.forbidden = setting.forbidden
      BY <2>2, PolicyFacts
    <3> QED
      BY <2>2, <3>1 DEF Allowed, DebugAllowed, CheckImage
  <2> QED
    BY <2>4, <2>5, <2>6, <2>7
<1> QED
  BY <1>1, PolicyInvariant, PTL

\* The mode in the instructions is true of every request (mcpserver/server.go:245).
THEOREM InstructionsAreTrue == Spec => []SaysWhatItDoes
<1>1. PolicyInv => SaysWhatItDoes
  <2> SUFFICES ASSUME PolicyInv, NEW r \in sent
               PROVE  /\ r.effect = "write" =>
                            Instructions(policy) \in {"read-write", "read-write-destructive"}
                      /\ r.effect = "destructive" =>
                            Instructions(policy) = "read-write-destructive"
                      /\ r.effect = "debug" => Instructions(policy) # "read-only"
    BY DEF SaysWhatItDoes
  <2>1. PICK t \in Registered(setting, policy) : r.effect = EffectOf(t)
    BY SentFacts
  <2>2. /\ r.effect = "write" => policy.writes
        /\ r.effect = "destructive" => policy.destructive
        /\ r.effect = "debug" => policy.debug
    BY <2>1, RegisteredFacts
  <2>3. policy.writes => Instructions(policy) \in {"read-write", "read-write-destructive"}
    BY Zenon DEF Instructions
  <2>4. policy.destructive => Instructions(policy) = "read-write-destructive"
    BY Zenon DEF Instructions
  <2>5. policy.debug => Instructions(policy) # "read-only"
    <3>1. CASE policy.destructive
      BY <2>4, <3>1
    <3>2. CASE ~policy.destructive /\ policy.writes
      BY <2>3, <3>2
    <3>3. CASE ~policy.destructive /\ ~policy.writes /\ policy.debug
      <4>1. Instructions(policy) = "read-debug"
        BY <3>3, Zenon DEF Instructions
      <4> QED
        BY <4>1
    <3> QED
      BY <3>1, <3>2, <3>3
  <2> QED
    BY <2>2, <2>3, <2>4, <2>5
<1> QED
  BY <1>1, PolicyInvariant, PTL

\* Handlers refuse alone what registration left out (security/policy.go:3).
THEOREM HandlersAlwaysRefuse == Spec => []HandlersRefuseAlone
<1>1. PolicyInv => HandlersRefuseAlone
  <2> SUFFICES ASSUME PolicyInv, phase = "built", NEW t \in AllTools,
                      t \notin tools \cup {"cordon_node", "uncordon_node"},
                      EffectOf(t) # "read", CategoryEnabled(setting, CategoryOf(t)),
                      NEW a \in Arguments(t)
               PROVE  Requests(policy, t, a) = {}
    BY DEF HandlersRefuseAlone
  <2>1. policy = Configured(setting) /\ tools = Registered(setting, policy)
    BY DEF PolicyInv, StartTold
  <2>2. t \notin Reading
    BY EffectFacts
  <2>3. policy.destructive => policy.writes
    BY <2>1, PolicyFacts, SaysFacts, Zenon
  <2>4. ~FlagAllowed(policy, t)
    <3>1. CASE t \in Writing
      <4>1. ~policy.writes
        BY <2>1, <3>1, CategoryFacts DEF Registered
      <4>2. FlagAllowed(policy, t) = CheckMutating(policy)
        BY <2>2, <3>1, EffectsApart, Zenon DEF FlagAllowed
      <4> QED
        BY <4>1, <4>2 DEF CheckMutating
    <3>2. CASE t \in Destroying
      <4>1. ~policy.destructive
        BY <2>1, <2>3, <3>2, CategoryFacts DEF Registered, DestroyRegistered
      <4>2. FlagAllowed(policy, t) = CheckDestructive(policy)
        BY <2>2, <3>2, EffectsApart, Zenon DEF FlagAllowed
      <4> QED
        BY <4>1, <4>2 DEF CheckDestructive
    <3>3. CASE t \in Debugging
      <4>1. ~policy.debug
        BY <2>1, <3>3, CategoryFacts DEF Registered
      <4>2. FlagAllowed(policy, t) = CheckDebug(policy)
        BY <2>2, <3>3, EffectsApart, Zenon DEF FlagAllowed
      <4> QED
        BY <4>1, <4>2 DEF CheckDebug
    <3> QED
      BY <2>2, <3>1, <3>2, <3>3 DEF AllTools
  <2> QED
    BY <2>4 DEF Requests, Allowed
<1> QED
  BY <1>1, PolicyInvariant, PTL

----------------------------------------------------------------------------
\* Namespaces.

\* A namespace argument resolves to a namespace; the marks for none and all are none.
LEMMA NamespaceFacts ==
    /\ \A t : \A a \in Arguments(t) : ResolveNS(a.ns) \in Namespaces
    /\ "" \notin Namespaces /\ NoNamespace \notin Namespaces /\ AllNamespaces \notin Namespaces
    /\ Privileged \subseteq Namespaces /\ NoNamespace # AllNamespaces
<1>1. Default \in Namespaces /\ Privileged \subseteq Namespaces
      /\ {NoNamespace, AllNamespaces, ""} \cap Namespaces = {}
  BY PolicyAssumption DEF PolicyAssumption
<1>2. ASSUME NEW t, NEW a \in Arguments(t) PROVE ResolveNS(a.ns) \in Namespaces
  <2>1. a.ns \in Namespaces \cup {""}
    BY <1>2 DEF Arguments
  <2> QED
    BY <1>1, <2>1 DEF ResolveNS
<1>3. NoNamespace # AllNamespaces
  BY DEF NoNamespace, AllNamespaces
<1> QED
  BY <1>1, <1>2, <1>3

\* A request with effect e that stays in the scope of policy p.
InScope(p, where, e) ==
    /\ p.namespaces = {} \/ where \in p.namespaces \/ where = NoNamespace
    /\ where \in Privileged => p.privileged
    /\ where = NoNamespace /\ e # "read" => p.privileged

\* What CheckScope lets through.
LEMMA ScopeFacts ==
    ASSUME NEW p, NEW e, NEW ns \in Namespaces, CheckScope(p, ns, FALSE)
    PROVE  InScope(p, ns, e)
BY NamespaceFacts DEF CheckScope, CheckTarget, CheckNamespace, InScope

\* The requests of a tool that has no exception stay in scope.
LEMMA PlacesInScope ==
    ASSUME NEW p, NEW t \in AllTools, NEW a \in Arguments(t), Allowed(p, t, a),
           NEW w \in Where(t, a),
           t \notin {"cluster_health", "diagnose_node", "drain_node", "delete_pod"}
    PROVE  InScope(p, w, EffectOf(t))
<1> DEFINE ns == ResolveNS(a.ns)
<1> DEFINE ofCluster == \/ PlaceOf(t) \in {"cluster", "node"}
                        \/ /\ PlaceOf(t) \in {"shown", "kind", "document"}
                           /\ a.kind \in ClusterKinds
<1>1. w = IF ofCluster THEN NoNamespace ELSE IF a.all THEN AllNamespaces ELSE ns
  BY Zenon DEF Where
<1>2. PlaceAllowed(p, t, a) /\ PlaceTold(t, PlaceOf(t))
  BY PlaceFacts DEF Allowed
<1>3. ns \in Namespaces
  BY NamespaceFacts
<1>4. PlaceOf(t) # "list" => a.all = FALSE
  BY DEF Arguments
<1>5. t \in Reading => EffectOf(t) = "read"
  BY EffectFacts
<1> HIDE DEF ns
<1>6. CASE PlaceOf(t) \in {"cluster", "node"}
  <2>1. w = NoNamespace
    BY <1>1, <1>6
  <2>2. PlaceOf(t) = "cluster" => EffectOf(t) = "read"
    BY <1>2, <1>5 DEF PlaceTold
  <2>3. PlaceOf(t) = "node" => p.privileged
    <3>1. ASSUME PlaceOf(t) = "node" PROVE CheckTarget(p, "", TRUE)
      BY <1>2, <3>1 DEF PlaceAllowed
    <3> QED
      BY <3>1 DEF CheckTarget
  <2> QED
    BY <1>6, <2>1, <2>2, <2>3, NamespaceFacts DEF InScope
<1>7. CASE PlaceOf(t) = "list"
  <2>1. ListAllowed(p, a)
    BY <1>2, <1>7 DEF PlaceAllowed
  <2>2. w = IF a.all THEN AllNamespaces ELSE ns
    BY <1>1, <1>7
  <2>3. CASE a.all
    <3>1. w = AllNamespaces /\ p.namespaces = {}
      BY <2>1, <2>2, <2>3 DEF ListAllowed
    <3> QED
      BY <3>1, NamespaceFacts DEF InScope
  <2>4. CASE ~a.all
    <3>1. w = ns /\ CheckScope(p, ns, FALSE)
      BY <2>1, <2>2, <2>4 DEF ListAllowed, ns
    <3> QED
      BY <1>3, <3>1, ScopeFacts
  <2> QED
    BY <2>3, <2>4
<1>8. CASE PlaceOf(t) = "named"
  <2>1. CheckScope(p, ns, FALSE)
    BY <1>2, <1>8 DEF PlaceAllowed, ns
  <2>2. w = ns
    BY <1>1, <1>4, <1>8
  <2> QED
    BY <1>3, <2>1, <2>2, ScopeFacts
<1>9. CASE PlaceOf(t) = "shown"
  <2>1. DescribeAllowed(p, a)
    BY <1>2, <1>9 DEF PlaceAllowed
  <2>2. EffectOf(t) = "read"
    BY <1>2, <1>5, <1>9 DEF PlaceTold
  <2>3. CASE a.kind \in ClusterKinds
    <3>1. w = NoNamespace
      BY <1>1, <1>9, <2>3
    <3> QED
      BY <2>2, <3>1, NamespaceFacts DEF InScope
  <2>4. CASE a.kind \notin ClusterKinds
    <3>1. w = ns /\ CheckScope(p, ns, FALSE)
      BY <1>1, <1>4, <1>9, <2>1, <2>4 DEF DescribeAllowed, ns
    <3> QED
      BY <1>3, <3>1, ScopeFacts
  <2> QED
    BY <2>3, <2>4
<1>10. CASE PlaceOf(t) = "kind"
  <2>1. CheckScope(p, ns, a.kind \in ClusterKinds)
    BY <1>2, <1>10 DEF PlaceAllowed, KindAllowed, ns
  <2>3. CASE a.kind \in ClusterKinds
    <3>1. w = NoNamespace /\ p.privileged
      BY <1>1, <1>10, <2>1, <2>3 DEF CheckScope, CheckTarget
    <3> QED
      BY <3>1 DEF InScope
  <2>4. CASE a.kind \notin ClusterKinds
    <3>1. w = ns /\ CheckTarget(p, ns, a.kind \in ClusterKinds) /\ CheckNamespace(p, ns)
      BY <1>1, <1>3, <1>4, <1>10, <2>1, <2>4, NamespaceFacts DEF CheckScope
    <3> QED
      BY <1>3, <3>1, NamespaceFacts DEF CheckTarget, CheckNamespace, InScope
  <2> QED
    BY <2>3, <2>4
<1>11. CASE PlaceOf(t) = "document"
  <2>1. CheckTarget(p, ns, a.kind \in ClusterKinds) /\ CheckNamespace(p, ns)
    BY <1>2, <1>11 DEF PlaceAllowed, DocumentAllowed, ns
  <2>3. CASE a.kind \in ClusterKinds
    <3>1. w = NoNamespace /\ p.privileged
      BY <1>1, <1>11, <2>1, <2>3 DEF CheckTarget
    <3> QED
      BY <3>1 DEF InScope
  <2>4. CASE a.kind \notin ClusterKinds
    <3>1. w = ns
      BY <1>1, <1>4, <1>11, <2>4
    <3> QED
      BY <1>3, <2>1, <3>1, NamespaceFacts DEF CheckTarget, CheckNamespace, InScope
  <2> QED
    BY <2>3, <2>4
<1>12. PlaceOf(t) # "pod"
  BY <1>2 DEF PlaceTold
<1> QED
  BY <1>2, <1>6, <1>7, <1>8, <1>9, <1>10, <1>11, <1>12 DEF PlaceTold, Places

\* Apart from the tools that always look everywhere, only a list that no allowlist
\* restricts asks for all namespaces.
LEMMA OnlyListsAskForAll ==
    ASSUME NEW p, NEW t \in AllTools, NEW a \in Arguments(t), Allowed(p, t, a),
           AllNamespaces \in Where(t, a),
           t \notin {"cluster_health", "diagnose_node", "drain_node"}
    PROVE  PlaceOf(t) = "list" /\ p.namespaces = {}
<1> DEFINE ofCluster == \/ PlaceOf(t) \in {"cluster", "node"}
                        \/ /\ PlaceOf(t) \in {"shown", "kind", "document"}
                           /\ a.kind \in ClusterKinds
<1>1. AllNamespaces \in IF ofCluster THEN {NoNamespace}
                        ELSE IF a.all THEN {AllNamespaces} ELSE {ResolveNS(a.ns)}
  BY Zenon DEF Where
<1>2. AllNamespaces # NoNamespace /\ AllNamespaces # ResolveNS(a.ns)
  BY NamespaceFacts
<1>3. a.all
  BY <1>1, <1>2
<1>4. PlaceOf(t) = "list"
  BY <1>3 DEF Arguments
<1>5. ListAllowed(p, a)
  BY <1>4 DEF Allowed, PlaceAllowed
<1> QED
  BY <1>3, <1>4, <1>5 DEF ListAllowed

\* Requests stay in the allowlist and off the control plane's namespaces and the
\* cluster's resources as configured, with the exceptions ScopeExplained names, the
\* list of all namespaces among them (tools/util.go:33-69, operations/delete.go:54).
THEOREM ScopeAlwaysKept == Spec => []ScopeExplained
<1>1. PolicyInv => ScopeExplained
  <2> SUFFICES ASSUME PolicyInv, NEW r \in sent
               PROVE  /\ \/ setting.namespaces = {} \/ r.where \in setting.namespaces
                         \/ r.where = NoNamespace
                         \/ r.tool \in {"cluster_health", "diagnose_node", "drain_node"}
                      /\ Reaches(r.where) =>
                            \/ Says(setting, "privileged")
                            \/ r.tool \in {"cluster_health", "diagnose_node", "delete_pod"}
                            \/ /\ PlaceOf(r.tool) = "list" /\ r.where = AllNamespaces
                               /\ setting.namespaces = {}
                      /\ r.where = NoNamespace /\ r.effect # "read" =>
                            Says(setting, "privileged")
    BY DEF ScopeExplained
  <2>1. PICK t \in Registered(setting, policy) : \E a \in Arguments(t) :
           /\ policy = Configured(setting) /\ Allowed(policy, t, a)
           /\ r.tool = t /\ r.effect = EffectOf(t) /\ r.where \in Where(t, a)
    BY SentFacts
  <2>2. PICK a \in Arguments(t) :
           /\ policy = Configured(setting) /\ Allowed(policy, t, a)
           /\ r.tool = t /\ r.effect = EffectOf(t) /\ r.where \in Where(t, a)
    BY <2>1
  <2>3. /\ policy.namespaces = setting.namespaces
        /\ policy.privileged = Says(setting, "privileged")
    BY <2>2, PolicyFacts
  <2>4. t \in AllTools /\ PlaceTold(t, PlaceOf(t)) /\ PlaceAllowed(policy, t, a)
    BY <2>2, RegisteredFacts, PlaceFacts DEF Allowed
  <2>5. CASE t \notin {"cluster_health", "diagnose_node", "drain_node", "delete_pod"}
    <3>1. InScope(policy, r.where, EffectOf(t))
      BY <2>2, <2>4, <2>5, PlacesInScope
    <3>2. r.where = AllNamespaces => PlaceOf(t) = "list" /\ policy.namespaces = {}
      BY <2>2, <2>4, <2>5, OnlyListsAskForAll
    <3> QED
      BY <2>2, <2>3, <3>1, <3>2 DEF InScope, Reaches
  <2>6. CASE t \in {"cluster_health", "diagnose_node"}
    <3>1. t \in Reading
      BY <2>6 DEF Reading, Core, Troubleshoot, CoreTools, DiagnosisTools
    <3>2. EffectOf(t) = "read"
      BY <3>1, EffectFacts
    <3>3. t = "diagnose_node" => r.where \in {NoNamespace, AllNamespaces}
      BY <2>2, Zenon DEF Where
    <3> QED
      BY <2>2, <2>6, <3>2, <3>3, NamespaceFacts
  <2>7. CASE t = "drain_node"
    <3>1. r.where \in {NoNamespace, AllNamespaces}
      BY <2>2, <2>7, Zenon DEF Where
    <3>2. PlaceOf(t) = "node"
      BY <2>4, <2>7 DEF PlaceTold
    <3>3. CheckTarget(policy, "", TRUE)
      BY <2>4, <3>2 DEF PlaceAllowed
    <3> QED
      BY <2>2, <2>3, <2>7, <3>1, <3>3, NamespaceFacts DEF CheckTarget
  <2>8. CASE t = "delete_pod"
    <3>1. PlaceOf(t) = "pod"
      <4>1. \A table \in ToolTables : t \in DOMAIN table => table[t] = "pod"
        BY <2>8 DEF ToolTables, CoreTools, EventTools, AppTools, BatchTools, NetworkTools,
                    ConfigTools, TopTools, DiagnosisTools, TroubleshootTools,
                    OperationTools, CreateTools, ServiceTools, DeleteTools, NodeTools,
                    DebugTools
      <4>2. DeleteTools \in ToolTables /\ t \in DOMAIN DeleteTools
        BY <2>8 DEF ToolTables, DeleteTools
      <4> QED
        BY <4>1, <4>2 DEF PlaceOf
    <3>2. CheckNamespace(policy, ResolveNS(a.ns))
      BY <2>4, <3>1 DEF PlaceAllowed, DeletePodAllowed
    <3>3. r.where = ResolveNS(a.ns)
      <4>1. a.all = FALSE
        BY <3>1 DEF Arguments
      <4>2. r.where \in IF \/ PlaceOf(t) \in {"cluster", "node"}
                           \/ PlaceOf(t) \in {"shown", "kind", "document"}
                                 /\ a.kind \in ClusterKinds
                        THEN {NoNamespace}
                        ELSE IF a.all THEN {AllNamespaces} ELSE {ResolveNS(a.ns)}
        BY <2>2, <2>8, Zenon DEF Where
      <4> QED
        BY <3>1, <4>1, <4>2
    <3> QED
      BY <2>2, <2>3, <2>8, <3>2, <3>3, NamespaceFacts DEF CheckNamespace, Reaches
  <2> QED
    BY <2>5, <2>6, <2>7, <2>8
<1> QED
  BY <1>1, PolicyInvariant, PTL

\* A server open to others without TLS or token was told to be, or is one of the
\* cases Validate takes for covered (config/config.go:155, mcpserver/server.go:146).
THEOREM OpenOnlyForAReason == Spec => []OpenOnlyAsExplained
<1>1. PolicyInv => OpenOnlyAsExplained
  <2> SUFFICES ASSUME PolicyInv, serving.transport = "http", setting.listen # "loopback",
                      ~serving.tls, ~serving.token, ~Says(setting, "insecure"),
                      setting.token # "blank",
                      setting.tokenFile \notin {"blank", "unreadable"}
               PROVE  setting.cert /\ setting.key /\ setting.ca = "none"
    BY DEF OpenOnlyAsExplained
  <2>1. /\ serving = [transport |-> "http",
                      tls   |-> setting.ca = "good" /\ setting.cert /\ setting.key,
                      token |-> HasAuthToken(setting)]
        /\ setting.transport = "http" /\ phase = "serving"
    BY DEF PolicyInv, ServingTold
  <2>2. ~HasAuthToken(setting) /\ ~(setting.ca = "good" /\ setting.cert /\ setting.key)
    BY <2>1
  <2>3. Valid(setting) /\ setting \in Settings
    BY <2>1 DEF PolicyInv, StartTold
  <2>4. /\ {setting.cert, setting.key} \subseteq BOOLEAN
        /\ setting.ca \in {"none", "good", "unreadable"}
        /\ setting.token \in {"none", "good", "blank"}
        /\ setting.tokenFile \in {"none", "good", "blank", "unreadable"}
    BY <2>3, PolicyAssumption DEF PolicyAssumption
  <2>5. setting.token = "none" /\ setting.tokenFile = "none"
    BY <2>2, <2>3, <2>4 DEF Valid, HasAuthToken
  <2>6. setting.cert /\ setting.key
    BY <2>1, <2>3, <2>5 DEF Valid, ValidateHTTPExposure, IsLoopbackListen
  <2>7. setting.ca # "unreadable"
    BY DEF PolicyInv, ServingTold
  <2> QED
    BY <2>2, <2>4, <2>6, <2>7
<1> QED
  BY <1>1, PolicyInvariant, PTL
====
