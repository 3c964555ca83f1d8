---- MODULE Reports ----
(***************************************************************************)
(* What the tools that only read say of the cluster, against what is so.   *)
(* subject names the question: rollout_status and get_logs are systems of  *)
(* their own (RolloutReport, LogStream); the others judge one snapshot of  *)
(* a pod, a node, the cluster or a service.                                *)
(***************************************************************************)
EXTENDS RolloutReport, LogStream, Sequences

CONSTANTS MaxContainers,  \* bound: containers of a pod
          ClusterNodes,   \* the nodes a cluster is made of
          MaxNodes,       \* bound: their number
          MaxEndpoints    \* bound: endpoints of a service

VARIABLES subject,
          snapshot   \* what the API returned

vars == <<subject, snapshot, rolloutVars, logVars>>

----------------------------------------------------------------------------
\* Snapshots.

Waiting    == {"creating", "image", "crashloop", "config", "other"}
Terminated == {"exited", "oom", "error"}
Containers == {"running", "unready"} \cup Waiting \cup Terminated

Pod == [phase : {"Pending", "Running", "Succeeded", "Failed", "Unknown"}, ready : BOOLEAN,
        deleting : BOOLEAN, containers : UNION {[1..n -> Containers] : n \in 0..MaxContainers},
        event : {"none", "Unhealthy", "BackOff", "FailedScheduling", "FailedMount"}]

States(p) == {p.containers[i] : i \in DOMAIN p.containers}

\* The pods a kubelet reports.  A failed pod that was evicted has no containers.
Pods ==
    {p \in Pod :
        /\ p.ready => p.phase = "Running" /\ States(p) = {"running"}
        /\ p.phase = "Running" => States(p) \cap {"running", "unready", "crashloop"} # {}
        /\ p.phase = "Succeeded" => States(p) = {"exited"}
        /\ p.phase = "Failed" => States(p) \subseteq Terminated}

Node == [ready : {"True", "False", "Unknown", "none"},
         pressure : SUBSET {"Memory", "Disk", "Network"},
         taint : {"none", "PreferNoSchedule", "NoSchedule", "NoExecute"},
         event : {"none", "NodeNotReady", "Other"}]

ASSUME SnapshotAssumption ==
    /\ MaxContainers \in Nat /\ MaxNodes \in Nat /\ MaxEndpoints \in Nat
    /\ ClusterNodes \subseteq Node

\* What cluster_health sees: the nodes, and the control plane's pods, if any.
Cluster == [server : BOOLEAN, nodesRead : BOOLEAN,
            nodes : UNION {[1..n -> ClusterNodes] : n \in 0..MaxNodes},
            controlRead : BOOLEAN,
            control : SUBSET {"serving", "pending"}]

\* An endpoint of a v1 EndpointSlice: readiness is one of its conditions.  The
\* service's Endpoints object has the same addresses.
Endpoint == [addresses : {1}, conditions : [ready : BOOLEAN]]
Service  == [dns : BOOLEAN, slicesRead : BOOLEAN, endpointsRead : BOOLEAN,
             endpoints : UNION {[1..n -> Endpoint] : n \in 0..MaxEndpoints}]

ReadyOf(s) == Cardinality({i \in DOMAIN s.endpoints : s.endpoints[i].conditions.ready})

----------------------------------------------------------------------------
\* Mutated forms of the definitions below.

\* Readiness is not looked at.
PodClearUnready(p) ==
    /\ p.phase # "Pending"
    /\ States(p) \cap (Waiting \cup {"oom", "error"}) = {}
    /\ p.event \notin {"Unhealthy", "FailedScheduling", "FailedMount"}

----------------------------------------------------------------------------
\* diagnose_pod: no finding of classifyPod applies.
PodClear(p) ==
    /\ p.phase # "Pending"
    /\ States(p) \cap (Waiting \cup {"oom", "error"}) = {}
    /\ p.event \notin {"Unhealthy", "FailedScheduling", "FailedMount"}
    /\ p.phase = "Running" => p.ready

\* list_pods: the status it shows.
PodStatus(p) ==
    LET reasons == {i \in DOMAIN p.containers : p.containers[i] \in Waiting \ {"creating"}}
    IN  CASE p.phase = "Failed" -> "Failed"
          [] p.phase # "Failed" /\ p.deleting -> "Terminating"
          [] p.phase # "Failed" /\ ~p.deleting /\ reasons # {} ->
               p.containers[CHOOSE i \in reasons : \A j \in reasons : i <= j]
          [] p.phase # "Failed" /\ ~p.deleting /\ reasons = {} -> p.phase

NodeReady(n) == n.ready = "True"

\* diagnose_node: no finding of classifyNode applies.
NodeClear(n) ==
    /\ NodeReady(n) \/ n.ready = "none"
    /\ n.pressure = {}
    /\ n.taint \notin {"NoSchedule", "NoExecute"}
    /\ n.event # "NodeNotReady"

\* list_nodes: the first part of its status.
NodeStatus(n) ==
    CASE n.ready = "True" -> "Ready"
      [] n.ready \in {"False", "Unknown"} -> "NotReady"
      [] n.ready = "none" -> "Unknown"

\* cluster_health: the control plane is shown and not judged.
ClusterHealthy(c) ==
    /\ c.server
    /\ c.nodesRead
    /\ \A i \in DOMAIN c.nodes : NodeReady(c.nodes[i])

\* check_connectivity counts the endpoints with a field "ready" of their own, and
\* reads the Endpoints object only when the slices cannot be read.
ReadyEndpoints(s) ==
    IF s.slicesRead
    THEN Cardinality({i \in DOMAIN s.endpoints :
                         "ready" \in DOMAIN s.endpoints[i] /\ s.endpoints[i]["ready"]})
    ELSE IF s.endpointsRead THEN ReadyOf(s) ELSE 0

ServiceHealthy(s) == s.dns /\ ReadyEndpoints(s) > 0

----------------------------------------------------------------------------
\* The system: every question, and the two that take time.

RolloutIdle ==
    /\ kind = "Deployment" /\ strategy = "RollingUpdate"
    /\ spec = [generation |-> 0, template |-> CHOOSE t \in Templates : TRUE, replicas |-> 0]
    /\ seen = spec
    /\ pods = [t \in Templates |-> 0]
    /\ status = [observed |-> 0, replicas |-> 0, updated |-> 0, available |-> 0, desired |-> 0,
                 current |-> spec.template, update |-> spec.template, stalled |-> 0]

LogIdle ==
    /\ follow = FALSE /\ written = 0 /\ held = 0 /\ ended = TRUE
    /\ lost = FALSE /\ over = FALSE /\ reply = "text"

Init ==
    \/ subject = "rollout" /\ snapshot = "none" /\ RolloutInit /\ LogIdle
    \/ subject = "logs" /\ snapshot = "none" /\ RolloutIdle /\ LogInit
    \/ /\ RolloutIdle /\ LogIdle
       /\ \/ subject = "pod" /\ snapshot \in Pods
          \/ subject = "node" /\ snapshot \in Node
          \/ subject = "cluster" /\ snapshot \in Cluster
          \/ subject = "service" /\ snapshot \in Service

Next ==
    \/ subject = "rollout" /\ RolloutNext /\ UNCHANGED <<subject, snapshot, logVars>>
    \/ subject = "logs" /\ LogNext /\ UNCHANGED <<subject, snapshot, rolloutVars>>

Spec == Init /\ [][Next]_vars

----------------------------------------------------------------------------
\* Properties.

\* "No issues detected. All containers are running and ready" is said of pods that
\* are, and besides of finished, failed and lost ones whose containers show no error;
\* of nothing list_pods shows a waiting container of; and always of a ready pod
\* without events.  A node without any Ready condition passes for ready, though
\* list_nodes and cluster_health say otherwise.  In a cluster called healthy
\* list_nodes shows every node as ready, but diagnose_node may find pressure, taints
\* or events (diagnose.go:88-192, health.go:28-50).
AllClearExplained ==
    /\ subject = "pod" =>
          /\ PodClear(snapshot) =>
                /\ \/ snapshot.ready
                   \/ /\ snapshot.phase \in {"Succeeded", "Failed", "Unknown"}
                      /\ States(snapshot) \subseteq {"running", "unready", "exited"}
                /\ PodStatus(snapshot) \in
                     {"Running", "Terminating", "Succeeded", "Failed", "Unknown"}
          /\ snapshot.ready /\ snapshot.event = "none" => PodClear(snapshot)
    /\ subject = "node" =>
          /\ NodeClear(snapshot) /\ NodeStatus(snapshot) # "Ready" => snapshot.ready = "none"
          /\ NodeReady(snapshot) /\ ~NodeClear(snapshot) =>
                snapshot.pressure # {} \/ snapshot.taint # "none" \/ snapshot.event # "none"
    /\ subject = "cluster" /\ ClusterHealthy(snapshot) =>
          \A i \in DOMAIN snapshot.nodes :
              LET n == snapshot.nodes[i]
              IN  /\ NodeStatus(n) = "Ready"
                  /\ \/ NodeClear(n)
                     \/ n.pressure # {} \/ n.taint # "none" \/ n.event # "none"

\* The doc of check_connectivity: "resolve its cluster DNS name, list ready endpoints"
\* (connectivity.go:21): a service with both is healthy.
VerdictComplete ==
    subject = "service" /\ snapshot.dns /\ snapshot.slicesRead /\ ReadyOf(snapshot) > 0 =>
        ServiceHealthy(snapshot)
====
