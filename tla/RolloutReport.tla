---- MODULE RolloutReport ----
(***************************************************************************)
(* rollout_status (internal/tools/troubleshoot/rollout.go): what the tool  *)
(* says of a Deployment, StatefulSet or DaemonSet if it is asked now,      *)
(* against what runs in the cluster.  Users change the workload; its       *)
(* controller sees a change later, replaces pods and writes the status.    *)
(* Pods are counted by template, and a revision is its template.           *)
(***************************************************************************)
EXTENDS Integers, FiniteSets

CONSTANTS Templates,
          MaxReplicas,   \* bound: replicas asked for; the nodes of a DaemonSet
          MaxChanges     \* bound: changes to the workload's spec

ASSUME RolloutReportAssumption ==
    /\ Templates # {} /\ IsFiniteSet(Templates)
    /\ MaxReplicas \in Nat /\ MaxChanges \in Nat

VARIABLES kind, strategy,
          spec,     \* [generation, template, replicas]
          seen,     \* the spec the controller works from
          pods,     \* pods[t]: pods of template t
          status

rolloutVars == <<kind, strategy, spec, seen, pods, status>>

\* The pods of a count by template, numbered within each template.
PodsOf(f) == UNION {{t} \X (1..f[t]) : t \in Templates}
Sum(f)    == Cardinality(PodsOf(f))

Only(t, n) == [u \in Templates |-> IF u = t THEN n ELSE 0]

\* A workload at rest.  stalled is the generation whose progress deadline passed, or
\* whose pods could not be made; 0: none.
RolloutInit ==
    /\ kind \in {"Deployment", "StatefulSet", "DaemonSet"}
    /\ strategy \in IF kind = "Deployment" THEN {"RollingUpdate"}
                    ELSE {"RollingUpdate", "OnDelete"}
    /\ \E t \in Templates, n \in 1..MaxReplicas :
          /\ spec = [generation |-> 1, template |-> t, replicas |-> n]
          /\ pods = Only(t, n)
          /\ status = [observed |-> 1, replicas |-> n, updated |-> n, available |-> n,
                       desired |-> n, current |-> t, update |-> t, stalled |-> 0]
    /\ seen = spec

----------------------------------------------------------------------------
\* The tool.

\* Mutated form: the status need not be of the present generation.
DeploymentRolledOutUnobserved ==
    /\ status.updated = spec.replicas
    /\ status.replicas = status.updated
    /\ status.available >= status.updated

DeploymentRolledOut ==
    /\ spec.generation <= status.observed
    /\ status.updated = spec.replicas
    /\ status.replicas = status.updated
    /\ status.available >= status.updated

StatefulSetRolledOut ==
    ~ /\ strategy = "RollingUpdate"
      /\ status.update # status.current
      /\ status.updated < spec.replicas

DaemonSetRolledOut == status.updated >= status.desired

RolledOut ==
    \/ kind = "Deployment" /\ DeploymentRolledOut
    \/ kind = "StatefulSet" /\ StatefulSetRolledOut
    \/ kind = "DaemonSet" /\ DaemonSetRolledOut

\* "rollout STALLED" and "replica failures" are read from the conditions.
Stalled == kind = "Deployment" /\ ~RolledOut /\ status.stalled # 0

----------------------------------------------------------------------------
\* The cluster.

\* A user changes the template or the number of replicas.
Change ==
    /\ spec.generation <= MaxChanges
    /\ \E t \in Templates, n \in 1..MaxReplicas :
          /\ kind = "DaemonSet" => n = spec.replicas
          /\ <<t, n>> # <<spec.template, spec.replicas>>
          /\ spec' = [generation |-> spec.generation + 1, template |-> t, replicas |-> n]
    /\ UNCHANGED <<kind, strategy, seen, pods, status>>

\* The controller sees the spec and writes the status.  A StatefulSet's update is
\* complete when every pod is of the new revision and ready.
Sync ==
    /\ seen' = spec
    /\ \E available \in 0..Sum(pods), stalled \in {0, spec.generation} :
          LET complete == /\ strategy = "RollingUpdate"
                          /\ pods[spec.template] = Sum(pods) /\ available = Sum(pods)
          IN  /\ kind # "Deployment" => stalled = 0
              /\ status' = [observed |-> spec.generation, replicas |-> Sum(pods),
                            updated |-> pods[spec.template], available |-> available,
                            desired |-> spec.replicas, update |-> spec.template,
                            current |-> IF complete THEN spec.template ELSE status.current,
                            stalled |-> stalled]
    /\ UNCHANGED <<kind, strategy, spec, pods>>

\* A missing pod is made; a Deployment may have one more for a while.  A StatefulSet
\* makes the pods it has yet to update of its current revision again.
MakePod ==
    /\ Sum(pods) < seen.replicas + (IF kind = "Deployment" THEN 1 ELSE 0)
    /\ \E t \in {seen.template, status.current} :
          /\ t # seen.template => /\ kind = "StatefulSet"
                                 /\ pods[t] < status.replicas - status.updated
          /\ pods' = [pods EXCEPT ![t] = @ + 1]
    /\ UNCHANGED <<kind, strategy, spec, seen, status>>

\* A pod goes: it is of an old template, there are too many, or it dies or is
\* deleted, as "OnDelete" waits for.
PodGoes ==
    /\ \E t \in Templates : pods[t] > 0 /\ pods' = [pods EXCEPT ![t] = @ - 1]
    /\ UNCHANGED <<kind, strategy, spec, seen, status>>

RolloutNext == Change \/ Sync \/ MakePod \/ PodGoes

----------------------------------------------------------------------------
\* The tool says "rolled out" while a pod of another template runs only of a
\* StatefulSet or DaemonSet whose controller has not seen the change, or of a
\* StatefulSet that waits for its pods to be deleted, has yet to remove pods, or
\* was changed back to its current revision.  It says "stalled" of the present
\* generation, unless the controller has not seen it (rollout.go:78-117).
RolloutReportExplained ==
    LET unseen == status.observed < spec.generation
        mixed  == \E t \in Templates \ {spec.template} : pods[t] > 0
    IN  /\ RolledOut /\ mixed =>
              \/ kind # "Deployment" /\ unseen
              \/ /\ kind = "StatefulSet"
                 /\ \/ strategy = "OnDelete"
                    \/ status.replicas > spec.replicas
                    \/ status.current = status.update
        /\ Stalled => status.stalled = spec.generation \/ unseen
====
