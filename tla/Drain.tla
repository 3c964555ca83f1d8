---- MODULE Drain ----
(***************************************************************************)
(* drain_node, cordon and uncordon (internal/tools/operations/nodes.go):   *)
(* a drain cordons the node, lists its pods once and evicts them one by    *)
(* one, by name, without waiting for them to go.  Around it the scheduler, *)
(* the controllers, the kubelet and other clients go on, run_debug_pod     *)
(* among them.                                                             *)
(* What is under a name belongs to an owner:                               *)
(*   "ReplicaSet"   replaces its pod under another name                    *)
(*   "StatefulSet"  replaces its pod under its own name                    *)
(*   "DaemonSet"    likewise, and its pods tolerate a cordon               *)
(*   "none"         a pod without a controller                             *)
(*   "mirror"       a static pod's mirror in kube-system                   *)
(*   "static"       a static pod's mirror in another namespace; its        *)
(*                  controller is the node                                 *)
(* The pod that has the name may be another one: a client made it, or its  *)
(* owner's template has changed since.                                     *)
(***************************************************************************)
EXTENDS Naturals, FiniteSets

CONSTANTS Pods,           \* names of pods
          Owners,         \* the owners of this instance
          Volumed,        \* bound: owners whose pods may have an emptyDir volume
          MinAvailable,   \* of the PodDisruptionBudget over Guarded pods
          MaxUid,         \* bound: pods created under a name
          MaxOthers       \* bound: deletions, uncordons and pods of other clients

ASSUME DrainAssumption ==
    /\ IsFiniteSet(Pods)
    /\ MinAvailable \in Nat /\ MaxUid \in Nat /\ MaxOthers \in Nat

VARIABLES owner,          \* owner[p]: to whom the name belongs
          args,           \* force and delete_emptydir_data
          unschedulable,  \* the node's spec
          pod,            \* pod[p]: the pod of that name
          pc,             \* "new", "cordoned", "evicting", "done" or "failed"
          listed,         \* listed[p]: the pod p in the list; uid 0: not in it
          todo,           \* listed pods not yet seen to
          failed,         \* an eviction failed
          uncordoned,     \* the node was made schedulable after the cordon
          others

drain == <<pc, listed, todo, failed>>
vars  == <<owner, args, unschedulable, pod, drain, uncordoned, others>>

Static    == {"mirror", "static"}
Guarded   == {"ReplicaSet", "StatefulSet"}
Lives     == {"gone", "pending", "assumed", "running", "ending"}

\* A pod: early if its node was chosen before the drain began, exempt if its spec
\* names its node or tolerates a cordon, kind for who controls it.
Gone(uid) ==
    [life |-> "gone", place |-> "none", uid |-> uid, early |-> FALSE, exempt |-> FALSE,
     kind |-> "none", emptyDir |-> FALSE]

\* With an emptyDir volume or without.
Volumes(o) == IF o \in Volumed THEN BOOLEAN ELSE {FALSE}

Resident(p) == pod[p].life \in {"running", "ending"} /\ pod[p].place = "here"

Healthy == {p \in Pods : pod[p].kind \in Guarded /\ pod[p].life = "running"}

InitialPods(o) ==
    {Gone(0)} \cup
    [life : {"running"}, place : IF o \in Static THEN {"here"} ELSE {"here", "there"},
     uid : {1}, early : {TRUE}, exempt : {o = "DaemonSet"}, kind : {o},
     emptyDir : Volumes(o)]

Init ==
    /\ owner \in [Pods -> Owners]
    /\ args \in [force : BOOLEAN, emptyDir : BOOLEAN]
    /\ unschedulable \in BOOLEAN
    /\ pod \in {f \in [Pods -> UNION {InitialPods(o) : o \in Owners}] :
                   \A p \in Pods : f[p] \in InitialPods(owner[p])}
    /\ pc = "new"
    /\ listed = [p \in Pods |-> Gone(0)]
    /\ todo = {}
    /\ failed = FALSE
    /\ uncordoned = FALSE
    /\ others = 0

----------------------------------------------------------------------------
\* Mutated forms of the definitions below.

\* The node is not patched.
CordonNothing ==
    /\ pc = "new"
    /\ pc' = "cordoned"
    /\ UNCHANGED <<owner, args, unschedulable, pod, listed, todo, failed, uncordoned, others>>

\* Pods are deleted, whatever their budget.
AcceptsAny(p) == pod[p].life # "gone"

----------------------------------------------------------------------------
\* The drain.

\* skipReason: whether the arguments spare a pod.
Skips(r) ==
    \/ r.kind = "mirror"
    \/ r.kind = "none" /\ ~args.force
    \/ r.kind = "DaemonSet"
    \/ r.emptyDir /\ ~args.emptyDir

Cordon ==
    /\ pc = "new"
    /\ unschedulable' = TRUE
    /\ pc' = "cordoned"
    /\ UNCHANGED <<owner, args, pod, listed, todo, failed, uncordoned, others>>

\* Pods the scheduler has bound to the node, those that are on their way out too.
List ==
    /\ pc = "cordoned"
    /\ listed' = [p \in Pods |-> IF Resident(p) THEN pod[p] ELSE Gone(0)]
    /\ todo' = {p \in Pods : Resident(p)}
    /\ pc' = "evicting"
    /\ UNCHANGED <<owner, args, unschedulable, pod, failed, uncordoned, others>>

\* The patch or the list fails, after the deadline for certain: the call ends, and
\* a node that was cordoned stays so.
CallFails ==
    /\ pc \in {"new", "cordoned"}
    /\ unschedulable' \in {unschedulable, pc = "new" \/ unschedulable}
    /\ pc' = "failed"
    /\ UNCHANGED <<owner, args, pod, listed, todo, failed, uncordoned, others>>

SeenTo(p) ==
    /\ pc = "evicting" /\ p \in todo
    /\ todo' = todo \ {p}
    /\ UNCHANGED <<owner, args, unschedulable, pc, listed, uncordoned, others>>

Skip(p) == Skips(listed[p]) /\ SeenTo(p) /\ UNCHANGED <<pod, failed>>

\* The API server takes an eviction of a running pod within its budget, and one of a
\* pod that does not run in any case.
Accepts(p) ==
    /\ pod[p].life # "gone"
    /\ p \in Healthy => Cardinality(Healthy) > MinAvailable

Ended(p) == pod' = [pod EXCEPT ![p].life = "ending"]

\* Judged by the list; the eviction names the pod, not its uid.
Evict(p) ==
    /\ ~Skips(listed[p]) /\ SeenTo(p)
    /\ Accepts(p)
    /\ Ended(p)
    /\ UNCHANGED failed

\* The pod is gone, its budget is used up, or the API call fails, perhaps after it
\* was done.
EvictFails(p) ==
    /\ ~Skips(listed[p]) /\ SeenTo(p)
    /\ failed' = TRUE
    /\ \/ UNCHANGED pod
       \/ Accepts(p) /\ Ended(p)

Finish ==
    /\ pc = "evicting" /\ todo = {}
    /\ pc' = "done"
    /\ UNCHANGED <<owner, args, unschedulable, pod, listed, todo, failed, uncordoned, others>>

DrainStep ==
    \/ Cordon \/ List \/ CallFails \/ Finish
    \/ \E p \in Pods : Skip(p) \/ Evict(p) \/ EvictFails(p)

----------------------------------------------------------------------------
\* The cluster.

Becomes(p, r) ==
    /\ pod' = [pod EXCEPT ![p] = r]
    /\ UNCHANGED <<owner, args, unschedulable, drain, uncordoned>>

\* The uncordon tool, or another client.
Uncordon ==
    /\ others < MaxOthers /\ unschedulable
    /\ others' = others + 1
    /\ unschedulable' = FALSE
    /\ uncordoned' = (uncordoned \/ pc # "new")
    /\ UNCHANGED <<owner, args, pod, drain>>

OthersDelete(p) ==
    /\ others < MaxOthers /\ pod[p].life = "running"
    /\ others' = others + 1
    /\ Becomes(p, [pod[p] EXCEPT !.life = "ending"])

\* The kubelet has stopped the pod.
Terminated(p) ==
    /\ pod[p].life = "ending"
    /\ Becomes(p, Gone(pod[p].uid))
    /\ UNCHANGED others

\* A new pod under a name.
NewPod(p, life, n, exempt, kind, volume) ==
    [life |-> life, place |-> n, uid |-> pod[p].uid + 1, early |-> FALSE,
     exempt |-> exempt, kind |-> kind, emptyDir |-> volume]

\* The owner replaces its pod, from the template it has now; a ReplicaSet under a new
\* name.
Replace(p) ==
    /\ pod[p].life = "gone" /\ pod[p].uid < MaxUid
    /\ owner[p] \notin Static \cup {"none"}
    /\ owner[p] = "ReplicaSet" => pod[p].uid = 0
    /\ \E volume \in Volumes(owner[p]), exempt \in BOOLEAN :
          /\ owner[p] = "DaemonSet" => exempt
          /\ Becomes(p, NewPod(p, "pending", "none", exempt, owner[p], volume))
    /\ UNCHANGED others

\* run_debug_pod, or another client: a pod without a controller, on the node its
\* spec names, or left to the scheduler.
CreatePod(p) ==
    /\ others < MaxOthers
    /\ pod[p].life = "gone" /\ pod[p].uid < MaxUid
    /\ others' = others + 1
    /\ \E volume \in Volumes("none") :
          \/ Becomes(p, NewPod(p, "pending", "none", FALSE, "none", volume))
          \/ \E n \in {"here", "there"} :
                Becomes(p, NewPod(p, "running", n, TRUE, "none", volume))

\* The kubelet mirrors its static pods again.
Mirror(p) ==
    /\ pod[p].life = "gone" /\ pod[p].uid \in 1..(MaxUid - 1) /\ owner[p] \in Static
    /\ \E volume \in Volumes(owner[p]) :
          Becomes(p, NewPod(p, "running", "here", FALSE, owner[p], volume))
    /\ UNCHANGED others

\* The scheduler picks a node: this one if it is schedulable or the pod is exempt.
\* It binds the pod later.
Schedule(p) ==
    /\ pod[p].life = "pending"
    /\ \E n \in {"here", "there"} :
          /\ n = "here" => ~unschedulable \/ pod[p].exempt
          /\ Becomes(p, [pod[p] EXCEPT !.life = "assumed", !.place = n,
                                        !.early = (pc = "new")])
    /\ UNCHANGED others

Bind(p) ==
    /\ pod[p].life = "assumed"
    /\ Becomes(p, [pod[p] EXCEPT !.life = "running"])
    /\ UNCHANGED others

ClusterStep ==
    Uncordon \/ \E p \in Pods :
        \/ OthersDelete(p) \/ Terminated(p) \/ Replace(p) \/ CreatePod(p) \/ Mirror(p)
        \/ Schedule(p) \/ Bind(p)

Next == DrainStep \/ ClusterStep

Spec == Init /\ [][Next]_vars

----------------------------------------------------------------------------
\* Properties.

\* After a drain without failures, whatever still runs on the node was to be spared,
\* or came after the list: the scheduler had chosen the node before the cordon,
\* somebody lifted the cordon, the kubelet brought a static pod back, or the pod is
\* one a cordon does not keep out, as run_debug_pod's with a node (nodes.go:97-110,
\* 142, ephemeral.go:159).
LeftoverExplained ==
    pc = "done" /\ ~failed =>
        \A p \in Pods : Resident(p) /\ pod[p].life = "running" /\ ~Skips(pod[p]) =>
            /\ pod[p].uid # listed[p].uid
            /\ pod[p].early \/ uncordoned \/ pod[p].exempt \/ pod[p].kind = "static"

\* A pod the drain ends is the one it listed, on the node still and not spared by
\* the arguments, or it has taken the name of such a one since, whatever it is and
\* wherever it runs: evictPod sends no uid, so that "evict eligible ones" (nodes.go:103)
\* is true of the list only.  Its budget is kept (nodes.go:117-131, 191).
EvictionsExplained ==
    [][DrainStep => \A p \in Pods : pod'[p] # pod[p] =>
          /\ \/ pod[p].uid = listed[p].uid /\ Resident(p) /\ ~Skips(pod[p])
             \/ pod[p].uid > listed[p].uid /\ listed[p].uid # 0
          /\ p \in Healthy => Cardinality(Healthy') >= MinAvailable]_vars
====
