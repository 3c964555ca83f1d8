---- MODULE ContainerList ----
(***************************************************************************)
(* What add_ephemeral_container promises: a container is added to the list *)
(* in one step, and the call says so only if it was.  Others add           *)
(* containers too, and a pod that goes takes its list with it; nothing     *)
(* else ever leaves the list.                                              *)
(***************************************************************************)
CONSTANTS Calls, ContainerNames

VARIABLES list,    \* the pod's ephemeral containers
          outcome  \* outcome[c]: "pending", "attached" or "failed"

vars == <<list, outcome>>

Init ==
    /\ list \in SUBSET ContainerNames
    /\ outcome = [c \in Calls |-> "pending"]

\* The container is added; the call says so, or its answer is lost.
Attach(c) ==
    /\ outcome[c] = "pending"
    /\ \E n \in ContainerNames \ list : list' = list \cup {n}
    /\ \E o \in {"attached", "failed"} : outcome' = [outcome EXCEPT ![c] = o]

Fail(c) ==
    /\ outcome[c] = "pending"
    /\ outcome' = [outcome EXCEPT ![c] = "failed"]
    /\ UNCHANGED list

OthersAttach ==
    /\ \E n \in ContainerNames \ list : list' = list \cup {n}
    /\ UNCHANGED outcome

\* The pod is deleted; one of the same name begins with an empty list.
PodGone == list' = {} /\ UNCHANGED outcome

Next == OthersAttach \/ PodGone \/ \E c \in Calls : Attach(c) \/ Fail(c)

Spec == Init /\ [][Next]_vars
====
